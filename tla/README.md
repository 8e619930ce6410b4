# StackGraph verification

TLA+ models of StackGraph's concurrent core, TLC configurations that check them on small
instances, and TLAPS proofs of their main invariants for every value of the constants.
StackGraph keeps facts about software estates in PostgreSQL and hands work between
processes through tables: outboxes, deliveries, requests, jobs. Each worker leases a row,
works on it outside any transaction, and comes back to record the result. What can go wrong
there (a worker that dies between two databases, one that outlives its lease, commits in an
order nobody expected, a retry of something already done) is what these models are about.

Paths below are relative to the repository's root; in `PROJECT.json` they start with `src/`.

## Contents

| File | What it is |
|---|---|
| `ReplicatedGraph.tla` | abstract specification: a replica that lags only where it knows it does |
| `GraphProjection.tla` | publication, outbox, deliveries and the Neo4j projection worker |
| `GraphRebuild.tla` | the blue/green rebuild beside projection workers and publications |
| `GraphAnalysis.tla` | graph-analysis requests, runs and the graph-intelligence worker |
| `RepositoryScans.tla` | webhooks, schedule, rescan and the control loop that scans a repository |
| `AdvisoryRuns.tla` | the OSV worker's runs for one package version |
| `EmbeddingJobs.tla` | the embedding queue of one entity |
| `IntelligenceJobs.tla` | the modernization analyses of one repository |
| `Simulations.tla` | change simulations: submission, cancellation, worker, interpretation |
| `HarnessPromotions.tla` | evaluation, promotion and rollback of one agent harness |
| `GraphProjectionProofs`, `ProjectionOrderProofs`, `ProjectionSyncProofs` | theorems about `GraphProjection`: leases and statuses; the order of the queue and dead letters; what Neo4j shows |
| `GraphRebuildProofs`, `GraphAnalysisProofs`, `RepositoryScansProofs` | theorems about the module of that name |
| `JobQueueProofs` | theorems about the five modules of `MCJobQueues` and their union |
| `Extrema.tla` | lemmas about least and greatest row numbers, which several proofs use |
| `MC*.tla`, `*.cfg` | the instances TLC checks; `MCJobQueues` holds the last five modules together |
| `PROJECT.json` | components, runs, definition-to-source map, mutations, findings, hazards, theorems |

Definitions whose comment begins with "Fault:" are not part of the model. They are
deliberate bugs that `PROJECT.json` swaps in for the definition below them, to show that
each property can fail.

## 1. The system

The parts that keep state between transactions, and how they meet:

```
 GitHub webhooks, schedules -> control loop -> scanner -> scanner_ingest
                                                              | publish_source_snapshot
                                                              v
 fact_assertion -> projection_outbox -> graph_projection_delivery
                                              |  neo4j_project.py (leased workers)
          neo4j_rebuild.py (same lease) ----->|
                                              v
                       Neo4j  <- read by the API (neo4j_graph.py), while "current"
                         |
   graph_analysis_request <- requested at catch-up, by an administrator, by a rebuild
                         |  graph-intelligence worker (leased)
                         v
   graph_analysis_run, active_graph_analysis_run  <- read by the API
```

Components do not call each other. They share rows of PostgreSQL, so all interaction is
between transactions, plus the Neo4j writes and reads that happen outside of them.

| Component | State | Operations | What is hard | What makes it correct |
|---|---|---|---|---|
| Snapshot publication and outbox (`schema.sql`, `scanner_ingest.py`) | `source_snapshot`, `fact_assertion`, `projection_outbox`, `graph_projection_delivery` | `publish_source_snapshot`; triggers that fan out, backfill and enqueue | ids are allocated before commit; triggers read the deployment while another transaction changes it | each change reaches each deployment; a watermark covers what is below it |
| Neo4j projection (`neo4j_project.py`, `neo4j_graph.py`) | deployment watermarks and lease, delivery status and lease, Neo4j | claim, load, apply, mark processed, record failure, register; currency test | two databases without a common commit; leases in two tables; backoff; stragglers | no change marked done that is not in Neo4j; Neo4j served only when it is current |
| Blue/green rebuild (`neo4j_rebuild.py`) | `rebuild_state`, candidate database, the deployment lease | begin, reset, snapshot, copy, catch up, validate, activate, fail | shares the lease and the watermark with the workers; goes on after it lost the lease until its next heartbeat; nobody resets `rebuild_state` after a crash | the served database is never the one being rebuilt; what is switched to is current; the watermark never falls |
| Graph intelligence (`worker.py`, `schema.sql`) | `graph_analysis_request`, `graph_analysis_run`, `active_graph_analysis_run` | request (coalescing), claim or defer, heartbeat, analyse, persist, fail, recover | two rows per analysis, guarded separately; the graph moves on while it is analysed | newest result active; nothing asked for is forgotten; a result covers its request |
| Embedding worker (`embedding_worker.py`) | `embedding_job`, `embedding_document`, `entity_embedding`, `embedding_space` | enqueue, claim, succeed, fail, recover, activate a space | success and failure are recorded by job id alone; the document is read outside any transaction | no older vector comes back over a job that has succeeded; every job ends |
| Control loop and webhooks (`github_control_loop.py`, `github_webhook_store.py`, `scanner_ingest.py`) | `ingest_target`, `ingest_run`, `freshness_state`, `rescan_job`, snapshots | push, suspend, reconcile, policy, rescan, schedule, claim, renew, publish, complete, fail | schedule races webhook; lease races publication; `next_due_at` has six writers | ended runs stay ended; what is called fresh was published; the schedule never runs dry; every run ends |
| Intelligence jobs (`modernization_worker.py`, `capability_worker.py`) | `intelligence_job`, modernization candidates | enqueue, claim, analyse, complete, fail | a job analyses the latest revision, not its own; no recovery of RUNNING | a finished analysis of the newest revision is the one shown |
| Change simulations (`phase2_changes.py`, `change_simulation_worker.py`) | `simulation_run`, findings, interpretation | submit, cancel, claim, execute, interpret, retry | cancel races completion; triggers refuse writes to ended runs | ended stays ended; findings exactly with results; every run ends |
| OSV and deps.dev workers (`osv_worker.py`, `depsdev_worker.py`) | enrichment `ingest_run`, targets, snapshots | enqueue, schedule, claim a batch, query, publish, fail | one lease on a batch, looked at run by run; an answer that comes back is a replay | ended runs stay ended; every run ends |
| Immune system (`immune_system.py`) | scenarios, `harness_evaluation`, `harness_promotion`, `harness_champion` | derive, evaluate, drill, propose, decide, roll back | the gate is computed once and decided on later | only a proven version runs; a rollback restores what ran (it may not, see section 5) |
| AGE projector (`project.py`) | the same outbox, one database | project | little: one transaction | none of the hazards of two databases |
| Repository scanner, API routes and read models, MCP server, web, migrations, rate limiter, agent control, estate governance | none shared, or single transactions | | little concurrency | |

`PROJECT.json` lists each with its status, and under `hazards` every place where this code
is hard to test, with its line and the properties that watch it.

## 2. What is modelled

### GraphProjection

One tenant and its deployment. Each action is one PostgreSQL transaction, one Neo4j
transaction, or one step of the worker between them.

| Variable | In the code |
|---|---|
| `outbox`, `committed` | `projection_outbox`: ids are allocated at INSERT, rows visible at commit |
| `current` | `fact_assertion` rows with `system_to IS NULL` |
| `txn`, `rowLock` | each source's open publication; the lock a trigger's UPDATE holds on the deployment row until commit |
| `deployment` | the `tenant_graph_deployment` row: state, both watermarks, lease, and the newest analysis requested |
| `delivery` | `graph_projection_delivery` of the deployment |
| `worker` | the program counter, batch and loaded facts of each worker process |
| `edges`, `applied` | Neo4j's relationships; `applied` is a history variable: ids some Neo4j commit contained |

| Action | In the code |
|---|---|
| `BeginPublish`, `FireTriggers`, `CommitPublish` | `publish_source_snapshot`: close statement and its trigger, upsert statement and its trigger, commit |
| `Register` | `register_deployment` and the backfill trigger |
| `Claim` | `_claim_batch` |
| `Load`, `Apply` | `_load_fact` over the batch, `build_mutation_batch` with `Neo4jGraphWriter.apply` |
| `MarkProcessed`, `Fail` | `_mark_processed` with the request for an analysis; `_record_failure` |
| `Crash`, `LeaseExpires`, `BackoffElapses` | the process dies; five minutes pass; `available_at` is reached |

Abstractions:

- A fact is named by the outbox row that upserts it. Each fact has exactly one.
- Nodes are omitted, since the projector only merges them, and so are value facts, which
  have no relationship. Keys belong to one source each.
- Reading the facts of a batch is one step. Two Neo4j transactions are serial.
- A statement's row triggers fire together, with one read of the deployment's state.
- Claims take `SKIP LOCKED` and the marks wait for locks. While a publication holds the
  deployment row (`rowLock`), claims pass it over and the other updates block. The race of a
  claim against a mark or failure in progress is not split further.
- The delivery and deployment leases are stamped with one `now()` and so run out together.
- A backoff is the set of deliveries that failed together: after `2^attempt` seconds the
  ones with fewer attempts come back no later than those with more.
- A worker's id is `host:pid`, so a restarted worker may or may not have the same one.
  The model reuses it, which is the case with more behaviours.
- Registering anew is modelled where it changes something here: of a deployment that exists
  and is in ERROR, or that does not exist. Of an ACTIVE one it leaves the state as it is
  and the trigger returns at once (`schema.sql:509`). A registration with another endpoint or
  database (`neo4j_project.py:632-636`), which turns the projection to another graph, is not modelled.
- When several facts of one key are current, any one of them counts as in sync, because the
  order in which the code writes them is unspecified.
- The tenant's service is running. `SUSPENDED` and `PROVISIONING` are written by no code here.

`Adversity` says what the environment does: `"overlap"` lets publications of different
sources (and a registration) overlap in time; `"stall"` lets a lease run out while its
holder is still at work. Everything else, crashes and failures anywhere included, is always
possible within the bounds.

### ReplicatedGraph

What a projection promises its readers, without outbox, leases or workers: a source, a
replica, and a set of dirty keys. The source may change if it dirties what it changes; the
replica may be written on dirty keys; a key may be declared clean only if it is.
`GraphProjection!Refines` maps `dirty` to the keys that still have a delivery which is not
PROCESSED (all keys while the deployment is not ACTIVE).

### GraphAnalysis

One policy of one tenant.

| Variable | In the code |
|---|---|
| `desired`, `projected`, `serving`, `graph` | the deployment's watermarks and state, and what is in Neo4j: `GraphProjection`, reduced to what this component reads |
| `request`, `run` | `graph_analysis_request`, `graph_analysis_run`, by request (`request_id` is UNIQUE in runs) |
| `active` | `active_graph_analysis_run` |
| `worker` | each process: program counter, its request, the graph GDS read |
| `asked` | history variable: the newest watermark anybody asked to have analysed |

| Action | In the code |
|---|---|
| `Ask` | `request_graph_analysis` (`read_models_admin.py`) |
| `ProjectionApplies`, `ProjectionAdvances`, `ProjectionStops`, `ProjectionResumes` | what the projection does, with `stackgraph_request_graph_analysis` at catch-up |
| `Recover` | `_recover_expired` |
| `Claim`, `Defer` | the two outcomes of `_claim` |
| `Analyze`, `Heartbeat`, `Persist`, `Break`, `Fail` | `analyze`, `_heartbeat`, `_persist`, an exception, `_fail` |
| `Crash`, `LeaseExpires`, `DelayElapses` | the process dies; thirty minutes without a heartbeat; `available_at` is reached |

Abstractions:

- A watermark stands for the changes up to it.
- What GDS computes, the result tables and the choice between tenants are left out.
- `SUCCEEDED_WITH_LIMITATIONS` is folded into `SUCCEEDED`. `CANCELLED` is never written.
- `Ask` reads the watermarks and upserts in one step: a stale read equals an earlier `Ask`.
- Two concurrent claims of one policy exclude each other by the unique index on RUNNING
  runs; the loser's transaction has no effect and is not an action.
- New rows get ids nobody used (they are UUIDs), so the model takes any unused one by
  `CHOOSE`. The assumption `EnoughRequests` makes the guard `HasRoom` always true.

Two facts of the code stand out, both modelled as they are:

- Each retry is a new request with attempt 0, so `max_attempts` never counts retries. An
  analysis that always fails is retried without end. `NoRequestForgotten` depends on this,
  through `AttemptsAssumption` (`MaxAttempts > 1`).
- A worker that has lost its run still schedules a successor in `_fail`: a spurious retry,
  which merges with the one the recovery made, or follows it.

### GraphRebuild

One tenant. What `GraphProjection` has in full (failures of workers, dead letters,
registration, delivery leases) is left out here. The rebuild is in full: each of its Neo4j
writes, PostgreSQL reads and heartbeats is a step of its own.

| Variable | In the code |
|---|---|
| `change`, `committed`, `current` | the outbox rows one publication writes for one key, those visible, and the current fact of each key |
| `deployment`, `delivery` | `tenant_graph_deployment` with `rebuild_state` and the database that serves; the deliveries |
| `graph` | every database of the Neo4j server: the fact behind each relationship |
| `worker` | each worker, and the writer it keeps open (`_writers`) until its run ends |
| `rebuild` | each rebuild: program counter, candidate, snapshot, watermark, target and cursor of the catch-up |

| Action | In the code |
|---|---|
| `BeginPublish`, `CommitPublish` | `publish_source_snapshot` with its triggers |
| `Claim`, `EndRun`, `Load`, `Apply`, `MarkProcessed` | `run_until_empty` and what it calls |
| `Begin`, `Reset`, `Snapshot`, `Copy` | `_begin`, `writer.reset()`, the REPEATABLE READ snapshot, its batches |
| `Heartbeat` | `_heartbeat`: it renews a lease that has run out as long as nobody has taken it |
| `Target`, `Read`, `Write`, `Validate` | the catch-up loop and the parity check |
| `Activate`, `Raise`, `RebuildBreaks` | `_activate`; the exceptions of the code, and of either database, with `_fail` |
| `WorkerCrash`, `RebuildCrash`, `LeaseExpires` | a process dies; five minutes pass |

Three behaviours of the code are in the model as they are. Workers never look at
`rebuild_state`, so a worker takes over when the rebuild's lease runs out, and the rebuild goes
on writing its candidate until its next heartbeat fails. A rebuild that crashes leaves
`rebuild_state` RUNNING, and no later one can begin; projection goes on. The parity check
compares logical keys, not facts: it is the watermark and the switch's transaction that make
the served graph current.

Two cases are excluded unless `Adversity` names them. `"straggle"`: a worker outlives its
lease with a batch in hand (that is `outlived_lease`, section 5), or holds a writer of the old
database when a rebuild switches; with it `ServedGraphIsCurrent` fails. So does `CatchUpRequestsAnalysis`: a straggler whose lease
a rebuild has taken marks its deliveries PROCESSED without moving the watermark or requesting an
analysis, and if the rebuild then fails nobody does so until the next change. `"overlap"`:
publications overlap, so that a row commits below the snapshot's watermark.

### RepositoryScans

One repository with its target, runs, freshness and one rescan job.

| Variable | In the code |
|---|---|
| `head`, `hooks` | GitHub's default branch; push webhooks not yet processed |
| `connector`, `target` | `connector_account.status`; `ingest_target` with its policy and `next_due_at` |
| `scan` | `ingest_run`, by id, in order of insertion |
| `scanner` | each control loop process, and what it read at its claim |
| `published`, `latest`, `facts`, `fresh` | published snapshots, the last one, whose facts are current, `freshness_state` |
| `rescan` | `rescan_job`, linked to the runs marked `rescan` |

| Action | In the code |
|---|---|
| `Push`, `RoutePush` | GitHub; `_route_push`, which cancels pending runs of other revisions |
| `Disconnect`, `Unsuspend`, `Reconcile`, `SetPolicy` | suspension and revocation, `_activate_installation`, the reconciliation and repository webhooks, `update_scan_policy` |
| `RequestRescan`, `RollUp` | `request_rescan`, `reconcile_rescan_jobs` |
| `ScheduleReads`, `ScheduleInserts` | `schedule_due_targets`, between its snapshot and the row lock |
| `ClaimRun`, `Acquire`, `ScanRepository`, `Publish`, `MarkFresh`, `CompleteRun`, `FailRun` | `claim_run`, `_renew_lease` with the acquisition and with the scan, `persist_scanner_result_connection`, `_mark_target_fresh`, `_complete_run`, `_fail_run` |
| `FailExhausted`, `ScannerCrash`, `ScanLeaseExpires`, `CadenceElapses` | `fail_exhausted_leases`; the process dies; thirty minutes pass; `next_due_at` is reached |

What stands out in the code, and is in the model: the scheduler and a webhook, or two
schedulers, can each insert a run of the same target, because the test for an active run and
the insertion are not one atomic step; `persist` sets the run SUCCEEDED by id, whoever holds
its lease (the exception in `EndedScansStayEnded`); a push cancels a pending run of a rescan,
which then ends FAILED; a run that fails retryably on a disabled target stays PENDING (the
exception in `EveryScanEnds`); and a push enables a target that was disabled.

`ScanAdversity` `"revert"` lets the branch be forced back. Its old revision has a snapshot,
so the scan is a replay and the facts in between stay current: the same pattern as
`restored_advisories` in section 5. `"policy"` lets the policy change during a scan;
`next_due_at` is then written from the policy of the claim and may stay NULL under a cadence
that is on, which `ScheduledTargetsAreDue` excludes. Not modelled: the promotion of a
directly connected repository, replays from the cache of an earlier revision, webhook
signatures, and the order in which runs are claimed.

### The queues

`MCJobQueues` holds five modules that share no state. A behaviour chooses one `queue` at the
start and moves only in it, so the state space is a sum and not a product. Properties of a
module hold of the run as they would of the module alone.

| Module | Actions, in the order of the code | Left out |
|---|---|---|
| `AdvisoryRuns` | `Republish` (OSV's answer changes), `EnqueuePackage`, `RefreshElapses`, `AdvisoryScheduleReads`, `AdvisoryScheduleInserts`, `ClaimBatch`, `Query`, `Persist`, `RecordFailure`, `EnricherCrash`, `AdvisoryLeaseExpires` | discovery of package versions, rate limits; the deps.dev worker, the same protocol with one run at a time and with the same replay |
| `EmbeddingJobs` | `ChangeEntity` and `ChangeFact` (each with its trigger), `RenameNeighbour`, `BackfillEntity`, `RecoverExpired`, `ClaimEmbedding`, `ReadDocument`, `StoreVector`, `FailEmbedding`, `EmbedderCrash`, `EmbeddingLeaseExpires` | activation and evaluation of spaces, similarity candidates, policy and service switch (both on) |
| `IntelligenceJobs` | `PublishRevision`, `ChangeConfiguration`, `Reanalyse`, `ClaimAnalysis`, `ReadRevision`, `AnalyseModernization`, `CompleteAnalysis`, `FailAnalysis`, `AnalyserCrash` | the second kind of job; changes of neighbouring or global entities; revisions are published in the order they are observed; what is said below of fingerprints |
| `Simulations` | `SubmitSimulation`, `CancelReads`, `CancelWrites`, `ClaimSimulation`, `StoreResult`, `SimulationRaises`, `RecordInterpretation`, `HandleException`, `Kill`, `Restart` | what a walk over the mutations finds; compilation and validation of change sets |
| `HarnessPromotions` | `DeriveScenario`, `StartEvaluation`, `RecordResult`, `FinishEvaluation`, `PassRollbackDrill`, `ProposeGates`, `ProposeReads`, `ProposeInserts`, `Decide`, `RollBack` | incident briefs, generation of scenarios from incidents, feature flags (on); one proposal between its gate and its insertion at a time |

Behaviours that a reader might not expect, all of them in the models:

- Advisory runs that are taken over are not counted against `max_attempts`. Two schedulers
  may duplicate a run; with a third run, freshness and facts then disagree even if no answer
  returns, which is why `FreshAdvisoriesAreShown` has no passing run.
- The document of an entity is its own text, its facts and its neighbours' names
  (`embedding_worker.py:173-186`); the model names it by the number of changes made to any of
  them. A job is deduplicated by the hash of what its trigger looks at, and only against jobs in
  flight (`schema.sql:1007-1009`). The entity's text may return to an earlier one, and then meet its
  old job; a fact is inserted and closed once, so the hash of its change is always new. So the
  queue may drain with a vector that is not that of the current document (section 5). What holds
  is `SucceededJobsAreStored`.
- An embedding job is completed and failed by id. With one worker this is harmless, as
  `JobQueueProofs` shows; with two, a straggler stores an older vector over that of a job that
  has succeeded and `SucceededJobsAreStored` fails, and a late failure puts a job back in the queue
  that has had its last attempt, so that `attempt` passes its limit. `compose.yaml` runs one, while
  `docs/graph-and-embeddings-features.md:744` speaks of source changes that rebuild the right vectors.
- An intelligence job whose worker dies stays RUNNING for good. A job enqueued for a COMPLETE
  revision succeeds without an analysis if a PARTIAL one has been published since.
- The fingerprint of such a job is computed in two ways, by the trigger (`schema.sql:783-786`) and
  by `enqueue_reanalysis` (`modernization_worker.py:136-138`), so that a revision under a
  configuration may have two jobs. The model has one key, the revision with the
  configuration, and so at most one job. In it configurations do not return; in the code one that
  returns meets its old SUCCEEDED job, and no new one is enqueued.
- The simulation worker's process ends after every stored result (section 5) and its
  container is restarted. A run whose worker is killed stays RUNNING.
- A gate is computed once, when a promotion is proposed. `ChampionIsProven` holds all the
  same, since evaluations and drills are never withdrawn. What a stale gate does break is the
  other half of migration 062 (lines 11-13), that the evaluation covers at least the scenarios
  the champion's did: of two proposals gated beside each other, the second to be promoted was
  compared with the champion before the first. No property claims that half.
- A rollback restores the incumbent of the proposal, which need not be what ran before the
  promotion (`rollback`, section 5). After a rollback the promotion of the restored version cannot
  itself be rolled back.

## 3. What is checked

All passing runs are exhaustive. Sizes are distinct states.

| Run | Instance | Shows |
|---|---|---|
| `projection_retries` (343,956) | 1 source and key, 2 workers, stall, outbox of 3, 2 attempts, 2 failures, 2 mishaps, fair | `TypeOK`, `ProcessedWasApplied`, `LiveLeasesHaveOneHolder`, `LeasesAreHeld`, `TerminalIsFinal`, `ClaimsInOrder`, `DeadLetterStops`, `CatchUpRequestsAnalysis`, `EveryDeliveryEnds` |
| `projection_sync` (1,173,238) | 2 sources, a key each, 2 workers, outbox of 4, 1 failure, 2 crashes, no overlap, stall or dead letter | `ServedGraphIsCurrent`, `WatermarkFollowsCommit`, `Refines` |
| `analyses` (265,616) | 2 workers, 6 requests, 2 changes, 1 administrator's request, 1 failure, 1 mishap, fair | `TypeOK`, `RunsMatchRequests`, `ActiveIsNewest`, `NoRequestForgotten`, `RunCoversRequest`, `EveryRequestAnalysed` |
| `rebuild` (431,738) | 2 keys, 2 databases, 1 worker, 2 rebuilders, batches of 1, 3 changes, 2 rebuilds, 1 mishap, no adversity, fair | `TypeOK`, `CandidateIsPrivate`, `ServedGraphIsCurrent`, `CatchUpRequestsAnalysis`, `WatermarkNeverFallsBack`, `DeliveriesEnd`, `Refines` |
| `scans` (407,404) | 2 scanners, 2 attempts, 2 revisions (one beyond the limits), 2 runs, 1 disturbance, no adversity, fair | `ScansTypeOK`, `FreshMeansPublished`, `ScheduledTargetsAreDue`, `RescanReportsItsRuns`, `EndedScansStayEnded`, `EveryScanEnds` |
| `jobs` (136,380) | advisories: 2 workers, 2 attempts, 2 bundles (one truncated), 2 runs, 2 mishaps; embeddings: 1 worker, 2 attempts, 2 texts, 3 changes of the document, 2 jobs, 2 mishaps; intelligence: 1 worker, 2 attempts, 3 revisions (one incomplete), 2 configurations, 1 crash; simulations: 2 workers, 2 attempts, 2 runs, 1 kill; promotions: 2 people, 2 versions, 1 scenario, 2 evaluations, 2 promotions; fair | `QueuesTypeOK`, `SucceededJobsAreStored`, `LatestIsAnalysed`, `FindingsMeanResult`, `ChampionIsProven`, `EndedAdvisoriesStayEnded`, `EndedSimulationsAreFinal`, `EveryJobEnds` |

The other six runs each find a violation; see section 5.

`projection_retries` lets leases be outlived but no publications overlap, since `ClaimsInOrder` and
`DeadLetterStops` need that. With overlap as well, its first five properties are theorems
(`GraphProjectionProofs`, without any condition), and `overlapping_publications` shows what fails.

`projection_sync` is the positive result about the served graph, and it says under which
conditions that result holds: publications commit one at a time, no lease is outlived by
its holder, and no delivery dead-letters (five attempts against at most three lost ones).
The violation runs drop these conditions one at a time.

`DeadLetterStops` and `ClaimsInOrder` are checked without overlap and speak of the time up to
the first dead letter. With overlap a row can become visible below the batch in progress; and
when a lease is outlived as well, a straggler can dead-letter a delivery without stopping the
deployment. After a dead letter the deployment has to be registered again. That backfill may
insert deliveries older than one that already waits or is being retried, so the order is lost.

**Why the bounds are enough.** Two workers give holder and successor, which is all a lease
protocol distinguishes. Three outbox rows of one key are upsert, close and upsert again, the
shortest history in which a late write shows; four rows over two keys are two complete
snapshots beside each other. A batch size of 2 makes batches that are partly exhausted or
partly superseded. Two attempts make a delivery dead-letter after one retry. One failure and
two mishaps let a worker die and its successor stall or die. In `analyses`, the six requests
are what two changes, one ask, one failure and one mishap can insert, so ids never run out.
In `rebuild`, three changes over two keys put one each into the snapshot, the catch-up and the
time after it, and the second rebuild begins after the first has failed or been activated (or
finds that it may not). In `scans`, two revisions give supersession, two runs give duplicates
and a run beside a rescan, and the disturbance is any one of crash, outlived lease, suspension,
removal and policy change. In `jobs`, two attempts give one retry and then the end; three changes and two jobs are the
least with which a text returns while the job of its first appearance is in flight and another job
has been stored in between; two
versions, evaluations and promotions are the least that can be proposed on one gate and decided
after another.
Deadlock is not checked: at the bounds, and when nobody publishes, the system rightly stops.

**Fairness.** `GraphProjection!FairSpec`: open transactions end, some worker claims what can
be claimed (the service polls, and is restarted when its process ends), a worker that is
working goes on, and time passes (leases and backoffs end). Publishing, registering, failing
and crashing are under no obligation. `GraphAnalysis!FairSpec`: the projection runs, some
worker recovers and some worker claims, each worker goes on with what it has, time passes.
Neither a change nor an `Ask`, a stop, or the registration that ends one is fair; so
`EveryRequestAnalysed` exempts a deployment that stays stopped. `GraphRebuild!FairSpec`: some
worker claims, each worker and each rebuild goes on, leases end; nobody has to publish or to
rebuild. `ScanFairness`, `AdvisoryFairness`, `EmbeddingFairness` and `SimulationFairness`: each
loop polls, and nothing it can claim is passed over forever (claims are ordered by kind,
priority and age, and a model has few rows to be ahead); work that was started goes on; leases end. The restart of a simulation worker that has
ended is fair because `compose.yaml` says `restart: unless-stopped`. No fairness is assumed of
the intelligence queue and of promotions, and no liveness is claimed of them. All fairness is
weak.

## 4. What is proved

The proofs hold for any values of the constants the named `ASSUME`s admit: any numbers of
keys, sources, databases, workers, requests, runs and jobs, any batch size and attempt limit,
any bounds, and any `Adversity` that the third column does not exclude. Every safety property
of every passing run is a theorem.

| Theorem | Statement | Condition |
|---|---|---|
| `GraphProjectionProofs!Typing`, `NothingIsLost`, `WorkersHoldTheirBatch`, `OneHolder` | `TypeOK`, `ProcessedWasApplied`, `LeasesAreHeld`, `LiveLeasesHaveOneHolder` always hold | |
| `FinalStatus` | `TerminalIsFinal`: a PROCESSED or DEAD_LETTER delivery stays so | |
| `ProjectionOrderProofs!OldestFirst`, `CatchUpIsNoticed` | `ClaimsInOrder` and `CatchUpRequestsAnalysis` always hold | no overlap |
| `FirstDeadLetterStops` | `DeadLetterStops` | no overlap |
| `WatermarkIsSafe` | `WatermarkFollowsCommit` holds until a delivery dead-letters | no overlap |
| `DeadLettersAreEarned`, `FewLossesAreSurvived` | a dead letter has cost `MaxAttempts` failures, crashes and outlived leases; fewer of these leave no dead letter | few losses, for the second |
| `WatermarkIsSafeWhileLossesAreFew` | `WatermarkFollowsCommit` always holds | no overlap, few losses |
| `ProjectionSyncProofs!ServedIsCurrent`, `Refinement` | until a delivery dead-letters `ServedGraphIsCurrent` holds; without one `Refines` | no overlap, no stall |
| `ServedIsCurrentWhileLossesAreFew`, `RefinementWhileLossesAreFew` | `ServedGraphIsCurrent` always holds; `Refines` | no overlap, no stall, few losses |
| `DrainedIsCurrent` | `DrainedGraphIsCurrent` always holds (`outlived_lease` drops the condition) | no overlap, no stall |
| `GraphRebuildProofs!RebuildTyping`, `RebuildsArePrivate`, `WatermarkRises` | `TypeOK` and `CandidateIsPrivate` always hold; `WatermarkNeverFallsBack` | |
| `RebuildServesCurrent`, `CatchUpIsAnalysed` | `ServedGraphIsCurrent` and `CatchUpRequestsAnalysis` always hold | no overlap, no straggler |
| `RebuildRefinement` | `Refines` | no overlap, no straggler |
| `GraphAnalysisProofs!Typing`, `Agreement`, `NewestIsActive`, `NothingForgotten`, `Coverage` | `TypeOK`, `RunsMatchRequests`, `ActiveIsNewest`, `NoRequestForgotten`, `RunCoversRequest` always hold | |
| `RepositoryScansProofs!ScansAreTyped`, `FreshIsPublished`, `RescansReportTheirRuns` | `ScansTypeOK`, `FreshMeansPublished`, `RescanReportsItsRuns` always hold | |
| `EndedScansAreFinal` | `EndedScansStayEnded` | |
| `SchedulesGoOn` | `ScheduledTargetsAreDue` always holds | no change of policy during a scan |
| `JobQueueProofs!EndedAdvisoriesAreFinal` | `EndedAdvisoriesStayEnded` | |
| `SucceededIsStored`, `NewestIsAnalysed` | `SucceededJobsAreStored`, `LatestIsAnalysed` always hold | one embedding worker; one analyser |
| `FindingsAndResults`, `EndedAreFinal` | `FindingsMeanResult` always holds; `EndedSimulationsAreFinal` | |
| `OnlyProvenRuns` | `ChampionIsProven` always holds | |
| `EachQueueIsItself` | `JobSpec` implies the specification of each queue, so that the theorems about the queues hold of the run | |
| `QueuesAreTyped` | `QueuesTypeOK` always holds | one embedding worker, one analyser |

"Few losses" is `MaxFailures + MaxMishaps < MaxAttempts`. The conditions are those of the runs,
or weaker. Those on `Adversity` are needed: the violation runs of section 5, and the remarks
in sections 2 and 3, are the counterexamples.

**Projection.** `ProcessedWasApplied` is not inductive: a worker marks its batch processed
because it applied it two steps before. `LeasesAreHeld` supplies that (a worker at `applied`
has all of its batch in Neo4j), says that a busy worker's batch is not empty (the watermark
is the maximum of it), and that every live delivery lease of a busy worker is in its batch,
so that `MarkProcessed` and `Fail` release all of them in the step that releases the
deployment; this is what `LiveLeasesHaveOneHolder` needs. There is one lemma per action. The
lemma `FinishingKeeps` serves `MarkProcessed` and `Fail` alike. `FinalStatus` follows from
the same invariant: a terminal delivery has no owner, so it is in nobody's `Held`. The result
covers overlapping publications and outlived leases: the four theorems assume neither away.

**Analyses.** `WorkInProgress` is the strengthening. A queued request is at attempt 0 (so a
failure always leaves a successor), a run in progress is at a watermark no successful run
exceeds (so persisting it keeps the active run the newest), it covers its request, and what
its worker has read holds that watermark. Most actions neither start a run nor let one
succeed. `Quiet(F)` describes these, where `F` is the set of runs that fail in the step, and
`QuietStep` proves once that they preserve the invariant. `Adds` states what the coalescing
upsert does, whether it inserts or merges. Only `Claim` and `Persist` are proved separately.

**Order of the projection.** `OrderInv` says that publications follow one another
(`PublishInOrder`: the rows of the open transaction are newer than all committed ones) and
that, until a dead letter, the queue is worked off from its old end (`QueueInOrder`). A batch
is the oldest part of what is undone. That it stays so through failures and takeovers needs
two facts about a retry. Older deliveries have had at least as many attempts as younger ones
(`AttemptsFall`), so a failure dead-letters the older part of a batch, and whoever waits out a
backoff makes everyone older wait with it, so that backoffs end in order (`WaitsFirst`).
`LowestTakesOver` shows that whoever claims the oldest `BatchSize` rows takes a lost batch over as a whole, so that its straggler holds nothing any more
(`StragglersHoldNothing`). `WatermarkDivides` follows: the watermark separates the delivered
rows from the others. `AttemptsAreLosses` counts independently of all that, under every
adversity: each attempt but the one in hand has cost a failure, a crash or an outlived lease.

**The projected graph.** `Synchrony` adds two things. `FactsInOrder`: among a key's rows
the current ones are the last, because one transaction closes a fact and inserts the next.
`GraphInSync`: a key with no delivery to come shows a current fact; so do the keys of
the batch a worker has applied but not yet marked; and what a worker has loaded is current except
for keys with a younger delivery. Without stalls a busy worker holds the lease (`HolderIsLive`), so that no
straggler writes over a successor. `Refinement` maps `Apply` to `Write`, the commit to `Change`,
`MarkProcessed` and `Register` to `Clean`, and all else to a stutter.

**Rebuild.** The invariant under every adversity has three parts beyond the types. `RebuildIsAlone`:
at most one rebuild is at work, `rebuild_state` is RUNNING while it is, and its candidate is not the
database that serves. It holds without any assumption about the lease, because a lost lease leaves
the state RUNNING. `BatchesAreCommitted`: what workers and rebuilds carry is committed, so that the
maximum of a batch is no more than the newest id. `MarksCover`: a rebuild that holds the lease
has a watermark no smaller than the projected one when it activates; a worker moves the
watermark only under the lease, which then is not the rebuild's. The last gives
`WatermarkRises` for the one step that assigns the watermark without `greatest`.

What is shown needs `SyncInv`, without overlap and stragglers. `StoreInOrder` and
`QueueIsOrdered` are as in the projection: a batch is the oldest part of what is undone, and the
watermark divides. `ServedFollows` is about the database that serves. `CandidateFollows` is about the
candidate, step by step of the rebuild and whoever has the lease: the snapshot is the facts at its
mark; in the catch-up, the candidate shows the facts at the cursor, which are the current
ones except for keys that changed after it; a batch leaves no gap after the
cursor, so the last change of each of its keys is in it or still to come. At the switch the
candidate is current up to the rebuild's mark. The mark is not below the watermark
(`MarksCover`), so what remains undone comes after it, and `ServedFollows` holds of the new
database. That is why the switch is a `Switch` of `ReplicatedGraph`: a clean key has the same fact in
both databases.

**Scans.** `ReadsAreHistory` is the strengthening: what a scanner has read about its run, the
latest snapshot and the revision it publishes stays true, because runs are never deleted and
snapshots never withdrawn. So a scanner that lost its lease can still call only a published
revision fresh. `RescanReportsItsRuns` needs in addition that ended runs stay ended, and that a run
belongs to a rescan only once one was asked for (`NobodyAsked`). `PolicyIsKnown` is the invariant of
`SchedulesGoOn`: a scanner's copy of the cadence is that of the policy.

**Advisories.** `LeasesAreOfRuns`: only running runs have a holder, so a worker that lost its lease
in the middle of a batch finds itself without it for every run that has ended. The types need
`AttemptsAreAccounted`: takeovers are not checked against the limit, so that the attempts are
bounded by the limit plus the mishaps that have happened.

**Embeddings.** A document is the number of changes so far, which only grows, and the worker
reads it after it claimed the job. So what it has read is no older than its own job (`since`), and,
as long as it is the only worker, no older than the stored vector: the vector only moves
forward. `OneEmbedder` is needed for that: it keeps a straggler's older document from being
stored afterwards. Nothing is assumed of the texts, of which changes enqueue a job, or of which job is
claimed first, and the theorem says nothing of a document whose job was deduplicated or that got none.

**Intelligence jobs.** A job names a revision and a configuration that had come into force
when it was enqueued (`AnalysesAreOfThePast`), so nobody works on what has just come into force.
A worker whose result could replace that of the job in force has read the newest revision
(`NothingOlderComes`), since it read after its claim and is alone (`OneAnalyser`).

**Simulations.** `WorkersHoldTheirRun` says what a busy worker may assume of its run: it is
RUNNING with no findings, or has ended, in which case the triggers refuse the update.

**Promotions.** `EverythingProven` extends `ChampionIsProven` from the champion to all that
might become it: the proposal being made on a clear gate, the incumbent it has read, the version
of every pending or executed promotion, and each incumbent. Evidence is only ever added, so a gate
that was clear stays proven.

Not proved, only checked by TLC: liveness (`EveryDeliveryEnds`, `EveryRequestAnalysed`,
`DeliveriesEnd`, `EveryScanEnds`, `EveryJobEnds`), which is out of reach of this prover, and with it
that the conditions of section 5 are the only ones missing.

## 5. Where the code departs from what is said of it

| Run | Property | What happens |
|---|---|---|
| `overlapping_publications` | `WatermarkFollowsCommit` | Two publications commit out of the order of their outbox ids. The worker delivers the higher one and sets the watermark past a row whose delivery is not visible yet. While it is pending the state reads as caught up: both watermarks are maxima. `docs/graph-and-embeddings-features.md:389` says watermarks never advance before the matching Neo4j commit. |
| `reactivated_deployment` | `ServedGraphIsCurrent` | A delivery dead-letters, the deployment goes to ERROR and is registered again. The backfill's `ON CONFLICT DO NOTHING` leaves the dead letter as it is, later deliveries move the watermark past it, and reads are served from a graph without that row. `README.md:97` says Neo4j is used only when healthy and caught up. |
| `outlived_lease` | `DrainedGraphIsCurrent` | A worker stalls past its lease with a batch loaded, its successor delivers that batch and the next, and then the straggler writes the old one: the relationship of a closed fact comes back, and the queue is empty. `docs/runbooks/graph-and-embeddings-operations.md:64` says MERGE makes replay safe. |
| `lost_interpretation` | `ResultsAreInterpreted` | The result is stored and the run is final; then `_interpret_simulation` inserts its row, and the trigger of migration 051 refuses every insertion for a final run. The handler's update of the run is refused by the trigger of migration 047, so the exception ends the process. No simulation with a result gets an interpretation, and the worker dies after each. `phase2_changes.py:2251` says that the interpretation is produced, or the reason recorded why there is none. |
| `restored_advisories` | `FreshAdvisoriesAreShown` | OSV answers {}, then {v}, then {} again. The third answer has a published snapshot, so the run is completed as a replay: freshness is FRESH at {}, and the fact of {v} stays current. `docs/runbooks/osv-enrichment.md:44` says that complete empty results close prior current facts. |
| `rollback` | `RollbackRestores` | Two proposals are in progress together. Both have read their incumbent (here none) before either is promoted; the first is promoted, the second over it, and rolled back: the champion is deleted, although the first one's version was running. `infrastructure/database/migrations/062_harness_promotion.sql:76` says that `previous_version` is kept so that a rollback restores what was actually running; `roll_back_harness_promotion` reads the promotion's `incumbent_version` instead. |

Consequences noted while modelling, without a run of their own:

A drained embedding queue may serve a stale vector, against
`docs/graph-and-embeddings-features.md:744` (source changes deterministically stale or rebuild the
correct embeddings), in two ways. One worker is enough for both. First, an entity says x, its job 1
fails and waits; it says y, and job 2 is stored; job 1 is claimed again and reads y; the entity
says x again, whose hash is that of job 1, still in flight, so that no job is enqueued; job 1 stores y
and succeeds. Had job 1 ended before the text returned, a new job would have been enqueued. Second, a
neighbour is renamed: its name is in the document, but the trigger enqueues a job for the neighbour
only. With `RenameNeighbour` left out and the invariant that a drained queue leaves the vector of the
current document, TLC finds the first on the instance of `jobs`.

After a dead letter no
analysis is requested at catch-up again, since not every delivery is PROCESSED; a batch that
kills its worker is retried without limit, since only `_record_failure` dead-letters; and
`docs/runbooks/graph-and-embeddings-operations.md:68` asks for terminal deliveries to be
replayed, for which there is no command. An analysis run is recorded at the watermark of its
claim while GDS reads the live graph later, so that, against
`docs/graph-and-embeddings-features.md:688`, its inputs cannot be reproduced from the watermark
alone; what holds is `RunCoversRequest`, the run read at least the changes up to its watermark.
Two schedulers at once, or a scheduler and a webhook, can duplicate the active run of a target
(`github_control_loop.py:94`); `docs/runbooks/continuous-discovery-pipeline.md` promises for
installation targets that pending or running work is not duplicated.

## 6. What is not modelled

The map covers about 8 % of the repository's implementation lines. What carries state between
transactions and is worked on by more than one actor is modelled; most of the remaining lines
are not of that kind, and a model of them would be a transliteration:

- `read_models.py`, `models.py`, `routes.py`, most of `read_models_admin.py` and of
  `phase2_changes.py`: queries over committed rows and the shapes of their answers.
- `repository_scanner.py` and the parsers beside it: pure functions of a checkout.
- The AGE projector: one transaction for claim, projection and completion, and so no
  interleaving to explore.
- The MCP server, the web application, migrations and operations scripts: no concurrent state.
- Administration, agent control and estate governance: single transactions under a version
  check. Three places where such a check does not hold were noted. Two removals of the last
  administrators at once each see the other one (`read_models_admin.py:694`). While a tenant
  has no kill-switch row, `FOR UPDATE` locks nothing and the later of two first updates wins
  (`agent_control.py:430`). An approval found to have expired is marked so in the transaction that the
  refusal then rolls back (`agent_control.py:388`).
- Within modelled components: credentials, service heartbeats, tenant service control, ranking
  and pagination, the contents of facts, spaces of embeddings, and what section 2 lists.

## 7. Plan

1. Proofs with weaker conditions: the projection after a dead letter (what still holds of keys
   without one); `WatermarkFollowsCommit` with overlapping publications of which none commits below
   the watermark; the rebuild with workers that hold an old writer but no batch.
2. Proofs of what the violation runs leave: `FreshAdvisoriesAreShown` while no answer returns and
   one worker schedules; `SucceededJobsAreStored` with several embedding workers that outlive no lease; the
   coverage half of the promotion gate while one proposal is settled at a time.
3. Intelligence jobs whose configuration returns, with the two fingerprints; registration of another
   endpoint; the activation of an embedding space beside its backfill, with `activate_space`'s count of
   missing vectors as the guard.
4. `AgentControl`: envelopes, approvals and the kill switch, if more than their row locks turns
   out to matter.
