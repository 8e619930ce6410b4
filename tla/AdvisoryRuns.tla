---------------------------- MODULE AdvisoryRuns ----------------------------
(***************************************************************************)
(* The OSV worker for one package version: runs are queued, claimed in     *)
(* batches under a lease, looked up at OSV and published as snapshots of   *)
(* AFFECTED_BY facts (osv_worker.py).  The deps.dev worker follows the same*)
(* protocol with batches of one (depsdev_worker.py).                       *)
(*                                                                         *)
(* A bundle is what OSV answers for the package; its content hash is the   *)
(* source revision.  A bundle in Truncated is over the limits and is       *)
(* published as PARTIAL.                                                   *)
(***************************************************************************)
EXTENDS Integers, FiniteSets, FiniteSetsExt

CONSTANTS
    AdvisoryWorkers,     \* worker processes
    MaxAdvisoryAttempts, \* max_attempts of the refresh policy
    Truncated,           \* bundles over the limits
    Restorable,          \* whether OSV may answer again what it answered before
    MaxBundles,          \* bound: what OSV may answer
    MaxAdvisoryRuns,     \* bound: rows of ingest_run
    MaxAdvisoryMishaps   \* bound: crashes and leases outlived by their holder

Bundles == 1 .. MaxBundles
AdvisoryRows == 1 .. MaxAdvisoryRuns
NoBundle == 0
NoWorker == "no worker"
ASSUME AdvisoryAssumption ==
    /\ MaxAdvisoryAttempts \in Nat \ {0} /\ MaxBundles \in Nat \ {0}
    /\ MaxAdvisoryRuns \in Nat /\ MaxAdvisoryMishaps \in Nat
    /\ Truncated \subseteq Bundles /\ Restorable \in BOOLEAN
    /\ IsFiniteSet(AdvisoryWorkers) /\ NoWorker \notin AdvisoryWorkers

VARIABLES
    osv,           \* the bundle OSV answers with
    due,           \* the target's next_due_at has come
    run,           \* ingest_run, by id; its holder is the owner of a live lease
    enricher,      \* each worker: the runs of its batch not dealt with, the bundle it got
    bundles,       \* bundles with a PUBLISHED snapshot
    shown,         \* bundles with facts that have system_to IS NULL
    freshness,     \* freshness_state
    advisoryMishaps

advisoryVars == <<osv, due, run, enricher, bundles, shown, freshness, advisoryMishaps>>

AdvisoryActive == {"PENDING", "RUNNING"}
AdvisoryEnded == {"SUCCEEDED", "PARTIAL", "FAILED"}
NoAdvisory == [status |-> "NONE", holder |-> NoWorker, attempt |-> 1]
Waiting == [NoAdvisory EXCEPT !.status = "PENDING"]
FreeRows == {i \in AdvisoryRows : run[i].status = "NONE"}
Scheduling == {w \in AdvisoryWorkers : enricher[w].pc = "scheduling"}
NoneActive == \A i \in AdvisoryRows : run[i].status \notin AdvisoryActive
HasRow == Cardinality(FreeRows) > Cardinality(Scheduling)  \* bound
Queued(rows) == [rows EXCEPT ![Min(FreeRows)] = Waiting]

Resting == [pc |-> "resting", todo |-> {}, got |-> NoBundle]
At(w, pc) == enricher[w].pc = pc
Rests(w) == enricher' = [enricher EXCEPT ![w] = Resting]
\* The batch is over with its last run.
Done(w, i) ==
    LET left == enricher[w].todo \ {i}
    IN  enricher' = [enricher EXCEPT ![w] = IF left = {} THEN Resting ELSE [@ EXCEPT !.todo = left]]

-----------------------------------------------------------------------------
\* An advisory is published, corrected or withdrawn.
Republish(b) ==
    /\ IF Restorable THEN b # osv ELSE b = osv + 1
    /\ osv' = b
    /\ UNCHANGED <<due, run, enricher, bundles, shown, freshness, advisoryMishaps>>

\* _ensure_target_and_run with refresh_existing, under the lock of the target's row
EnqueuePackage ==
    /\ HasRow
    /\ due' = TRUE
    /\ run' = IF NoneActive THEN Queued(run) ELSE run
    /\ UNCHANGED <<osv, enricher, bundles, shown, freshness, advisoryMishaps>>

RefreshElapses ==
    /\ ~due /\ freshness.status # "NONE"
    /\ due' = TRUE
    /\ UNCHANGED <<osv, run, enricher, bundles, shown, freshness, advisoryMishaps>>

\* The statement of schedule_due_targets reads ingest_run ...
AdvisoryScheduleReads(w) ==
    /\ At(w, "resting")
    /\ due /\ NoneActive /\ HasRow
    /\ enricher' = [enricher EXCEPT ![w].pc = "scheduling"]
    /\ UNCHANGED <<osv, due, run, bundles, shown, freshness, advisoryMishaps>>

\* ... and inserts: only the columns of the target are looked at again.
AdvisoryScheduleInserts(w) ==
    /\ At(w, "scheduling")
    /\ run' = IF due THEN Queued(run) ELSE run
    /\ Rests(w)
    /\ UNCHANGED <<osv, due, bundles, shown, freshness, advisoryMishaps>>

Abandoned(i) == run[i].status = "RUNNING" /\ run[i].holder = NoWorker

\* Fault: a run whose lease has run out is not looked at.
EnrichableIfPending(i) == run[i].status = "PENDING"
Enrichable(i) == run[i].status = "PENDING" \/ Abandoned(i)

\* claim_runs
ClaimBatch(w, batch) ==
    /\ At(w, "resting")
    /\ batch # {} /\ \A i \in batch : Enrichable(i)
    /\ run' = [i \in AdvisoryRows |->
                 IF i \notin batch THEN run[i]
                 ELSE [status |-> "RUNNING", holder |-> w,
                       attempt |-> run[i].attempt + (IF Abandoned(i) THEN 1 ELSE 0)]]
    /\ enricher' = [enricher EXCEPT ![w] = [Resting EXCEPT !.pc = "claimed", !.todo = batch]]
    /\ UNCHANGED <<osv, due, bundles, shown, freshness, advisoryMishaps>>

\* query_batch and the details of each advisory: the transaction comes later.
Query(w) ==
    /\ At(w, "claimed")
    /\ enricher' = [enricher EXCEPT ![w].pc = "fetched", ![w].got = osv]
    /\ UNCHANGED <<osv, due, run, bundles, shown, freshness, advisoryMishaps>>

\* Fault: the lease is not looked at.
OwnsById(w, i) == run[i].status # "NONE"

\* _lock_owned_run
Owns(w, i) == run[i].status = "RUNNING" /\ run[i].holder = w

EndedAs(i, status) == run' = [run EXCEPT ![i] = [NoAdvisory EXCEPT !.status = status]]

\* persist_enrichment: one transaction, up to publish_source_snapshot.  A bundle that has
\* been published before only completes the run.
Persist(w, i) ==
    /\ At(w, "fetched") /\ i \in enricher[w].todo
    /\ Done(w, i)
    /\ LET b == enricher[w].got
       IN  IF ~Owns(w, i) THEN UNCHANGED <<due, run, bundles, shown, freshness>>
           ELSE /\ EndedAs(i, IF b \in Truncated THEN "PARTIAL" ELSE "SUCCEEDED")
                /\ due' = FALSE
                /\ freshness' = [status |-> "FRESH", rev |-> b]
                /\ bundles' = bundles \cup {b}
                /\ shown' = CASE b \in bundles -> shown
                              [] b \in Truncated -> shown \cup {b}
                              [] OTHER -> {b}
    /\ UNCHANGED <<osv, advisoryMishaps>>

\* _record_failure, for an unusable answer, an error of the provider or of the transport
RecordFailure(w, i, retriable) ==
    /\ enricher[w].pc \in {"claimed", "fetched"} /\ i \in enricher[w].todo
    /\ Done(w, i)
    /\ IF ~Owns(w, i) THEN UNCHANGED <<due, run, freshness>>
       ELSE IF retriable /\ run[i].attempt < MaxAdvisoryAttempts
       THEN /\ run' = [run EXCEPT ![i] = [Waiting EXCEPT !.attempt = run[i].attempt + 1]]
            /\ UNCHANGED <<due, freshness>>
       ELSE /\ EndedAs(i, "FAILED")
            /\ due' = FALSE
            /\ freshness' = [freshness EXCEPT !.status = "ERROR"]
    /\ UNCHANGED <<osv, bundles, shown, advisoryMishaps>>

AdvisoryMishap == advisoryMishaps < MaxAdvisoryMishaps /\ advisoryMishaps' = advisoryMishaps + 1

EnricherCrash(w) ==
    /\ ~At(w, "resting")
    /\ AdvisoryMishap
    /\ Rests(w)
    /\ UNCHANGED <<osv, due, run, bundles, shown, freshness>>

\* Five minutes pass without a renewal.
AdvisoryLeaseExpires(i) ==
    /\ run[i].holder # NoWorker
    /\ IF i \in enricher[run[i].holder].todo THEN AdvisoryMishap ELSE UNCHANGED advisoryMishaps
    /\ run' = [run EXCEPT ![i].holder = NoWorker]
    /\ UNCHANGED <<osv, due, enricher, bundles, shown, freshness>>

\* sync_observed_package_versions has not seen the package yet.
AdvisoryInit ==
    /\ osv = 1 /\ due = FALSE
    /\ run = [i \in AdvisoryRows |-> NoAdvisory]
    /\ enricher = [w \in AdvisoryWorkers |-> Resting]
    /\ bundles = {} /\ shown = {}
    /\ freshness = [status |-> "NONE", rev |-> NoBundle]
    /\ advisoryMishaps = 0

AdvisoryWork(w) ==
    \/ AdvisoryScheduleInserts(w) \/ Query(w)
    \/ \E i \in AdvisoryRows : Persist(w, i)

AdvisoryNext ==
    \/ \E b \in Bundles : Republish(b)
    \/ EnqueuePackage \/ RefreshElapses
    \/ \E w \in AdvisoryWorkers :
           \/ AdvisoryScheduleReads(w) \/ AdvisoryWork(w) \/ EnricherCrash(w)
           \/ \E batch \in SUBSET AdvisoryRows : ClaimBatch(w, batch)
           \/ \E i \in AdvisoryRows, retriable \in BOOLEAN : RecordFailure(w, i, retriable)
    \/ \E i \in AdvisoryRows : AdvisoryLeaseExpires(i)

AdvisorySpec == AdvisoryInit /\ [][AdvisoryNext]_advisoryVars

\* The worker polls and finishes its batch, and the clock runs.
AdvisoryFairness ==
    /\ \A i \in AdvisoryRows :
           /\ WF_advisoryVars(\E w \in AdvisoryWorkers, batch \in SUBSET AdvisoryRows :
                                  i \in batch /\ ClaimBatch(w, batch))
           /\ WF_advisoryVars(AdvisoryLeaseExpires(i))
    /\ \A w \in AdvisoryWorkers : WF_advisoryVars(AdvisoryWork(w))
-----------------------------------------------------------------------------
(* Properties.                                                             *)

\* The columns stay within their types.  Taking over a run is not bounded by max_attempts,
\* so an attempt may pass it by the number of mishaps.
AdvisoryTypeOK ==
    /\ osv \in Bundles /\ due \in BOOLEAN
    /\ run \in [AdvisoryRows -> [status : {"NONE"} \cup AdvisoryActive \cup AdvisoryEnded,
                                 holder : AdvisoryWorkers \cup {NoWorker},
                                 attempt : 1 .. MaxAdvisoryAttempts + MaxAdvisoryMishaps]]
    /\ enricher \in [AdvisoryWorkers ->
                        [pc : {"resting", "scheduling", "claimed", "fetched"},
                         todo : SUBSET AdvisoryRows, got : Bundles \cup {NoBundle}]]
    /\ bundles \subseteq Bundles /\ shown \subseteq bundles
    /\ freshness \in [status : {"NONE", "FRESH", "ERROR"}, rev : Bundles \cup {NoBundle}]
    /\ advisoryMishaps \in 0 .. MaxAdvisoryMishaps

\* A run that has ended stays as it ended: a worker that lost its lease in the middle of a
\* batch neither publishes for it, nor fails it, nor queues it again.
EndedAdvisoriesStayEnded ==
    [][\A i \in AdvisoryRows :
           run[i].status \in AdvisoryEnded => run'[i].status = run[i].status]_advisoryVars

\* Every run ends, through crashes, lost leases and failures in the middle of a batch.
EveryAdvisoryEnds ==
    \A i \in AdvisoryRows :
        run[i].status \in AdvisoryActive ~> run[i].status \in AdvisoryEnded

\* The runbook's promise: what is reported as fresh is what is shown, so that an answer
\* that became empty closes the facts of the one before.
FreshAdvisoriesAreShown ==
    freshness.status = "FRESH" /\ freshness.rev \notin Truncated => shown = {freshness.rev}
=============================================================================
