-------------------------- MODULE IntelligenceJobs --------------------------
(***************************************************************************)
(* The modernization analysis of one repository: each complete snapshot,   *)
(* and each change of the configuration an operator asks to apply, enqueues*)
(* a job; the worker analyses the repository's latest revision, whatever   *)
(* the job was enqueued for (modernization_worker.py, capability_worker.py,*)
(* enqueue_repository_intelligence_on_publish of schema.sql).              *)
(*                                                                         *)
(* Revisions are numbered in the order they are published and observed,    *)
(* and configurations (policy, catalogs, internal components) in the order *)
(* they come into force; neither returns.  What an analysis finds is the   *)
(* revision and the configuration it was made of.  The trigger and         *)
(* enqueue_reanalysis compute a configuration's fingerprint each in its    *)
(* own way, so that the code may hold two jobs of a revision and           *)
(* configuration where there is one here.                                  *)
(***************************************************************************)
EXTENDS Integers

CONSTANTS
    Analysers,           \* worker processes
    MaxAnalysisAttempts, \* intelligence_job.max_attempts
    Incomplete,          \* revisions whose snapshot is not COMPLETE
    MaxRevision,         \* bound: snapshots published
    MaxConfiguration,    \* bound: configurations
    MaxAnalyserCrashes   \* bound: crashes

Published == 1 .. MaxRevision
Configurations == 1 .. MaxConfiguration
ASSUME IntelligenceAssumption ==
    /\ MaxAnalysisAttempts \in Nat \ {0} /\ MaxRevision \in Nat
    /\ MaxConfiguration \in Nat \ {0} /\ MaxAnalyserCrashes \in Nat
    /\ Incomplete \subseteq Published

VARIABLES
    newest,        \* the revision published last
    configuration, \* the configuration in force
    analysis,      \* intelligence_job, by revision and configuration (its unique key)
    analyser,      \* each worker process
    analysed,      \* the revision and the configuration of the candidates that are not stale
    analyserCrashes

intelligenceVars == <<newest, configuration, analysis, analyser, analysed, analyserCrashes>>

Analyses == Published \X Configurations
Nothing == <<0, 0>>
NotEnqueued == [status |-> "NONE", attempt |-> 0]

\* INSERT ... ON CONFLICT DO NOTHING
WithAnalysis(key) ==
    IF analysis[key].status = "NONE" THEN [analysis EXCEPT ![key].status = "PENDING"] ELSE analysis

\* publish_source_snapshot and its trigger: a snapshot that is not complete enqueues nothing.
PublishRevision ==
    /\ newest < MaxRevision
    /\ newest' = newest + 1
    /\ analysis' = IF newest + 1 \in Incomplete THEN analysis
                   ELSE WithAnalysis(<<newest + 1, configuration>>)
    /\ UNCHANGED <<configuration, analyser, analysed, analyserCrashes>>

\* A policy, a catalog or an internal component changes.
ChangeConfiguration ==
    /\ configuration < MaxConfiguration
    /\ configuration' = configuration + 1
    /\ UNCHANGED <<newest, analysis, analyser, analysed, analyserCrashes>>

LatestComplete(r) ==
    /\ r \in (1 .. newest) \ Incomplete
    /\ \A later \in r + 1 .. newest : later \in Incomplete

\* enqueue_reanalysis
Reanalyse(r) ==
    /\ LatestComplete(r)
    /\ analysis' = WithAnalysis(<<r, configuration>>)
    /\ UNCHANGED <<newest, configuration, analyser, analysed, analyserCrashes>>

Unoccupied == [pc |-> "out", job |-> Nothing, attempt |-> 0, revision |-> 0]
Analyser(w, pc) == analyser[w].pc = pc
Goes(w, pc) == analyser' = [analyser EXCEPT ![w].pc = pc]

\* _claim_job: pending jobs only, so that a lease that has run out is of no use.
ClaimAnalysis(w, key) ==
    /\ Analyser(w, "out")
    /\ analysis[key].status = "PENDING"
    /\ analysis' = [analysis EXCEPT ![key] = [status |-> "RUNNING", attempt |-> @.attempt + 1]]
    /\ analyser' = [analyser EXCEPT ![w] =
           [pc |-> "claimed", job |-> key, attempt |-> analysis[key].attempt + 1, revision |-> 0]]
    /\ UNCHANGED <<newest, configuration, analysed, analyserCrashes>>

\* Fault: the revision of the job.
RevisionOfJob(w) == analyser[w].job[1]
RevisionRead(w) == newest

\* analyze_repository: _latest_revision, and the inferences of that revision
ReadRevision(w) ==
    /\ Analyser(w, "claimed")
    /\ analyser' = [analyser EXCEPT ![w].pc = "inferred", ![w].revision = RevisionRead(w)]
    /\ UNCHANGED <<newest, configuration, analysis, analysed, analyserCrashes>>

\* analyze_modernization, one transaction, for a complete revision: it makes the candidates
\* of other revisions, and those it does not find again, stale.
AnalyseModernization(w) ==
    /\ Analyser(w, "inferred")
    /\ analysed' = IF analyser[w].revision \in Incomplete THEN analysed
                   ELSE <<analyser[w].revision, configuration>>
    /\ Goes(w, "analysed")
    /\ UNCHANGED <<newest, configuration, analysis, analyserCrashes>>

\* _complete_job, by id
CompleteAnalysis(w) ==
    /\ Analyser(w, "analysed")
    /\ analysis' = [analysis EXCEPT ![analyser[w].job].status = "SUCCEEDED"]
    /\ analyser' = [analyser EXCEPT ![w] = Unoccupied]
    /\ UNCHANGED <<newest, configuration, analysed, analyserCrashes>>

\* _fail_job: an error of the analysis or of the provider
FailAnalysis(w, retryable) ==
    /\ Analyser(w, "claimed") \/ Analyser(w, "inferred")
    /\ analysis' = [analysis EXCEPT ![analyser[w].job].status =
           IF ~retryable \/ analyser[w].attempt >= MaxAnalysisAttempts THEN "FAILED" ELSE "PENDING"]
    /\ analyser' = [analyser EXCEPT ![w] = Unoccupied]
    /\ UNCHANGED <<newest, configuration, analysed, analyserCrashes>>

\* The job stays RUNNING.
AnalyserCrash(w) ==
    /\ ~Analyser(w, "out")
    /\ analyserCrashes < MaxAnalyserCrashes /\ analyserCrashes' = analyserCrashes + 1
    /\ analyser' = [analyser EXCEPT ![w] = Unoccupied]
    /\ UNCHANGED <<newest, configuration, analysis, analysed>>

IntelligenceInit ==
    /\ newest = 0 /\ configuration = 1
    /\ analysis = [key \in Analyses |-> NotEnqueued]
    /\ analyser = [w \in Analysers |-> Unoccupied]
    /\ analysed = Nothing /\ analyserCrashes = 0

IntelligenceNext ==
    \/ PublishRevision \/ ChangeConfiguration
    \/ \E r \in Published : Reanalyse(r)
    \/ \E w \in Analysers : \/ ReadRevision(w) \/ AnalyseModernization(w)
                            \/ CompleteAnalysis(w) \/ AnalyserCrash(w)
                            \/ \E key \in Analyses : ClaimAnalysis(w, key)
                            \/ \E retryable \in BOOLEAN : FailAnalysis(w, retryable)

IntelligenceSpec == IntelligenceInit /\ [][IntelligenceNext]_intelligenceVars
-----------------------------------------------------------------------------
(* Properties.                                                             *)

\* The columns stay within their types.
IntelligenceTypeOK ==
    /\ newest \in 0 .. MaxRevision /\ configuration \in Configurations
    /\ analysis \in [Analyses -> [status : {"NONE", "PENDING", "RUNNING", "SUCCEEDED", "FAILED"},
                                  attempt : 0 .. MaxAnalysisAttempts]]
    /\ analyser \in [Analysers -> [pc : {"out", "claimed", "inferred", "analysed"},
                                   job : Analyses \cup {Nothing},
                                   attempt : 0 .. MaxAnalysisAttempts, revision : 0 .. MaxRevision]]
    /\ analysed \in Analyses \cup {Nothing} /\ analyserCrashes \in 0 .. MaxAnalyserCrashes

\* Once the job of the newest revision under the configuration in force has succeeded, the
\* candidates shown are of that revision and of that configuration, and stay so: an older
\* job that is claimed or retried later does not put an older analysis in their place.
LatestIsAnalysed ==
    newest \in Published \ Incomplete /\ analysis[<<newest, configuration>>].status = "SUCCEEDED"
        => analysed = <<newest, configuration>>
=============================================================================
