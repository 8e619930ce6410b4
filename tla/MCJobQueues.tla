----------------------------- MODULE MCJobQueues -----------------------------
(* The queues that share nothing: a behaviour is one of the advisory, the embedding, the    *)
(* intelligence or the simulation queue or the promotion of a harness, while nothing ever   *)
(* happens in the others.                                                                   *)
EXTENDS AdvisoryRuns, EmbeddingJobs, IntelligenceJobs, Simulations, HarnessPromotions
CONSTANTS a1, a2, e1, i1, c1, c2, p1, p2
ScenarioClass == [s \in Scenarios |-> s]

VARIABLE queue  \* the queue that is looked at
jobVars == <<queue, advisoryVars, embeddingVars, intelligenceVars, simulationVars, harnessVars>>

JobInit ==
    /\ queue \in {"advisories", "embeddings", "intelligence", "simulations", "promotions"}
    /\ AdvisoryInit /\ EmbeddingInit /\ IntelligenceInit /\ SimulationInit /\ HarnessInit

AdvisoryStep ==
    queue = "advisories" /\ AdvisoryNext /\ UNCHANGED <<embeddingVars, intelligenceVars, simulationVars, harnessVars>>
EmbeddingStep ==
    queue = "embeddings" /\ EmbeddingNext /\ UNCHANGED <<advisoryVars, intelligenceVars, simulationVars, harnessVars>>
IntelligenceStep ==
    queue = "intelligence" /\ IntelligenceNext /\ UNCHANGED <<advisoryVars, embeddingVars, simulationVars, harnessVars>>
SimulationStep ==
    queue = "simulations" /\ SimulationNext /\ UNCHANGED <<advisoryVars, embeddingVars, intelligenceVars, harnessVars>>
HarnessStep ==
    queue = "promotions" /\ HarnessNext /\ UNCHANGED <<advisoryVars, embeddingVars, intelligenceVars, simulationVars>>
JobNext ==
    /\ AdvisoryStep \/ EmbeddingStep \/ IntelligenceStep \/ SimulationStep \/ HarnessStep
    /\ UNCHANGED queue

JobSpec == /\ JobInit /\ [][JobNext]_jobVars
           /\ AdvisoryFairness /\ EmbeddingFairness /\ SimulationFairness

\* The columns of the five stay within their types.
QueuesTypeOK ==
    AdvisoryTypeOK /\ EmbeddingTypeOK /\ IntelligenceTypeOK /\ SimulationTypeOK /\ HarnessTypeOK

\* Whatever is queued ends, in each of the three queues whose rows are polled for.
EveryJobEnds == EveryAdvisoryEnds /\ EveryEmbeddingEnds /\ EverySimulationEnds
=============================================================================
