----------------------------- MODULE Simulations -----------------------------
(***************************************************************************)
(* Runs of the change simulator: the API submits and cancels them, a worker*)
(* claims one, walks its mutations and stores findings and result in one   *)
(* transaction, then asks for an interpretation (phase2_changes.py).  The  *)
(* triggers of migrations 047 and 051 make terminal runs immutable.        *)
(*                                                                         *)
(* The interpretation is inserted when the run is terminal already, which  *)
(* the trigger on its table refuses; the handler's own update is refused   *)
(* by the other trigger, and the process ends.                             *)
(***************************************************************************)
EXTENDS Integers

CONSTANTS
    Simulators,            \* worker processes
    MaxSimulationAttempts, \* simulation_run.max_attempts
    MaxSimulations,        \* bound: rows of simulation_run
    MaxSimulatorKills      \* bound: processes killed from outside

SimulationRows == 1 .. MaxSimulations
NoSimulation == 0
ASSUME SimulationAssumption ==
    MaxSimulationAttempts \in Nat \ {0} /\ MaxSimulations \in Nat /\ MaxSimulatorKills \in Nat

VARIABLES
    simulation,  \* simulation_run, by id; whether it has findings, whether an interpretation
    simulator,   \* each worker process
    cancelling,  \* runs whose status a cancellation has read and found active
    simulatorKills

simulationVars == <<simulation, simulator, cancelling, simulatorKills>>

SimulationActive == {"QUEUED", "RUNNING"}
Results == {"SUCCEEDED", "LIMITED", "NOT_SIMULATABLE"}
SimulationEnded == Results \cup {"FAILED", "CANCELLED"}
NoRunYet == [status |-> "NONE", attempt |-> 0, findings |-> FALSE, interpreted |-> FALSE]

\* Fault: a cancelled run can still be updated; nothing is immutable.
ImmutableUnlessCancelled(i) == simulation[i].status \in SimulationEnded \ {"CANCELLED"}
NeverImmutable(i) == simulation[i].status = "NONE"
\* stackgraph_prevent_terminal_simulation_mutation, ..._child_mutation
Immutable(i) == simulation[i].status \in SimulationEnded

\* submit_simulation; a submission of the same change set on the same estate is replayed.
SubmitSimulation(i) ==
    /\ simulation[i].status = "NONE"
    /\ simulation' = [simulation EXCEPT ![i].status = "QUEUED"]
    /\ UNCHANGED <<simulator, cancelling, simulatorKills>>

\* cancel_simulation reads the status ...
CancelReads(i) ==
    /\ simulation[i].status \in SimulationActive
    /\ cancelling' = cancelling \cup {i}
    /\ UNCHANGED <<simulation, simulator, simulatorKills>>

\* ... and updates the run by id.
CancelWrites(i) ==
    /\ i \in cancelling
    /\ cancelling' = cancelling \ {i}
    /\ simulation' = IF Immutable(i) THEN simulation
                     ELSE [simulation EXCEPT ![i].status = "CANCELLED"]
    /\ UNCHANGED <<simulator, simulatorKills>>

Polling == [pc |-> "polling", run |-> NoSimulation, attempt |-> 0]
Simulator(w, pc) == simulator[w].pc = pc
Moves(w, pc) == simulator' = [simulator EXCEPT ![w].pc = pc]

NextAttempt(i) == simulation[i].attempt + 1

\* The claim of run_next_simulation: queued runs only.
ClaimSimulation(w, i) ==
    /\ Simulator(w, "polling")
    /\ simulation[i].status = "QUEUED"
    /\ simulation' = [simulation EXCEPT ![i].status = "RUNNING", ![i].attempt = NextAttempt(i)]
    /\ simulator' = [simulator EXCEPT ![w] =
                        [pc |-> "simulating", run |-> i, attempt |-> NextAttempt(i)]]
    /\ UNCHANGED <<cancelling, simulatorKills>>

\* The transaction of _execute_simulation
StoreResult(w, result) ==
    /\ Simulator(w, "simulating")
    /\ LET i == simulator[w].run
       IN  IF Immutable(i) THEN Moves(w, "raised") /\ UNCHANGED simulation
           ELSE /\ simulation' = [simulation EXCEPT ![i].status = result, ![i].findings = TRUE]
                /\ Moves(w, "interpreting")
    /\ UNCHANGED <<cancelling, simulatorKills>>

\* _simulate_mutation raises, or the timeout does.
SimulationRaises(w) ==
    /\ Simulator(w, "simulating")
    /\ Moves(w, "raised")
    /\ UNCHANGED <<simulation, cancelling, simulatorKills>>

\* _record_interpretation, whatever the interpretation is
RecordInterpretation(w) ==
    /\ Simulator(w, "interpreting")
    /\ LET i == simulator[w].run
       IN  IF Immutable(i) THEN Moves(w, "raised") /\ UNCHANGED simulation
           ELSE /\ simulation' = [simulation EXCEPT ![i].interpreted = TRUE]
                /\ simulator' = [simulator EXCEPT ![w] = Polling]
    /\ UNCHANGED <<cancelling, simulatorKills>>

\* The exception handler of run_next_simulation, by id; what it raises ends the process.
HandleException(w) ==
    /\ Simulator(w, "raised")
    /\ LET i == simulator[w].run
       IN  IF Immutable(i)
           THEN simulator' = [simulator EXCEPT ![w] = [Polling EXCEPT !.pc = "ended"]] /\ UNCHANGED simulation
           ELSE /\ simulation' = [simulation EXCEPT ![i].status =
                       IF simulator[w].attempt >= MaxSimulationAttempts THEN "FAILED" ELSE "QUEUED"]
                /\ simulator' = [simulator EXCEPT ![w] = Polling]
    /\ UNCHANGED <<cancelling, simulatorKills>>

Kill(w) ==
    /\ ~Simulator(w, "ended")
    /\ simulatorKills < MaxSimulatorKills /\ simulatorKills' = simulatorKills + 1
    /\ simulator' = [simulator EXCEPT ![w] = [Polling EXCEPT !.pc = "ended"]]
    /\ UNCHANGED <<simulation, cancelling>>

\* compose.yaml: restart: unless-stopped
Restart(w) ==
    /\ Simulator(w, "ended")
    /\ Moves(w, "polling")
    /\ UNCHANGED <<simulation, cancelling, simulatorKills>>

SimulationInit ==
    /\ simulation = [i \in SimulationRows |-> NoRunYet]
    /\ simulator = [w \in Simulators |-> Polling]
    /\ cancelling = {} /\ simulatorKills = 0

SimulationNext ==
    \/ \E i \in SimulationRows : SubmitSimulation(i) \/ CancelReads(i) \/ CancelWrites(i)
    \/ \E w \in Simulators : \/ \E i \in SimulationRows : ClaimSimulation(w, i)
                             \/ \E result \in Results : StoreResult(w, result)
                             \/ SimulationRaises(w) \/ RecordInterpretation(w)
                             \/ HandleException(w) \/ Kill(w) \/ Restart(w)

SimulationSpec == SimulationInit /\ [][SimulationNext]_simulationVars

\* The worker polls, a simulation is over within its timeout and the container is restarted.
SimulationFairness ==
    /\ WF_simulationVars(\E w \in Simulators, i \in SimulationRows : ClaimSimulation(w, i))
    /\ \A w \in Simulators :
           /\ WF_simulationVars((\E result \in Results : StoreResult(w, result)) \/ SimulationRaises(w))
           /\ WF_simulationVars(RecordInterpretation(w) \/ HandleException(w) \/ Restart(w))
-----------------------------------------------------------------------------
(* Properties.                                                             *)

\* The columns stay within their types.
SimulationTypeOK ==
    /\ simulation \in [SimulationRows -> [status : {"NONE"} \cup SimulationActive \cup SimulationEnded,
                                          attempt : 0 .. MaxSimulationAttempts,
                                          findings : BOOLEAN, interpreted : BOOLEAN]]
    /\ simulator \in [Simulators -> [pc : {"polling", "simulating", "interpreting", "raised", "ended"},
                                     run : SimulationRows \cup {NoSimulation},
                                     attempt : 0 .. MaxSimulationAttempts]]
    /\ cancelling \subseteq SimulationRows /\ simulatorKills \in 0 .. MaxSimulatorKills

\* A run that has ended keeps its status, its findings and its result, against a cancellation
\* that read an older status, a worker that was overtaken by one, and the failure that
\* follows a stored result.
EndedSimulationsAreFinal ==
    [][\A i \in SimulationRows :
           simulation[i].status \in SimulationEnded => simulation'[i] = simulation[i]]_simulationVars

\* There are findings exactly for the runs that report a result: none for a run that was
\* cancelled, failed or is queued again, and never a result without them.
FindingsMeanResult ==
    \A i \in SimulationRows : simulation[i].findings <=> simulation[i].status \in Results

Orphaned(i) ==
    simulation[i].status = "RUNNING" /\ \A w \in Simulators : simulator[w].run # i

\* Every run ends, or was left RUNNING by a process killed in the middle of it: the process
\* that dies after every stored result does not keep the next run from ending.
EverySimulationEnds ==
    \A i \in SimulationRows :
        simulation[i].status \in SimulationActive ~> simulation[i].status \in SimulationEnded \/ Orphaned(i)

\* _interpret_simulation: a simulation with a result has its interpretation, or the reason why
\* there is none, as soon as the worker is done with it.
ResultsAreInterpreted ==
    \A i \in SimulationRows :
        simulation[i].status \in Results =>
            simulation[i].interpreted \/ \E w \in Simulators : Simulator(w, "interpreting") /\ simulator[w].run = i
=============================================================================
