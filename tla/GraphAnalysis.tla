--------------------------- MODULE GraphAnalysis ---------------------------
(***************************************************************************)
(* The graph analyses of one tenant under one policy: requests coalesce in *)
(* graph_analysis_request, workers (GraphIntelligenceWorker) claim one     *)
(* under a lease, analyse the tenant's Neo4j graph and persist the results *)
(* as an immutable run that becomes the active one.  The projection that   *)
(* feeds Neo4j is its environment here; GraphProjection has it in full.    *)
(*                                                                         *)
(* A request has at most one run (request_id is UNIQUE), which is named by *)
(* its request.  A watermark stands for the changes up to an outbox id.    *)
(***************************************************************************)
EXTENDS Integers, FiniteSets

CONSTANTS
    Requests,     \* ids of graph_analysis_request rows
    Workers,      \* graph-intelligence worker processes
    MaxAttempts,  \* max_attempts of the worker
    MaxChanges,   \* bound: changes published
    MaxAsks,      \* bound: requests made through the API
    MaxFailures,  \* bound: exceptions
    MaxMishaps    \* bound: crashes, leases outlived by their holder, projection stops

ASSUME AttemptsAssumption == MaxAttempts \in Nat /\ MaxAttempts > 1
ASSUME LimitsAssumption ==
    MaxChanges \in Nat /\ MaxAsks \in Nat /\ MaxFailures \in Nat /\ MaxMishaps \in Nat

\* Ids are never exhausted: each of these events inserts at most so many requests.
ASSUME EnoughRequests ==
    Cardinality(Requests) >= MaxChanges + MaxAsks + MaxFailures + 2 * MaxMishaps

Nobody == "nobody"
NoRequest == "no request"
ASSUME NamesAssumption == Nobody \notin Workers /\ NoRequest \notin Requests

VARIABLES
    desired, projected,  \* the deployment's watermarks
    serving,             \* the deployment is ACTIVE
    graph,               \* the changes that are in Neo4j
    request, run,        \* the rows of both tables, by request
    active,              \* active_graph_analysis_run of the policy
    worker,              \* each process: where it is, its request, the graph it read
    asked,               \* history: the largest watermark anybody requested
    asks, failures, mishaps  \* counters for the bounds

deployment == <<desired, projected, serving, graph>>
rows == <<request, run, active>>
bounds == <<asks, failures, mishaps>>
vars == <<deployment, rows, worker, asked, bounds>>

Greatest(a, b) == IF a < b THEN b ELSE a

-----------------------------------------------------------------------------
(* Rows.                                                                   *)

NoRow == [status |-> "NONE", mark |-> 0, owner |-> Nobody, leased |-> FALSE,
          waiting |-> FALSE, attempt |-> 0]
NoRun == [status |-> "NONE", owner |-> Nobody, leased |-> FALSE, at |-> 0, of |-> 0]

\* Fault: the attempt counter starts below its CHECK.
UncheckedRow(status, mark, waiting) ==
    [NoRow EXCEPT !.status = status, !.mark = mark, !.waiting = waiting, !.attempt = -1]

QueuedRow(status, mark, waiting) ==
    [NoRow EXCEPT !.status = status, !.mark = mark, !.waiting = waiting]

Queued == {r \in Requests : request[r].status \in {"PENDING", "WAITING_FOR_PROJECTION"}}
Running == {r \in Requests : run[r].status = "RUNNING"}
Unused == {r \in Requests : request[r].status = "NONE"}
Fresh == CHOOSE r \in Unused : TRUE

\* Fault: the queued request keeps the watermark it was made with.
NotRaised(old, mark) == old

\* greatest(requested_change_watermark, EXCLUDED.requested_change_watermark)
RaisedMark(old, mark) == Greatest(old, mark)

\* INSERT ... ON CONFLICT DO UPDATE: a new row on top of rows q, or the queued one merged.
Upsert(q, new, merged) ==
    IF Queued = {} THEN [q EXCEPT ![Fresh] = new]
    ELSE [r \in Requests |-> IF r \in Queued THEN merged[r] ELSE q[r]]

HasRoom == Queued # {} \/ Unused # {}

\* The successor _fail and _recover_expired schedule: a queued one keeps its own status
\* and delay.
Retry(q, r, waiting) ==
    IF request[r].attempt >= MaxAttempts THEN q
    ELSE Upsert(q, QueuedRow("PENDING", request[r].mark, waiting),
                [s \in Queued |-> [request[s] EXCEPT !.mark = RaisedMark(@, request[r].mark)]])

-----------------------------------------------------------------------------
(* The projection, and the two places that request an analysis.            *)

\* stackgraph_request_graph_analysis at the watermark the projection has just reached.
RequestAt(mark) ==
    request' = Upsert(request, QueuedRow("PENDING", mark, FALSE),
        [r \in Queued |-> [request[r] EXCEPT !.mark = RaisedMark(@, mark), !.waiting = FALSE,
            !.status = IF RaisedMark(request[r].mark, mark) <= mark THEN "PENDING"
                       ELSE "WAITING_FOR_PROJECTION"]])

Change ==
    /\ desired < MaxChanges /\ serving
    /\ desired' = desired + 1
    /\ UNCHANGED <<projected, serving, graph, rows, worker, asked, bounds>>

\* A batch reaches Neo4j before the watermark says so.
ProjectionApplies ==
    /\ serving /\ graph = projected
    /\ graph' \in (projected + 1) .. desired
    /\ UNCHANGED <<desired, projected, serving, rows, worker, asked, bounds>>

\* _mark_processed: when it has caught up, the projection requests an analysis.
ProjectionAdvances ==
    /\ serving /\ projected < graph
    /\ projected' = graph
    /\ IF graph < desired THEN UNCHANGED <<request, asked>>
       ELSE /\ HasRoom
            /\ RequestAt(graph)
            /\ asked' = Greatest(asked, graph)
    /\ UNCHANGED <<desired, serving, graph, run, active, worker, bounds>>

\* A dead letter, and an operator's registration after it.
ProjectionStops ==
    /\ serving /\ mishaps < MaxMishaps
    /\ serving' = FALSE
    /\ mishaps' = mishaps + 1
    /\ UNCHANGED <<desired, projected, graph, rows, worker, asked, asks, failures>>

ProjectionResumes ==
    /\ ~serving
    /\ serving' = TRUE
    /\ UNCHANGED <<desired, projected, graph, rows, worker, asked, bounds>>

\* request_graph_analysis: an administrator asks for everything published so far.
Ask ==
    /\ asks < MaxAsks /\ HasRoom
    /\ LET status == IF projected >= desired THEN "PENDING" ELSE "WAITING_FOR_PROJECTION"
       IN  request' = Upsert(request, QueuedRow(status, desired, FALSE),
               [r \in Queued |-> [request[r] EXCEPT !.mark = RaisedMark(@, desired),
                                                    !.status = status, !.waiting = FALSE]])
    /\ asked' = Greatest(asked, desired)
    /\ asks' = asks + 1
    /\ UNCHANGED <<deployment, run, active, worker, failures, mishaps>>

-----------------------------------------------------------------------------
(* The worker: GraphIntelligenceWorker.run_once.                           *)

Idle == [pc |-> "idle", request |-> NoRequest, read |-> 0]

Failed(row) == [row EXCEPT !.status = "FAILED", !.owner = Nobody, !.leased = FALSE]
RunFailed(row) == [row EXCEPT !.status = "FAILED", !.leased = FALSE]

\* Fault: the recovery looks for requests that have not been started.
NeverStarted(r) ==
    run[r].status = "RUNNING" /\ ~run[r].leased /\ request[r].status = "PENDING"

Expired(r) == /\ run[r].status = "RUNNING" /\ ~run[r].leased
              /\ request[r].status = "RUNNING" /\ ~request[r].leased

\* _recover_expired: an idle worker ends a run whose lease has run out, and schedules
\* its successor.
Recover(w) ==
    /\ worker[w].pc = "idle" /\ HasRoom
    /\ \E r \in Requests :
          /\ Expired(r)
          /\ run' = [run EXCEPT ![r] = RunFailed(@)]
          /\ request' = Retry([request EXCEPT ![r] = Failed(@)], r, FALSE)
    /\ UNCHANGED <<deployment, active, worker, asked, bounds>>

Claimable(r) == r \in Queued /\ ~request[r].waiting /\ Running = {}

\* Fault: only the deployment's state is looked at.
ReadyEarly(r) == serving

Ready(r) == serving /\ projected >= request[r].mark

\* _claim, when the projection has not reached the request yet.
Defer(w) ==
    /\ worker[w].pc = "idle"
    /\ \E r \in Requests :
          /\ Claimable(r) /\ ~Ready(r)
          /\ request' = [request EXCEPT ![r].status = "WAITING_FOR_PROJECTION",
                                        ![r].waiting = TRUE]
    /\ UNCHANGED <<deployment, run, active, worker, asked, bounds>>

LeasedTo(w, row) == [row EXCEPT !.status = "RUNNING", !.owner = w, !.leased = TRUE,
                                !.attempt = @ + 1]
StartedBy(w) == [NoRun EXCEPT !.status = "RUNNING", !.owner = w, !.leased = TRUE, !.at = projected]

\* _claim: the request is leased and its run inserted at the watermark of this moment.
Claim(w) ==
    /\ worker[w].pc = "idle"
    /\ \E r \in Requests :
          /\ Claimable(r) /\ Ready(r)
          /\ request' = [request EXCEPT ![r] = LeasedTo(w, @)]
          /\ run' = [run EXCEPT ![r] = StartedBy(w)]
          /\ worker' = [worker EXCEPT ![w] = [Idle EXCEPT !.pc = "claimed", !.request = r]]
    /\ UNCHANGED <<deployment, active, asked, bounds>>

\* analyze: GDS projects the Neo4j graph as it is by then.
Analyze(w) ==
    /\ worker[w].pc = "claimed"
    /\ worker' = [worker EXCEPT ![w].pc = "analysed", ![w].read = graph]
    /\ UNCHANGED <<deployment, rows, asked, bounds>>

HoldsRequest(w, r) == request[r].status = "RUNNING" /\ request[r].owner = w

\* Fault: results are persisted without asking whose run it is by now.
HoldsAnyway(w, r) == run[r].status # "NONE"

HoldsRun(w, r) == run[r].status = "RUNNING" /\ run[r].owner = w

\* _heartbeat, in the course of the analysis and once more before persisting.  It renews
\* leases that have run out, too, and does not notice when they are lost.
Heartbeat(w) ==
    LET r == worker[w].request
    IN  /\ worker[w].pc \in {"claimed", "analysed"}
        /\ request' = IF HoldsRequest(w, r) THEN [request EXCEPT ![r].leased = TRUE] ELSE request
        /\ run' = IF HoldsRun(w, r) THEN [run EXCEPT ![r].leased = TRUE] ELSE run
        /\ worker' = IF worker[w].pc = "analysed" THEN [worker EXCEPT ![w].pc = "persisting"]
                     ELSE worker
        /\ UNCHANGED <<deployment, active, asked, bounds>>

\* Fault: the request is completed only while its lease is live.
EndedIfLeased(w, r, status) ==
    IF HoldsRequest(w, r) /\ request[r].leased
    THEN [request EXCEPT ![r] = [Failed(@) EXCEPT !.status = status]] ELSE request

\* The request's row at the end of the run, if it is still w's.
Ended(w, r, status) ==
    IF HoldsRequest(w, r)
    THEN [request EXCEPT ![r] = [Failed(@) EXCEPT !.status = status]] ELSE request

\* _persist: results, run, active pointer and request in one transaction; a worker that
\* has lost its run gets an exception.
Persist(w) ==
    LET r == worker[w].request
    IN  /\ worker[w].pc = "persisting"
        /\ IF HoldsRun(w, r)
           THEN /\ run' = [run EXCEPT ![r] = [@ EXCEPT !.status = "SUCCEEDED", !.leased = FALSE,
                                                 !.of = worker[w].read]]
                /\ active' = r
                /\ request' = Ended(w, r, "SUCCEEDED")
                /\ worker' = [worker EXCEPT ![w] = Idle]
           ELSE /\ worker' = [worker EXCEPT ![w].pc = "failing"]
                /\ UNCHANGED rows
        /\ UNCHANGED <<deployment, asked, bounds>>

\* An exception anywhere between the claim and the end of the run.
Break(w) ==
    /\ worker[w].pc \in {"claimed", "analysed", "persisting"}
    /\ failures < MaxFailures
    /\ failures' = failures + 1
    /\ worker' = [worker EXCEPT ![w].pc = "failing"]
    /\ UNCHANGED <<deployment, rows, asked, asks, mishaps>>

\* _fail: run and request only if they are still w's, the successor in any case.
Fail(w) ==
    LET r == worker[w].request
    IN  /\ worker[w].pc = "failing" /\ HasRoom
        /\ run' = IF HoldsRun(w, r) THEN [run EXCEPT ![r] = RunFailed(@)] ELSE run
        /\ request' = Retry(Ended(w, r, "FAILED"), r, TRUE)
        /\ worker' = [worker EXCEPT ![w] = Idle]
        /\ UNCHANGED <<deployment, active, asked, bounds>>

\* The process dies and is started again under the same name; its leases stay behind.
Crash(w) ==
    /\ worker[w].pc # "idle"
    /\ mishaps < MaxMishaps
    /\ worker' = [worker EXCEPT ![w] = Idle]
    /\ mishaps' = mishaps + 1
    /\ UNCHANGED <<deployment, rows, asked, asks, failures>>

-----------------------------------------------------------------------------
(* Time.                                                                   *)

\* Thirty minutes without a heartbeat.  A holder still at it by then has stalled.
LeaseExpires(r) ==
    /\ run[r].leased \/ request[r].leased
    /\ IF \E w \in Workers : worker[w].request = r
       THEN mishaps < MaxMishaps /\ mishaps' = mishaps + 1
       ELSE UNCHANGED mishaps
    /\ run' = [run EXCEPT ![r].leased = FALSE]
    /\ request' = [request EXCEPT ![r].leased = FALSE]
    /\ UNCHANGED <<deployment, active, worker, asked, asks, failures>>

DelayElapses(r) ==
    /\ request[r].waiting
    /\ request' = [request EXCEPT ![r].waiting = FALSE]
    /\ UNCHANGED <<deployment, run, active, worker, asked, bounds>>

-----------------------------------------------------------------------------
Init ==
    /\ desired = 0 /\ projected = 0 /\ graph = 0 /\ serving = TRUE
    /\ request = [r \in Requests |-> NoRow]
    /\ run = [r \in Requests |-> NoRun]
    /\ active = NoRequest
    /\ worker = [w \in Workers |-> Idle]
    /\ asked = 0
    /\ asks = 0 /\ failures = 0 /\ mishaps = 0

Next ==
    \/ Change \/ ProjectionApplies \/ ProjectionAdvances
    \/ ProjectionStops \/ ProjectionResumes \/ Ask
    \/ \E w \in Workers : \/ Recover(w) \/ Defer(w) \/ Claim(w) \/ Analyze(w)
                          \/ Heartbeat(w) \/ Persist(w) \/ Break(w) \/ Fail(w) \/ Crash(w)
    \/ \E r \in Requests : LeaseExpires(r) \/ DelayElapses(r)

Spec == Init /\ [][Next]_vars

\* The projection and at least one worker keep running, clocks run; nothing obliges
\* anybody to publish, to ask, or to register a stopped deployment again.
Work(w) == Analyze(w) \/ (worker[w].pc = "analysed" /\ Heartbeat(w)) \/ Persist(w) \/ Fail(w)
FairSpec ==
    /\ Spec
    /\ WF_vars(ProjectionApplies) /\ WF_vars(ProjectionAdvances)
    /\ WF_vars(\E w \in Workers : Recover(w))
    /\ WF_vars(\E w \in Workers : Claim(w) \/ Defer(w))
    /\ \A w \in Workers : WF_vars(Work(w))
    /\ \A r \in Requests : WF_vars(LeaseExpires(r)) /\ WF_vars(DelayElapses(r))

-----------------------------------------------------------------------------
(* Properties.                                                             *)

Row == [status : {"NONE", "PENDING", "WAITING_FOR_PROJECTION", "RUNNING", "SUCCEEDED", "FAILED"},
        mark : Nat, owner : Workers \cup {Nobody}, leased : BOOLEAN, waiting : BOOLEAN,
        attempt : Nat]
Run == [status : {"NONE", "RUNNING", "SUCCEEDED", "FAILED"}, owner : Workers \cup {Nobody},
        leased : BOOLEAN, at : Nat, of : Nat]
Process == [pc : {"idle", "claimed", "analysed", "persisting", "failing"},
            request : Requests \cup {NoRequest}, read : Nat]

\* The columns stay within their types and CHECK constraints.
TypeOK ==
    /\ desired \in Nat /\ projected \in Nat /\ graph \in Nat /\ serving \in BOOLEAN
    /\ request \in [Requests -> Row]
    /\ run \in [Requests -> Run]
    /\ active \in Requests \cup {NoRequest}
    /\ worker \in [Workers -> Process]
    /\ asked \in Nat
    /\ asks \in Nat /\ failures \in Nat /\ mishaps \in Nat

\* A request and its run are two rows in two tables, updated by statements with guards of
\* their own: whoever ends, recovers or heartbeats them, the two agree on their status,
\* owner and lease, and at most one run of the policy is in progress.
RunsMatchRequests ==
    /\ \A r \in Requests :
          /\ run[r].status = IF r \in Queued THEN "NONE" ELSE request[r].status
          /\ run[r].status = "RUNNING" => /\ run[r].owner = request[r].owner
                                          /\ run[r].leased = request[r].leased
    /\ \A r, s \in Running : r = s

Succeeded == {r \in Requests : run[r].status = "SUCCEEDED"}

\* Readers see the newest analysis there is: the active run is a successful one, no other
\* is at a later watermark, and there is one as soon as any has succeeded.  A worker that
\* lost its run to a recovery cannot put its results in front of its successor's.
ActiveIsNewest ==
    /\ active \in IF Succeeded = {} THEN {NoRequest} ELSE Succeeded
    /\ \A r \in Succeeded : run[r].at <= run[active].at

\* No change anybody asked to have analysed is forgotten by coalescing, failure, recovery
\* or retry: a successful run covers it, or a request that does is queued or in progress.
NoRequestForgotten ==
    \/ asked = 0
    \/ \E r \in Requests :
          \/ r \in Queued \cup Running /\ request[r].mark >= asked
          \/ r \in Succeeded /\ run[r].at >= asked

\* A successful run covers the watermark of its request, and the graph it read held
\* everything up to the watermark it is recorded at.
RunCoversRequest ==
    \A r \in Succeeded : request[r].mark <= run[r].at /\ run[r].at <= run[r].of

\* What makes the four invariants above inductive: a request runs once, at its first
\* attempt; a run in progress is at the newest watermark there is, and covers its request;
\* what its worker has read holds that watermark.
WorkInProgress ==
    /\ projected <= graph
    /\ \A r \in Requests :
          /\ r \in Queued => request[r].attempt = 0
          /\ r \in Running => request[r].attempt <= 1 /\ request[r].mark <= run[r].at
          /\ r \in Running \cup Succeeded => run[r].at <= projected
    /\ \A r \in Running, s \in Succeeded : run[s].at <= run[r].at
    /\ \A w \in Workers :
          LET r == worker[w].request
          IN  /\ worker[w].pc # "idle" => r \in Requests
              /\ worker[w].pc \in {"analysed", "persisting"} /\ HoldsRun(w, r)
                    => run[r].at <= worker[w].read

IInv == /\ TypeOK /\ RunsMatchRequests /\ ActiveIsNewest
        /\ NoRequestForgotten /\ RunCoversRequest /\ WorkInProgress

\* Every change somebody asked to have analysed is, in the end, in the active run, unless
\* the projection stops for good: whatever is coalesced, deferred, failed or crashed.
EveryRequestAnalysed ==
    \A m \in 1 .. MaxChanges :
        [](asked >= m => \/ <>(active # NoRequest /\ run[active].at >= m)
                         \/ <>[]~serving)
=============================================================================
