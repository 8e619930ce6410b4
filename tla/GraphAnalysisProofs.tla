------------------------ MODULE GraphAnalysisProofs ------------------------
(***************************************************************************)
(* Proofs about GraphAnalysis, for every number of workers, requests,      *)
(* changes, failures and mishaps, and every attempt limit above one.       *)
(***************************************************************************)
EXTENDS GraphAnalysis, TLAPS

InQueue == {"PENDING", "WAITING_FOR_PROJECTION"}

-----------------------------------------------------------------------------
(* Inserting a request.                                                    *)

LEMMA GreatestProperties ==
    ASSUME NEW a \in Nat, NEW b \in Nat
    PROVE  /\ Greatest(a, b) \in {a, b}
           /\ Greatest(a, b) >= a /\ Greatest(a, b) >= b
BY DEF Greatest

LEMMA FreshIsUnused ==
    ASSUME Unused # {}
    PROVE  Fresh \in Unused
BY DEF Fresh

LEMMA QueuedRowType ==
    ASSUME NEW status \in InQueue, NEW m \in Nat, NEW waiting \in BOOLEAN
    PROVE  /\ QueuedRow(status, m, waiting) \in Row
           /\ QueuedRow(status, m, waiting).status = status
           /\ QueuedRow(status, m, waiting).mark = m
           /\ QueuedRow(status, m, waiting).attempt = 0
BY DEF QueuedRow, NoRow, Row, InQueue

\* q2 is q with a request for watermark m inserted, or merged into the queued one.
Adds(q, q2, m) ==
    /\ q2 \in [Requests -> Row]
    /\ \A r \in Requests \ (Queued \cup Unused) : q2[r] = q[r]
    /\ \A r \in Queued \cup Unused :
          \/ q2[r] = request[r]
          \/ /\ q2[r].status \in InQueue /\ q2[r].attempt = 0
             /\ r \in Queued => q2[r].mark >= request[r].mark
    /\ \E r \in Queued \cup Unused : q2[r].status \in InQueue /\ q2[r].mark >= m

\* What INSERT ... ON CONFLICT does to the table, whichever of its branches is taken.
LEMMA UpsertAdds ==
    ASSUME IInv, HasRoom,
           NEW q \in [Requests -> Row], \A r \in Queued \cup Unused : q[r] = request[r],
           NEW status \in InQueue, NEW m \in Nat, NEW waiting \in BOOLEAN,
           NEW merged \in [Queued -> Row],
           \A r \in Queued : /\ merged[r].status \in InQueue
                             /\ merged[r].attempt = request[r].attempt
                             /\ merged[r].mark >= m /\ merged[r].mark >= request[r].mark
    PROVE  Adds(q, Upsert(q, QueuedRow(status, m, waiting), merged), m)
<1> DEFINE new == QueuedRow(status, m, waiting)
<1> DEFINE q2 == Upsert(q, new, merged)
<1>1. /\ new \in Row /\ new.status \in InQueue /\ new.mark = m /\ new.attempt = 0
      /\ new.mark >= m
  BY QueuedRowType
<1>2. \A r \in Queued : request[r].attempt = 0
  BY DEF IInv, WorkInProgress, Queued
<1>3. CASE Queued = {}
  <2>1. Fresh \in Unused /\ Fresh \in Requests
    BY <1>3, FreshIsUnused DEF HasRoom, Unused
  <2>2. q2 = [q EXCEPT ![Fresh] = new]
    BY <1>3 DEF Upsert
  <2> HIDE DEF q2, new
  <2>3. q2 \in [Requests -> Row] /\ q2[Fresh] = new
        /\ \A r \in Requests : r # Fresh => q2[r] = q[r]
    BY <2>1, <2>2, <1>1
  <2>4. \A r \in Queued \cup Unused :
          q2[r] = request[r] \/ (q2[r].status \in InQueue /\ q2[r].attempt = 0 /\ r \notin Queued)
    BY <1>1, <1>3, <2>3 DEF Unused
  <2>5. Adds(q, q2, m)
    BY <1>1, <2>1, <2>3, <2>4 DEF Adds
  <2> QED BY <2>5 DEF q2, new
<1>4. CASE Queued # {}
  <2>1. q2 = [r \in Requests |-> IF r \in Queued THEN merged[r] ELSE q[r]]
    BY <1>4 DEF Upsert
  <2> HIDE DEF q2, new
  <2>2. q2 \in [Requests -> Row]
    BY <2>1
  <2>3. \A r \in Requests : q2[r] = IF r \in Queued THEN merged[r] ELSE q[r]
    BY <2>1
  <2>4. Queued \subseteq Requests /\ Unused \subseteq Requests
    BY DEF Queued, Unused
  <2>5. Adds(q, q2, m)
    BY <1>2, <1>4, <2>2, <2>3, <2>4 DEF Adds
  <2> QED BY <2>5 DEF q2, new
<1> QED BY <1>3, <1>4

\* The successor of a failed request asks for the same watermark, as long as attempts are left.
LEMMA RetryAdds ==
    ASSUME IInv, HasRoom, NEW r \in Requests, NEW waiting \in BOOLEAN,
           NEW q \in [Requests -> Row], \A s \in Queued \cup Unused : q[s] = request[s]
    PROVE  \/ Adds(q, Retry(q, r, waiting), request[r].mark)
           \/ request[r].attempt >= MaxAttempts /\ Retry(q, r, waiting) = q
<1>1. CASE request[r].attempt >= MaxAttempts
  BY <1>1 DEF Retry
<1>2. CASE ~ (request[r].attempt >= MaxAttempts)
  <2> DEFINE m == request[r].mark
  <2> DEFINE merged == [s \in Queued |-> [request[s] EXCEPT !.mark = RaisedMark(@, m)]]
  <2>1. \A s \in Requests : request[s] \in Row
    BY DEF IInv, TypeOK
  <2>2. m \in Nat
    BY <2>1 DEF Row
  <2> HIDE DEF m
  <2>3. \A s \in Queued : /\ merged[s] \in Row /\ merged[s].status \in InQueue
                          /\ merged[s].attempt = request[s].attempt
                          /\ merged[s].mark >= m /\ merged[s].mark >= request[s].mark
    <3> TAKE s \in Queued
    <3>1. request[s] \in Row /\ request[s].mark \in Nat /\ request[s].status \in InQueue
      BY <2>1 DEF Queued, InQueue, Row
    <3>2. RaisedMark(request[s].mark, m) \in Nat
          /\ RaisedMark(request[s].mark, m) >= m /\ RaisedMark(request[s].mark, m) >= request[s].mark
      BY <3>1, <2>2 DEF RaisedMark, Greatest
    <3> HIDE DEF merged
    <3>3. merged[s] = [request[s] EXCEPT !.mark = RaisedMark(request[s].mark, m)]
      BY DEF merged
    <3> QED BY <3>1, <3>2, <3>3 DEF Row
  <2>4. merged \in [Queued -> Row]
    BY <2>3
  <2>5. Retry(q, r, waiting) = Upsert(q, QueuedRow("PENDING", m, waiting), merged)
    BY <1>2 DEF Retry, m
  <2> HIDE DEF merged
  <2>6. Adds(q, Upsert(q, QueuedRow("PENDING", m, waiting), merged), m)
    BY <2>2, <2>3, <2>4, UpsertAdds DEF InQueue
  <2> QED BY <2>5, <2>6 DEF m
<1> QED BY <1>1, <1>2

-----------------------------------------------------------------------------
(* Steps that neither start a run nor let one succeed.                     *)

\* A worker gives up, or goes on with its request; what it reads is no older than the
\* projection's watermark.
GoesOn(w) ==
    \/ worker'[w].pc = "idle"
    \/ /\ worker[w].pc # "idle"
       /\ worker'[w].request = worker[w].request
       /\ worker'[w].pc \in {"analysed", "persisting"} =>
             \/ worker[w].pc \in {"analysed", "persisting"} /\ worker'[w].read = worker[w].read
             \/ worker'[w].read >= projected

SameRequest(r) == /\ request'[r].status = request[r].status
                  /\ request'[r].mark = request[r].mark
                  /\ request'[r].owner = request[r].owner
                  /\ request'[r].attempt = request[r].attempt
SameRun(r) == /\ run'[r].status = run[r].status /\ run'[r].owner = run[r].owner
              /\ run'[r].at = run[r].at /\ run'[r].of = run[r].of

\* The runs in F fail, leases and delays may change, and a request may be queued.
Quiet(F) ==
    /\ active' = active
    /\ projected' >= projected /\ graph' >= projected'
    /\ \A w \in Workers : GoesOn(w)
    /\ \A r \in F : run'[r].status = "FAILED" /\ request'[r].status = "FAILED"
    /\ \A r \in Requests \ F : SameRun(r)
    /\ \A r \in Running \ F : run'[r].leased = request'[r].leased
    /\ \A r \in Requests \ (F \cup Queued \cup Unused) : SameRequest(r)
    /\ \A r \in Queued \cup Unused :
          \/ SameRequest(r)
          \/ /\ request'[r].status \in InQueue /\ request'[r].attempt = 0
             /\ r \in Queued => request'[r].mark >= request[r].mark

\* Where each request is in its life after such a step.
LEMMA QuietSets ==
    ASSUME IInv, NEW F \in SUBSET Running, Quiet(F)
    PROVE  /\ Running' = Running \ F /\ Succeeded' = Succeeded
           /\ Queued \subseteq Queued' /\ Queued' \subseteq Queued \cup Unused
           /\ \A r \in Running : r \notin Queued \cup Unused
           /\ \A r \in Succeeded : r \notin Queued \cup Unused \cup Running
<1>1. \A r \in Running : run[r].status = "RUNNING" /\ request[r].status = "RUNNING"
  BY DEF IInv, RunsMatchRequests, Running
<1>2. \A r \in Succeeded : run[r].status = "SUCCEEDED" /\ request[r].status = "SUCCEEDED"
  BY DEF IInv, RunsMatchRequests, Succeeded
<1>3. \A r \in F : run'[r].status = "FAILED" /\ request'[r].status = "FAILED"
  BY DEF Quiet
<1>4. \A r \in Requests \ F : run'[r].status = run[r].status
  BY DEF Quiet, SameRun
<1>5. Running' = Running \ F /\ Succeeded' = Succeeded
  BY <1>1, <1>2, <1>3, <1>4 DEF Running, Succeeded
<1>6. \A r \in Requests \ (F \cup Queued \cup Unused) : request'[r].status = request[r].status
  BY DEF Quiet, SameRequest
<1>7. \A r \in Queued \cup Unused : request'[r].status = request[r].status \/ request'[r].status \in InQueue
  BY DEF Quiet, SameRequest
<1>8. Queued \subseteq Queued' /\ Queued' \subseteq Queued \cup Unused
  BY <1>1, <1>3, <1>6, <1>7 DEF Queued, Unused, InQueue, Running
<1> QED BY <1>1, <1>2, <1>5, <1>8 DEF Queued, Unused

LEMMA QuietRunsMatch ==
    ASSUME IInv, NEW F \in SUBSET Running, Quiet(F)
    PROVE  RunsMatchRequests'
<1>1. \A r \in Requests : run'[r].status = IF r \in Queued' THEN "NONE" ELSE request'[r].status
  <2> TAKE r \in Requests
  <2>1. CASE r \in F
    BY <2>1, QuietSets DEF Quiet
  <2>2. CASE r \in Queued \cup Unused
    <3>1. r \notin F
      BY <2>2, QuietSets
    <3>2. run'[r].status = "NONE"
      BY <2>2, <3>1 DEF Quiet, SameRun, IInv, RunsMatchRequests, Unused
    <3>3. r \in Queued' \/ request'[r].status = "NONE"
      BY <2>2 DEF Quiet, SameRequest, InQueue, Queued, Unused
    <3> QED BY <3>2, <3>3
  <2>3. CASE r \notin F \cup Queued \cup Unused
    <3>1. r \notin Queued'
      BY <2>3, QuietSets
    <3> QED BY <2>3, <3>1 DEF Quiet, SameRun, SameRequest, IInv, RunsMatchRequests
  <2> QED BY <2>1, <2>2, <2>3
<1>2. \A r \in Requests : run'[r].status = "RUNNING" =>
        run'[r].owner = request'[r].owner /\ run'[r].leased = request'[r].leased
  <2> SUFFICES ASSUME NEW r \in Requests, run'[r].status = "RUNNING"
               PROVE  run'[r].owner = request'[r].owner /\ run'[r].leased = request'[r].leased
    OBVIOUS
  <2>1. r \in Running \ F /\ r \notin Queued \cup Unused
    BY QuietSets DEF Running
  <2>2. SameRun(r) /\ SameRequest(r) /\ run'[r].leased = request'[r].leased
    BY <2>1 DEF Quiet
  <2> QED BY <2>1, <2>2 DEF SameRun, SameRequest, IInv, RunsMatchRequests, Running
<1>3. \A r, s \in Running' : r = s
  BY QuietSets DEF IInv, RunsMatchRequests
<1> QED BY <1>1, <1>2, <1>3 DEF RunsMatchRequests

LEMMA QuietActive ==
    ASSUME IInv, NEW F \in SUBSET Running, Quiet(F)
    PROVE  ActiveIsNewest' /\ RunCoversRequest'
<1>1. Succeeded' = Succeeded /\ \A r \in Succeeded : r \in Requests /\ r \notin F \cup Queued \cup Unused
  BY QuietSets DEF Succeeded
<1>2. \A r \in Succeeded : SameRun(r) /\ SameRequest(r)
  BY <1>1 DEF Quiet
<1>3. active' = active
  BY DEF Quiet
<1>4. ActiveIsNewest'
  BY <1>1, <1>2, <1>3 DEF ActiveIsNewest, IInv, SameRun
<1>5. RunCoversRequest'
  BY <1>1, <1>2 DEF RunCoversRequest, IInv, SameRun, SameRequest
<1> QED BY <1>4, <1>5

LEMMA QuietWork ==
    ASSUME IInv, TypeOK', NEW F \in SUBSET Running, Quiet(F)
    PROVE  WorkInProgress'
<1>1. \A r \in Requests : r \in Queued' => request'[r].attempt = 0
  <2> SUFFICES ASSUME NEW r \in Requests, r \in Queued' PROVE request'[r].attempt = 0
    OBVIOUS
  <2>1. r \in Queued \cup Unused
    BY QuietSets
  <2>2. CASE request'[r].status \in InQueue /\ request'[r].attempt = 0
    BY <2>2
  <2>3. CASE SameRequest(r)
    BY <2>3 DEF SameRequest, IInv, WorkInProgress, Queued
  <2> QED BY <2>1, <2>2, <2>3 DEF Quiet
<1>2. \A r \in Requests : r \in Running' =>
        request'[r].attempt <= 1 /\ request'[r].mark <= run'[r].at
  <2> SUFFICES ASSUME NEW r \in Requests, r \in Running'
               PROVE  request'[r].attempt <= 1 /\ request'[r].mark <= run'[r].at
    OBVIOUS
  <2>1. r \in Running \ F /\ r \notin Queued \cup Unused
    BY QuietSets
  <2>2. SameRun(r) /\ SameRequest(r)
    BY <2>1 DEF Quiet
  <2> QED BY <2>1, <2>2 DEF SameRun, SameRequest, IInv, WorkInProgress
<1>3. \A r \in Running' \cup Succeeded' : r \in Requests /\ SameRun(r) /\ r \in Running \cup Succeeded
  BY QuietSets DEF Quiet, Running, Succeeded
<1>4. \A r \in Requests : r \in Running' \cup Succeeded' => run'[r].at <= projected'
  <2> SUFFICES ASSUME NEW r \in Requests, r \in Running' \cup Succeeded'
               PROVE  run'[r].at <= projected'
    OBVIOUS
  <2>1. run'[r].at = run[r].at /\ run[r].at <= projected /\ projected' >= projected
    BY <1>3 DEF SameRun, IInv, WorkInProgress, Quiet
  <2>2. run[r].at \in Nat /\ projected \in Nat /\ projected' \in Nat
    BY DEF IInv, TypeOK, Run
  <2> QED BY <2>1, <2>2
<1>5. \A r \in Running', s \in Succeeded' : run'[s].at <= run'[r].at
  BY <1>3, QuietSets DEF SameRun, IInv, WorkInProgress
<1>6. projected' <= graph'
  BY DEF Quiet, TypeOK
<1>7. ASSUME NEW w \in Workers
      PROVE  /\ worker'[w].pc # "idle" => worker'[w].request \in Requests
             /\ /\ worker'[w].pc \in {"analysed", "persisting"}
                /\ run'[worker'[w].request].status = "RUNNING"
                /\ run'[worker'[w].request].owner = w
                => run'[worker'[w].request].at <= worker'[w].read
  <2>1. GoesOn(w)
    BY DEF Quiet
  <2>2. CASE worker'[w].pc = "idle"
    BY <2>2
  <2>3. CASE worker'[w].pc # "idle"
    <3>1. PICK r \in Requests : worker[w].request = r /\ worker'[w].request = r
      BY <2>1, <2>3 DEF GoesOn, IInv, WorkInProgress
    <3>2. SUFFICES ASSUME worker'[w].pc \in {"analysed", "persisting"},
                          run'[r].status = "RUNNING", run'[r].owner = w
                   PROVE  run'[r].at <= worker'[w].read
      BY <3>1
    <3>3. r \in Running
      BY <3>2, QuietSets DEF Running
    <3>4. r \in Running'
      BY <3>2 DEF Running
    <3>5. SameRun(r) /\ HoldsRun(w, r) /\ run[r].at <= projected
      BY <3>2, <3>3, <3>4, <1>3 DEF SameRun, HoldsRun, IInv, WorkInProgress, Running
    <3>6. run[r].at \in Nat /\ projected \in Nat /\ worker'[w].read \in Nat
      BY DEF IInv, TypeOK, Run, Process
    <3>7. CASE worker'[w].read >= projected
      BY <3>5, <3>6, <3>7 DEF SameRun
    <3>8. CASE worker[w].pc \in {"analysed", "persisting"} /\ worker'[w].read = worker[w].read
      BY <3>1, <3>5, <3>8 DEF SameRun, IInv, WorkInProgress
    <3>9. \/ worker'[w].read >= projected
          \/ worker[w].pc \in {"analysed", "persisting"} /\ worker'[w].read = worker[w].read
      BY <2>1, <2>3, <3>2 DEF GoesOn
    <3> QED BY <3>7, <3>8, <3>9
  <2> QED BY <2>2, <2>3
<1> QED BY <1>1, <1>2, <1>4, <1>5, <1>6, <1>7 DEF WorkInProgress, HoldsRun

\* A request that covers what was asked is still there, or has been succeeded by another.
LEMMA QuietRemembers ==
    ASSUME IInv, TypeOK', NEW F \in SUBSET Running, Quiet(F),
           \A f \in F : \E s \in Queued' : request'[s].mark >= request[f].mark,
           asked' = asked \/ \E s \in Queued' : request'[s].mark >= asked'
    PROVE  NoRequestForgotten'
<1>1. \A r \in Queued' : r \in Requests
  BY DEF Queued
<1>2. CASE \E s \in Queued' : request'[s].mark >= asked'
  BY <1>1, <1>2 DEF NoRequestForgotten
<1>3. CASE asked' = asked
  <2>1. CASE asked = 0
    BY <1>3, <2>1 DEF NoRequestForgotten
  <2>2. ASSUME NEW r \in Requests, r \in Queued, request[r].mark >= asked
        PROVE  NoRequestForgotten'
    <3>1. r \in Queued'
      BY <2>2, QuietSets
    <3>2. request'[r].mark = request[r].mark \/ request'[r].mark >= request[r].mark
      BY <2>2 DEF Quiet, SameRequest
    <3>3. request'[r].mark \in Nat /\ request[r].mark \in Nat /\ asked \in Nat
      BY DEF IInv, TypeOK, Row
    <3>4. request'[r].mark >= asked'
      BY <1>3, <2>2, <3>2, <3>3
    <3> QED BY <3>1, <3>4 DEF NoRequestForgotten
  <2>3. ASSUME NEW r \in Requests, r \in Running, request[r].mark >= asked
        PROVE  NoRequestForgotten'
    <3>1. CASE r \in F
      <4>1. PICK s \in Queued' : request'[s].mark >= request[r].mark
        BY <3>1
      <4>2. s \in Requests /\ request'[s].mark \in Nat /\ request[r].mark \in Nat /\ asked \in Nat
        BY <1>1 DEF IInv, TypeOK, Row
      <4>3. request'[s].mark >= asked'
        BY <1>3, <2>3, <4>1, <4>2
      <4> QED BY <4>2, <4>3 DEF NoRequestForgotten
    <3>2. CASE r \notin F
      <4>1. r \in Running' /\ r \notin Queued \cup Unused
        BY <2>3, <3>2, QuietSets
      <4>2. request'[r].mark = request[r].mark
        BY <3>2, <4>1 DEF Quiet, SameRequest
      <4> QED BY <1>3, <2>3, <4>1, <4>2 DEF NoRequestForgotten
    <3> QED BY <3>1, <3>2
  <2>4. ASSUME NEW r \in Requests, r \in Succeeded, run[r].at >= asked
        PROVE  NoRequestForgotten'
    <3>1. r \in Succeeded' /\ r \notin F
      BY <2>4, QuietSets
    <3>2. run'[r].at = run[r].at
      BY <3>1 DEF Quiet, SameRun
    <3> QED BY <1>3, <2>4, <3>1, <3>2 DEF NoRequestForgotten
  <2> QED BY <2>1, <2>2, <2>3, <2>4 DEF IInv, NoRequestForgotten
<1> QED BY <1>2, <1>3

LEMMA QuietStep ==
    ASSUME IInv, TypeOK', NEW F \in SUBSET Running, Quiet(F),
           \A f \in F : \E s \in Queued' : request'[s].mark >= request[f].mark,
           asked' = asked \/ \E s \in Queued' : request'[s].mark >= asked'
    PROVE  IInv'
BY QuietRunsMatch, QuietActive, QuietWork, QuietRemembers DEF IInv

\* A step that changes no row but for leases and delays, and moves no watermark back.
LEMMA IdleStep ==
    ASSUME IInv, TypeOK', active' = active, asked' = asked,
           projected' >= projected, graph' >= projected',
           \A w \in Workers : GoesOn(w),
           \A r \in Requests : SameRun(r),
           \A r \in Queued : \/ SameRequest(r)
                             \/ request'[r].status \in InQueue /\ request'[r].mark = request[r].mark
                                /\ request'[r].attempt = request[r].attempt,
           \A r \in Requests \ Queued : SameRequest(r),
           \A r \in Running : run'[r].leased = request'[r].leased
    PROVE  IInv'
<1>1. \A r \in Queued : /\ r \in Requests /\ request[r].attempt = 0
                        /\ request[r].mark \in Nat /\ request[r].mark >= request[r].mark
  BY DEF Queued, IInv, WorkInProgress, TypeOK, Row
<1>2. Unused \subseteq Requests /\ \A r \in Unused : r \notin Queued
  BY DEF Unused, Queued
<1>3. Quiet({})
  BY <1>1, <1>2 DEF Quiet
<1>4. {} \in SUBSET Running
  OBVIOUS
<1> QED BY <1>3, <1>4, QuietStep

LEMMA Unmoved ==
    ASSUME NEW w \in Workers, worker' = worker
    PROVE  GoesOn(w)
BY DEF GoesOn

LEMMA RowsUnchanged ==
    ASSUME IInv, request' = request, run' = run
    PROVE  /\ \A r \in Requests : SameRun(r) /\ SameRequest(r)
           /\ \A r \in Running : run'[r].leased = request'[r].leased
           /\ Queued \subseteq Requests
BY DEF SameRun, SameRequest, IInv, RunsMatchRequests, Running, Queued

\* A worker holds its run exactly as long as it holds its request.
LEMMA HoldsBoth ==
    ASSUME IInv, NEW w \in Workers, NEW r \in Requests
    PROVE  /\ HoldsRun(w, r) <=> HoldsRequest(w, r)
           /\ HoldsRun(w, r) => r \in Running /\ r \notin Queued \cup Unused
BY DEF HoldsRun, HoldsRequest, IInv, RunsMatchRequests, Running, Queued, Unused

-----------------------------------------------------------------------------
(* One lemma per action: the projection and the API.                       *)

LEMMA DeploymentTypes ==
    ASSUME TypeOK
    PROVE  /\ desired \in Nat /\ projected \in Nat /\ graph \in Nat
           /\ asked \in Nat /\ asks \in Nat /\ failures \in Nat /\ mishaps \in Nat
           /\ \A r \in Requests : request[r] \in Row /\ run[r] \in Run
           /\ \A w \in Workers : worker[w] \in Process
BY DEF TypeOK

LEMMA ChangeStep ==
    ASSUME IInv, Change PROVE IInv'
<1>1. TypeOK'
  BY DEF IInv, TypeOK, Change, rows, bounds
<1>2. projected' >= projected /\ graph' >= projected'
  BY DEF IInv, TypeOK, WorkInProgress, Change
<1> QED BY <1>1, <1>2, IdleStep, Unmoved, RowsUnchanged DEF Change, rows

LEMMA ProjectionAppliesStep ==
    ASSUME IInv, ProjectionApplies PROVE IInv'
<1>1. PICK g \in (projected + 1) .. desired : graph' = g
  BY DEF ProjectionApplies
<1>2. projected \in Nat /\ desired \in Nat
  BY DEF IInv, TypeOK
<1>3. g \in Nat /\ g >= projected
  BY <1>2
<1>4. TypeOK'
  BY <1>1, <1>3 DEF IInv, TypeOK, ProjectionApplies, rows, bounds
<1>5. projected' >= projected /\ graph' >= projected'
  BY <1>1, <1>2, <1>3 DEF ProjectionApplies
<1> QED BY <1>4, <1>5, IdleStep, Unmoved, RowsUnchanged DEF ProjectionApplies, rows

LEMMA ProjectionStopsStep ==
    ASSUME IInv, ProjectionStops \/ ProjectionResumes PROVE IInv'
<1>1. /\ UNCHANGED <<desired, projected, graph, request, run, active, worker>>
      /\ UNCHANGED <<asked, asks, failures>>
      /\ serving' \in BOOLEAN /\ mishaps' \in Nat
  <2>1. CASE ProjectionStops
    <3>1. mishaps' \in Nat
      BY <2>1 DEF IInv, TypeOK, ProjectionStops
    <3> QED BY <2>1, <3>1, Zenon DEF ProjectionStops, rows
  <2>2. CASE ProjectionResumes
    BY <2>2 DEF IInv, TypeOK, ProjectionResumes, rows, bounds
  <2> QED BY <2>1, <2>2
<1>2. TypeOK'
  BY <1>1 DEF IInv, TypeOK
<1>3. projected' >= projected /\ graph' >= projected'
  BY <1>1 DEF IInv, TypeOK, WorkInProgress
<1> QED BY <1>1, <1>2, <1>3, IdleStep, Unmoved, RowsUnchanged

\* Inserting a request beside runs that stay as they are.
LEMMA InsertStep ==
    ASSUME IInv, TypeOK', NEW m \in Nat, Adds(request, request', m),
           run' = run, active' = active, worker' = worker,
           projected' >= projected, graph' >= projected',
           asked' = asked \/ asked' = Greatest(asked, m)
    PROVE  IInv'
<1>1. \A r \in Requests : SameRun(r)
  BY DEF SameRun
<1>2. \A r \in Queued \cup Unused :
        \/ SameRequest(r)
        \/ /\ request'[r].status \in InQueue /\ request'[r].attempt = 0
           /\ r \in Queued => request'[r].mark >= request[r].mark
  BY DEF Adds, SameRequest
<1>3. \A r \in Requests \ (Queued \cup Unused) : SameRequest(r) /\ request'[r] = request[r]
  BY DEF Adds, SameRequest
<1>4. \A r \in Running : r \in Requests \ (Queued \cup Unused) /\ run'[r].leased = request'[r].leased
  <2> TAKE r \in Running
  <2>1. r \in Requests \ (Queued \cup Unused) /\ run[r].leased = request[r].leased
    BY DEF IInv, RunsMatchRequests, Running, Queued, Unused
  <2> QED BY <2>1, <1>3
<1>5. Quiet({})
  BY <1>1, <1>2, <1>3, <1>4, Unmoved DEF Quiet
<1>6. PICK r \in Queued \cup Unused : request'[r].status \in InQueue /\ request'[r].mark >= m
  BY DEF Adds
<1>7. r \in Queued'
  BY <1>6 DEF Queued, Unused, InQueue
<1>8. asked' = asked \/ \E s \in Queued' : request'[s].mark >= asked'
  BY <1>6, <1>7, GreatestProperties DEF IInv, TypeOK
<1>9. {} \in SUBSET Running
  OBVIOUS
<1> QED BY <1>5, <1>8, <1>9, QuietStep

LEMMA AskStep ==
    ASSUME IInv, Ask PROVE IInv'
<1> DEFINE status == IF projected >= desired THEN "PENDING" ELSE "WAITING_FOR_PROJECTION"
<1> DEFINE merged == [r \in Queued |-> [request[r] EXCEPT !.mark = RaisedMark(@, desired),
                                            !.status = status, !.waiting = FALSE]]
<1>0. /\ HasRoom /\ asked' = Greatest(asked, desired) /\ asks' = asks + 1
      /\ UNCHANGED <<desired, projected, serving, graph, run, active, worker, failures, mishaps>>
  BY Zenon DEF Ask, deployment
<1>1. desired \in Nat /\ status \in InQueue
  BY DEF IInv, TypeOK, InQueue
<1>2. request' = Upsert(request, QueuedRow(status, desired, FALSE), merged)
  BY DEF Ask
<1> HIDE DEF status
<1>3. \A r \in Queued : /\ merged[r] \in Row /\ merged[r].status \in InQueue
                        /\ merged[r].attempt = request[r].attempt
                        /\ merged[r].mark >= desired /\ merged[r].mark >= request[r].mark
  <2> TAKE r \in Queued
  <2>1. request[r] \in Row /\ request[r].mark \in Nat
    BY DEF IInv, TypeOK, Row, Queued
  <2>2. RaisedMark(request[r].mark, desired) \in Nat
        /\ RaisedMark(request[r].mark, desired) >= desired
        /\ RaisedMark(request[r].mark, desired) >= request[r].mark
    BY <1>1, <2>1 DEF RaisedMark, Greatest
  <2> HIDE DEF merged
  <2>3. merged[r] = [request[r] EXCEPT !.mark = RaisedMark(request[r].mark, desired),
                                       !.status = status, !.waiting = FALSE]
    BY DEF merged
  <2> QED BY <1>1, <2>1, <2>2, <2>3 DEF Row, InQueue
<1>4. merged \in [Queued -> Row]
  BY <1>3
<1> HIDE DEF merged
<1>5. request \in [Requests -> Row] /\ HasRoom
  BY <1>0 DEF IInv, TypeOK
<1>6. Adds(request, request', desired)
  BY <1>1, <1>2, <1>3, <1>4, <1>5, UpsertAdds
<1>7. TypeOK'
  <2>1. request' \in [Requests -> Row]
    BY <1>6 DEF Adds
  <2>2. asked' \in Nat /\ asks' \in Nat
    BY <1>0, <1>1, GreatestProperties DEF IInv, TypeOK
  <2> QED BY <1>0, <2>1, <2>2 DEF IInv, TypeOK
<1>8. projected' >= projected /\ graph' >= projected'
  BY <1>0 DEF IInv, TypeOK, WorkInProgress
<1> QED BY <1>0, <1>1, <1>6, <1>7, <1>8, InsertStep

LEMMA ProjectionAdvancesStep ==
    ASSUME IInv, ProjectionAdvances PROVE IInv'
<1>1. graph \in Nat /\ projected \in Nat /\ projected' = graph /\ graph' = graph
      /\ projected' >= projected /\ graph' >= projected'
  BY DEF IInv, TypeOK, WorkInProgress, ProjectionAdvances
<1>2. CASE graph < desired
  <2>1. TypeOK'
    BY <1>1, <1>2 DEF IInv, TypeOK, ProjectionAdvances, bounds
  <2> QED BY <1>1, <1>2, <2>1, IdleStep, Unmoved, RowsUnchanged DEF ProjectionAdvances
<1>3. CASE ~ (graph < desired)
  <2> DEFINE merged == [r \in Queued |-> [request[r] EXCEPT
            !.mark = RaisedMark(@, graph), !.waiting = FALSE,
            !.status = IF RaisedMark(request[r].mark, graph) <= graph THEN "PENDING"
                       ELSE "WAITING_FOR_PROJECTION"]]
  <2>1. /\ HasRoom /\ asked' = Greatest(asked, graph)
        /\ request' = Upsert(request, QueuedRow("PENDING", graph, FALSE), merged)
    BY <1>3 DEF ProjectionAdvances, RequestAt
  <2>2. \A r \in Queued : /\ merged[r] \in Row /\ merged[r].status \in InQueue
                          /\ merged[r].attempt = request[r].attempt
                          /\ merged[r].mark >= graph /\ merged[r].mark >= request[r].mark
    <3> TAKE r \in Queued
    <3>1. request[r] \in Row /\ request[r].mark \in Nat
      BY DEF IInv, TypeOK, Row, Queued
    <3>2. RaisedMark(request[r].mark, graph) \in Nat
          /\ RaisedMark(request[r].mark, graph) >= graph
          /\ RaisedMark(request[r].mark, graph) >= request[r].mark
      BY <1>1, <3>1 DEF RaisedMark, Greatest
    <3> DEFINE status == IF RaisedMark(request[r].mark, graph) <= graph THEN "PENDING"
                         ELSE "WAITING_FOR_PROJECTION"
    <3>3. status \in InQueue
      BY DEF InQueue
    <3>4. merged[r] = [request[r] EXCEPT !.mark = RaisedMark(request[r].mark, graph),
                                         !.waiting = FALSE, !.status = status]
      OBVIOUS
    <3> HIDE DEF merged, status
    <3> QED BY <3>1, <3>2, <3>3, <3>4 DEF Row, InQueue
  <2>3. merged \in [Queued -> Row]
    BY <2>2
  <2> HIDE DEF merged
  <2>4. request \in [Requests -> Row]
    BY DEF IInv, TypeOK
  <2>5. Adds(request, request', graph)
    BY <1>1, <2>1, <2>2, <2>3, <2>4, UpsertAdds DEF InQueue
  <2>6. TypeOK'
    <3>1. request' \in [Requests -> Row] /\ asked' \in Nat
      BY <1>1, <2>1, <2>5, GreatestProperties DEF Adds, IInv, TypeOK
    <3> QED BY <1>1, <3>1 DEF IInv, TypeOK, ProjectionAdvances, bounds
  <2> QED BY <1>1, <2>1, <2>5, <2>6, InsertStep DEF ProjectionAdvances
<1> QED BY <1>2, <1>3

-----------------------------------------------------------------------------
(* One lemma per action: the worker and time.                              *)

LEMMA IdleType == Idle \in Process /\ Idle.pc = "idle"
BY DEF Idle, Process

\* Steps of a worker by itself.
LEMMA WorkerMoves ==
    ASSUME IInv, NEW w \in Workers, NEW p \in Process,
           worker' = [worker EXCEPT ![w] = p],
           \/ p.pc = "idle"
           \/ /\ worker[w].pc # "idle" /\ p.request = worker[w].request
              /\ \/ p.pc \notin {"analysed", "persisting"}
                 \/ worker[w].pc \in {"analysed", "persisting"} /\ p.read = worker[w].read
                 \/ p.read >= projected
    PROVE  worker' \in [Workers -> Process] /\ \A v \in Workers : GoesOn(v)
<1>1. worker' \in [Workers -> Process] /\ worker'[w] = p
      /\ \A v \in Workers : v # w => worker'[v] = worker[v]
  BY DEF IInv, TypeOK
<1>2. ASSUME NEW v \in Workers PROVE GoesOn(v)
  <2>1. CASE v = w
    BY <1>1, <2>1 DEF GoesOn
  <2>2. CASE v # w
    BY <1>1, <2>2 DEF GoesOn
  <2> QED BY <2>1, <2>2
<1> QED BY <1>1, <1>2

LEMMA AnalyzeStep ==
    ASSUME IInv, NEW w \in Workers, Analyze(w) PROVE IInv'
<1> DEFINE p == [worker[w] EXCEPT !.pc = "analysed", !.read = graph]
<1>1. worker[w] \in Process /\ worker[w].pc = "claimed" /\ graph \in Nat /\ graph >= projected
  BY DEF IInv, TypeOK, WorkInProgress, Analyze
<1>2. worker' = [worker EXCEPT ![w] = p]
  BY DEF IInv, TypeOK, Analyze
<1>3. p \in Process /\ p.request = worker[w].request /\ p.read = graph
  BY <1>1 DEF Process
<1> HIDE DEF p
<1>4. worker' \in [Workers -> Process] /\ \A v \in Workers : GoesOn(v)
  BY <1>1, <1>2, <1>3, WorkerMoves
<1>5. UNCHANGED <<desired, projected, serving, graph, request, run, active>>
      /\ UNCHANGED <<asked, asks, failures, mishaps>>
  BY DEF Analyze, deployment, rows, bounds
<1>6. TypeOK' /\ projected' >= projected /\ graph' >= projected'
  BY <1>4, <1>5 DEF IInv, TypeOK, WorkInProgress
<1> QED BY <1>4, <1>5, <1>6, IdleStep, RowsUnchanged

\* An exception, or the end of the process.
LEMMA BreakStep ==
    ASSUME IInv, NEW w \in Workers, Break(w) \/ Crash(w) PROVE IInv'
<1>1. PICK p \in Process :
        /\ worker' = [worker EXCEPT ![w] = p]
        /\ \/ p.pc = "idle"
           \/ worker[w].pc # "idle" /\ p.request = worker[w].request /\ p.pc = "failing"
  <2>1. CASE Break(w)
    <3> DEFINE p == [worker[w] EXCEPT !.pc = "failing"]
    <3>1. worker[w] \in Process /\ worker[w].pc # "idle"
      BY <2>1 DEF IInv, TypeOK, Break
    <3>2. p \in Process /\ p.request = worker[w].request /\ p.pc = "failing"
      BY <3>1 DEF Process
    <3>3. worker' = [worker EXCEPT ![w] = p]
      BY <2>1 DEF IInv, TypeOK, Break
    <3> QED BY <3>1, <3>2, <3>3
  <2>2. CASE Crash(w)
    BY <2>2, IdleType DEF Crash
  <2> QED BY <2>1, <2>2
<1>2. worker' \in [Workers -> Process] /\ \A v \in Workers : GoesOn(v)
  BY <1>1, WorkerMoves
<1>3. /\ UNCHANGED <<desired, projected, serving, graph, request, run, active>>
      /\ UNCHANGED <<asked, asks>> /\ failures' \in Nat /\ mishaps' \in Nat
  <2>1. CASE Break(w)
    BY <2>1 DEF Break, deployment, rows, IInv, TypeOK
  <2>2. CASE Crash(w)
    BY <2>2 DEF Crash, deployment, rows, IInv, TypeOK
  <2> QED BY <2>1, <2>2
<1>4. TypeOK' /\ projected' >= projected /\ graph' >= projected'
  BY <1>2, <1>3 DEF IInv, TypeOK, WorkInProgress
<1> QED BY <1>2, <1>3, <1>4, IdleStep, RowsUnchanged

LEMMA DeferStep ==
    ASSUME IInv, NEW w \in Workers, Defer(w) PROVE IInv'
<1>1. PICK r \in Requests :
        /\ r \in Queued
        /\ request' = [request EXCEPT ![r].status = "WAITING_FOR_PROJECTION",
                                      ![r].waiting = TRUE]
  BY DEF Defer, Claimable
<1>2. /\ UNCHANGED <<desired, projected, serving, graph, run, active, worker>>
      /\ UNCHANGED <<asked, asks, failures, mishaps>>
  BY DEF Defer, deployment, bounds
<1>3. request[r] \in Row
  BY DEF IInv, TypeOK
<1>4. /\ request' \in [Requests -> Row]
      /\ request'[r].status \in InQueue /\ request'[r].mark = request[r].mark
      /\ request'[r].attempt = request[r].attempt
      /\ \A s \in Requests : s # r => request'[s] = request[s]
  BY <1>1, <1>3 DEF IInv, TypeOK, Row, InQueue
<1>5. TypeOK' /\ projected' >= projected /\ graph' >= projected'
  BY <1>2, <1>4 DEF IInv, TypeOK, WorkInProgress
<1>6. \A s \in Requests : SameRun(s) /\ (s # r => SameRequest(s))
  BY <1>2, <1>4 DEF SameRun, SameRequest
<1>7. \A s \in Running : s # r /\ s \in Requests /\ run[s].leased = request[s].leased
  BY <1>1 DEF IInv, RunsMatchRequests, Running, Queued
<1>8. Queued \subseteq Requests
  BY DEF Queued
<1>9. \A s \in Queued : \/ SameRequest(s)
                        \/ request'[s].status \in InQueue /\ request'[s].mark = request[s].mark
                           /\ request'[s].attempt = request[s].attempt
  BY <1>4, <1>6, <1>8
<1>10. \A s \in Running : run'[s].leased = request'[s].leased
  BY <1>2, <1>4, <1>7
<1> QED BY <1>1, <1>2, <1>5, <1>6, <1>9, <1>10, IdleStep, Unmoved

LEMMA HeartbeatStep ==
    ASSUME IInv, NEW w \in Workers, Heartbeat(w) PROVE IInv'
<1>1. PICK r \in Requests : r = worker[w].request /\ worker[w].pc \in {"claimed", "analysed"}
  BY DEF Heartbeat, IInv, WorkInProgress
<1>2. /\ request' = IF HoldsRequest(w, r) THEN [request EXCEPT ![r].leased = TRUE] ELSE request
      /\ run' = IF HoldsRun(w, r) THEN [run EXCEPT ![r].leased = TRUE] ELSE run
      /\ worker' = IF worker[w].pc = "analysed" THEN [worker EXCEPT ![w].pc = "persisting"]
                   ELSE worker
  BY <1>1 DEF Heartbeat
<1>3. /\ UNCHANGED <<desired, projected, serving, graph, active>>
      /\ UNCHANGED <<asked, asks, failures, mishaps>>
  BY DEF Heartbeat, deployment, bounds
<1>4. request[r] \in Row /\ run[r] \in Run /\ worker[w] \in Process
  BY DEF IInv, TypeOK
<1>5. worker' \in [Workers -> Process] /\ \A v \in Workers : GoesOn(v)
  <2>1. CASE worker[w].pc = "analysed"
    <3> DEFINE p == [worker[w] EXCEPT !.pc = "persisting"]
    <3>1. p \in Process /\ p.request = worker[w].request /\ p.read = worker[w].read
      BY <1>4 DEF Process
    <3>2. worker' = [worker EXCEPT ![w] = p]
      BY <1>2, <2>1 DEF IInv, TypeOK
    <3> HIDE DEF p
    <3> QED BY <2>1, <3>1, <3>2, WorkerMoves
  <2>2. CASE worker[w].pc # "analysed"
    BY <1>2, <2>2, Unmoved DEF IInv, TypeOK
  <2> QED BY <2>1, <2>2
<1>6. /\ request' \in [Requests -> Row] /\ run' \in [Requests -> Run]
      /\ \A s \in Requests : SameRequest(s) /\ SameRun(s)
  <2>1. /\ request' \in [Requests -> Row]
        /\ \A s \in Requests : SameRequest(s)
    BY <1>2, <1>4 DEF IInv, TypeOK, Row, SameRequest
  <2>2. /\ run' \in [Requests -> Run]
        /\ \A s \in Requests : SameRun(s)
    BY <1>2, <1>4 DEF IInv, TypeOK, Run, SameRun
  <2> QED BY <2>1, <2>2
<1>7. \A s \in Running : run'[s].leased = request'[s].leased
  <2> TAKE s \in Running
  <2>1. s \in Requests /\ run[s].leased = request[s].leased
    BY DEF IInv, RunsMatchRequests, Running
  <2>2. HoldsRun(w, r) <=> HoldsRequest(w, r)
    BY HoldsBoth
  <2> QED BY <1>2, <1>4, <2>1, <2>2 DEF IInv, TypeOK, Row, Run
<1>8. TypeOK' /\ projected' >= projected /\ graph' >= projected'
  BY <1>3, <1>5, <1>6 DEF IInv, TypeOK, WorkInProgress
<1>9. Queued \subseteq Requests
  BY DEF Queued
<1> QED BY <1>3, <1>5, <1>6, <1>7, <1>8, <1>9, IdleStep

LEMMA TimeStep ==
    ASSUME IInv, NEW r \in Requests, LeaseExpires(r) \/ DelayElapses(r) PROVE IInv'
<1>1. request[r] \in Row /\ run[r] \in Run
  BY DEF IInv, TypeOK
<1>2. /\ UNCHANGED <<desired, projected, serving, graph, active, worker>>
      /\ UNCHANGED <<asked, asks, failures>> /\ mishaps' \in Nat
  <2>1. CASE LeaseExpires(r)
    BY <2>1 DEF LeaseExpires, deployment, IInv, TypeOK
  <2>2. CASE DelayElapses(r)
    BY <2>2 DEF DelayElapses, deployment, bounds, IInv, TypeOK
  <2> QED BY <2>1, <2>2
<1>3. /\ request' \in [Requests -> Row] /\ run' \in [Requests -> Run]
      /\ \A s \in Requests : SameRequest(s) /\ SameRun(s)
      /\ \A s \in Requests : run[s].leased = request[s].leased => run'[s].leased = request'[s].leased
  <2>1. CASE LeaseExpires(r)
    <3>1. /\ run' = [run EXCEPT ![r].leased = FALSE]
          /\ request' = [request EXCEPT ![r].leased = FALSE]
      BY <2>1 DEF LeaseExpires
    <3> QED BY <1>1, <3>1 DEF IInv, TypeOK, Row, Run, SameRequest, SameRun
  <2>2. CASE DelayElapses(r)
    <3>1. run' = run /\ request' = [request EXCEPT ![r].waiting = FALSE]
      BY <2>2 DEF DelayElapses
    <3> QED BY <1>1, <3>1 DEF IInv, TypeOK, Row, SameRequest, SameRun
  <2> QED BY <2>1, <2>2
<1>4. \A s \in Running : s \in Requests /\ run[s].leased = request[s].leased
  BY DEF IInv, RunsMatchRequests, Running
<1>5. TypeOK' /\ projected' >= projected /\ graph' >= projected'
  BY <1>2, <1>3 DEF IInv, TypeOK, WorkInProgress
<1>6. Queued \subseteq Requests
  BY DEF Queued
<1> QED BY <1>2, <1>3, <1>4, <1>5, <1>6, IdleStep, Unmoved

\* A run in progress that is failed with its request, and the successor of the request.
LEMMA RetryStep ==
    ASSUME IInv, HasRoom, NEW r \in Requests, NEW waiting \in BOOLEAN,
           NEW F \in SUBSET Running, F \subseteq {r},
           NEW q \in [Requests -> Row],
           \A s \in Requests : q[s] = IF s \in F THEN Failed(request[s]) ELSE request[s],
           request' = Retry(q, r, waiting),
           run' \in [Requests -> Run],
           \A s \in Requests : run'[s] = IF s \in F THEN RunFailed(run[s]) ELSE run[s],
           UNCHANGED <<desired, projected, serving, graph, active>>,
           UNCHANGED <<asked, asks, failures, mishaps>>,
           worker' \in [Workers -> Process], \A w \in Workers : GoesOn(w)
    PROVE  IInv'
<1>1. \A s \in Requests : request[s] \in Row /\ run[s] \in Run
  BY DEF IInv, TypeOK
<1>2. \A s \in Queued \cup Unused : s \in Requests /\ s \notin F
  BY DEF IInv, RunsMatchRequests, Running, Queued, Unused
<1>3. \A s \in Queued \cup Unused : q[s] = request[s]
  BY <1>2
<1>4. \/ Adds(q, request', request[r].mark)
      \/ request[r].attempt >= MaxAttempts /\ request' = q
  BY <1>3, RetryAdds
<1>5. /\ request' \in [Requests -> Row]
      /\ \A s \in Requests \ (Queued \cup Unused) : request'[s] = q[s]
      /\ \A s \in Queued \cup Unused :
            \/ request'[s] = request[s]
            \/ /\ request'[s].status \in InQueue /\ request'[s].attempt = 0
               /\ s \in Queued => request'[s].mark >= request[s].mark
  <2>1. CASE Adds(q, request', request[r].mark)
    BY <2>1 DEF Adds
  <2>2. CASE request' = q
    BY <2>2, <1>3
  <2> QED BY <1>4, <2>1, <2>2
<1>6. \A s \in Requests \ F : SameRun(s)
  BY DEF SameRun
<1>7. \A s \in Requests \ (F \cup Queued \cup Unused) : SameRequest(s) /\ request'[s] = request[s]
  BY <1>5 DEF SameRequest
<1>8. \A s \in F : s \in Requests /\ run'[s].status = "FAILED" /\ request'[s].status = "FAILED"
  <2> TAKE s \in F
  <2>1. s \in Requests \ (Queued \cup Unused)
    BY <1>2 DEF Running
  <2>2. request'[s] = Failed(request[s]) /\ run'[s] = RunFailed(run[s])
    BY <1>5, <2>1
  <2> QED BY <1>1, <2>1, <2>2 DEF Failed, RunFailed, Row, Run
<1>9. \A s \in Running \ F : run'[s].leased = request'[s].leased
  <2> TAKE s \in Running \ F
  <2>1. s \in Requests \ (F \cup Queued \cup Unused) /\ run[s].leased = request[s].leased
    BY DEF IInv, RunsMatchRequests, Running, Queued, Unused
  <2> QED BY <1>7, <2>1
<1>10. \A s \in Queued \cup Unused :
         \/ SameRequest(s)
         \/ /\ request'[s].status \in InQueue /\ request'[s].attempt = 0
            /\ s \in Queued => request'[s].mark >= request[s].mark
  BY <1>5 DEF SameRequest
<1>11. TypeOK' /\ projected' >= projected /\ graph' >= projected'
  BY <1>5 DEF IInv, TypeOK, WorkInProgress
<1>12. Quiet(F)
  BY <1>6, <1>7, <1>8, <1>9, <1>10, <1>11 DEF Quiet
<1>13. \A f \in F : \E s \in Queued' : request'[s].mark >= request[f].mark
  <2> SUFFICES ASSUME NEW f \in F PROVE \E s \in Queued' : request'[s].mark >= request[f].mark
    OBVIOUS
  <2>1. f = r /\ request[r].attempt <= 1 /\ request[r].attempt \in Nat
    BY <1>1 DEF IInv, WorkInProgress, Running, Row
  <2>2. Adds(q, request', request[r].mark)
    BY <1>4, <2>1, AttemptsAssumption
  <2>3. PICK s \in Queued \cup Unused : request'[s].status \in InQueue /\ request'[s].mark >= request[r].mark
    BY <2>2 DEF Adds
  <2> QED BY <1>2, <2>1, <2>3 DEF Queued, InQueue
<1> QED BY <1>11, <1>12, <1>13, QuietStep

\* What failing a request and its run leaves in the tables.
LEMMA FailedTypes ==
    ASSUME IInv, NEW r \in Requests
    PROVE  /\ [request EXCEPT ![r] = Failed(@)] \in [Requests -> Row]
           /\ [run EXCEPT ![r] = RunFailed(@)] \in [Requests -> Run]
           /\ \A s \in Requests :
                 /\ [request EXCEPT ![r] = Failed(@)][s] =
                       IF s \in {r} THEN Failed(request[s]) ELSE request[s]
                 /\ [run EXCEPT ![r] = RunFailed(@)][s] =
                       IF s \in {r} THEN RunFailed(run[s]) ELSE run[s]
<1>1. request[r] \in Row /\ run[r] \in Run
  BY DEF IInv, TypeOK
<1>2. Failed(request[r]) \in Row /\ RunFailed(run[r]) \in Run
  BY <1>1 DEF Failed, RunFailed, Row, Run
<1> QED BY <1>2 DEF IInv, TypeOK

LEMMA RecoverStep ==
    ASSUME IInv, NEW w \in Workers, Recover(w) PROVE IInv'
<1>1. PICK r \in Requests :
        /\ Expired(r)
        /\ run' = [run EXCEPT ![r] = RunFailed(@)]
        /\ request' = Retry([request EXCEPT ![r] = Failed(@)], r, FALSE)
  BY DEF Recover
<1>2. HasRoom /\ UNCHANGED <<desired, projected, serving, graph, active>>
      /\ UNCHANGED <<asked, asks, failures, mishaps>> /\ worker' = worker
  BY DEF Recover, deployment, bounds
<1>3. {r} \in SUBSET Running
  BY <1>1 DEF Expired, Running
<1>4. worker' \in [Workers -> Process] /\ \A v \in Workers : GoesOn(v)
  BY <1>2, Unmoved DEF IInv, TypeOK
<1> DEFINE q == [request EXCEPT ![r] = Failed(@)]
<1>5. /\ q \in [Requests -> Row] /\ run' \in [Requests -> Run]
      /\ \A s \in Requests : /\ q[s] = IF s \in {r} THEN Failed(request[s]) ELSE request[s]
                             /\ run'[s] = IF s \in {r} THEN RunFailed(run[s]) ELSE run[s]
  BY <1>1, FailedTypes
<1>6. request' = Retry(q, r, FALSE)
  BY <1>1
<1> HIDE DEF q
<1>7. /\ {r} \subseteq {r} /\ FALSE \in BOOLEAN
      /\ \A s \in Requests : q[s] = IF s \in {r} THEN Failed(request[s]) ELSE request[s]
      /\ \A s \in Requests : run'[s] = IF s \in {r} THEN RunFailed(run[s]) ELSE run[s]
  BY <1>5
<1> QED BY <1>2, <1>3, <1>4, <1>5, <1>6, <1>7, RetryStep

LEMMA FailStep ==
    ASSUME IInv, NEW w \in Workers, Fail(w) PROVE IInv'
<1>1. PICK r \in Requests : r = worker[w].request
  BY DEF Fail, IInv, WorkInProgress
<1>2. /\ HasRoom
      /\ run' = IF HoldsRun(w, r) THEN [run EXCEPT ![r] = RunFailed(@)] ELSE run
      /\ request' = Retry(Ended(w, r, "FAILED"), r, TRUE)
      /\ worker' = [worker EXCEPT ![w] = Idle]
  BY <1>1 DEF Fail
<1>3. UNCHANGED <<desired, projected, serving, graph, active>>
      /\ UNCHANGED <<asked, asks, failures, mishaps>>
  BY DEF Fail, deployment, bounds
<1>4. worker' \in [Workers -> Process] /\ \A v \in Workers : GoesOn(v)
  BY <1>2, IdleType, WorkerMoves
<1>5. request[r] \in Row
  BY DEF IInv, TypeOK
<1>6. CASE HoldsRun(w, r)
  <2> DEFINE q == [request EXCEPT ![r] = Failed(@)]
  <2>1. {r} \in SUBSET Running /\ HoldsRequest(w, r)
    BY <1>6, HoldsBoth
  <2>2. [Failed(request[r]) EXCEPT !.status = "FAILED"] = Failed(request[r])
    BY <1>5 DEF Failed, Row
  <2>3. Ended(w, r, "FAILED") = q
    BY <2>1, <2>2 DEF Ended
  <2>4. /\ q \in [Requests -> Row] /\ run' \in [Requests -> Run]
        /\ \A s \in Requests : /\ q[s] = IF s \in {r} THEN Failed(request[s]) ELSE request[s]
                               /\ run'[s] = IF s \in {r} THEN RunFailed(run[s]) ELSE run[s]
    BY <1>2, <1>6, FailedTypes
  <2> HIDE DEF q
  <2>5. request' = Retry(q, r, TRUE)
    BY <1>2, <2>3
  <2> QED BY <1>2, <1>3, <1>4, <2>1, <2>4, <2>5, RetryStep
<1>7. CASE ~HoldsRun(w, r)
  <2>1. Ended(w, r, "FAILED") = request /\ run' = run
    BY <1>2, <1>7, HoldsBoth DEF Ended
  <2>2. request \in [Requests -> Row] /\ run' \in [Requests -> Run]
    BY <2>1 DEF IInv, TypeOK
  <2>3. {} \in SUBSET Running /\ {} \subseteq {r}
    OBVIOUS
  <2>4. \A s \in Requests : /\ request[s] = IF s \in {} THEN Failed(request[s]) ELSE request[s]
                            /\ run'[s] = IF s \in {} THEN RunFailed(run[s]) ELSE run[s]
    BY <2>1
  <2>5. request' = Retry(request, r, TRUE)
    BY <1>2, <2>1
  <2> QED BY <1>2, <1>3, <1>4, <2>2, <2>3, <2>4, <2>5, RetryStep
<1> QED BY <1>6, <1>7

-----------------------------------------------------------------------------
(* The two steps that start a run and let it succeed.                      *)

LEMMA LeasedToType ==
    ASSUME NEW w \in Workers, NEW row \in Row, row.attempt = 0
    PROVE  /\ LeasedTo(w, row) \in Row /\ LeasedTo(w, row).status = "RUNNING"
           /\ LeasedTo(w, row).owner = w /\ LeasedTo(w, row).leased = TRUE
           /\ LeasedTo(w, row).attempt = 1 /\ LeasedTo(w, row).mark = row.mark
<1>1. row.attempt + 1 = 1 /\ 1 \in Nat
  OBVIOUS
<1>2. LeasedTo(w, row) = [row EXCEPT !.status = "RUNNING", !.owner = w, !.leased = TRUE,
                                     !.attempt = 1]
  BY <1>1 DEF LeasedTo
<1>3. /\ LeasedTo(w, row).status = "RUNNING" /\ LeasedTo(w, row).owner = w
      /\ LeasedTo(w, row).attempt = 1 /\ LeasedTo(w, row).mark = row.mark
  BY <1>1, <1>2 DEF Row
<1>4. LeasedTo(w, row).leased = TRUE
  BY <1>2 DEF Row
<1>5. LeasedTo(w, row) \in Row
  BY <1>1, <1>2 DEF Row
<1> QED BY <1>3, <1>4, <1>5

LEMMA ClaimStep ==
    ASSUME IInv, NEW w \in Workers, Claim(w) PROVE IInv'
<1>1. PICK r \in Requests :
        /\ r \in Queued /\ Running = {} /\ projected >= request[r].mark
        /\ request' = [request EXCEPT ![r] = LeasedTo(w, @)]
        /\ run' = [run EXCEPT ![r] = StartedBy(w)]
        /\ worker' = [worker EXCEPT ![w] = [Idle EXCEPT !.pc = "claimed", !.request = r]]
  BY DEF Claim, Claimable, Ready
<1>2. /\ UNCHANGED <<desired, projected, serving, graph, active>>
      /\ UNCHANGED <<asked, asks, failures, mishaps>>
  BY DEF Claim, deployment, bounds
<1>3. /\ request[r] \in Row /\ projected \in Nat /\ request[r].attempt = 0
      /\ run[r].status = "NONE"
  BY <1>1 DEF IInv, TypeOK, WorkInProgress, RunsMatchRequests
<1>4. /\ request' \in [Requests -> Row]
      /\ request'[r].status = "RUNNING" /\ request'[r].owner = w /\ request'[r].leased = TRUE
      /\ request'[r].attempt = 1 /\ request'[r].mark = request[r].mark
      /\ \A s \in Requests : s # r => request'[s] = request[s]
  <2> DEFINE row == LeasedTo(w, request[r])
  <2>1. /\ row \in Row /\ row.status = "RUNNING" /\ row.owner = w /\ row.leased = TRUE
        /\ row.attempt = 1 /\ row.mark = request[r].mark
    BY <1>3, LeasedToType
  <2> HIDE DEF row
  <2>2. request' = [request EXCEPT ![r] = row]
    BY <1>1 DEF row
  <2> QED BY <2>1, <2>2 DEF IInv, TypeOK
<1>5. /\ run' \in [Requests -> Run]
      /\ run'[r].status = "RUNNING" /\ run'[r].owner = w /\ run'[r].leased = TRUE
      /\ run'[r].at = projected
      /\ \A s \in Requests : s # r => run'[s] = run[s]
  BY <1>1, <1>3 DEF IInv, TypeOK, Run, NoRun, StartedBy
<1>6. /\ worker' \in [Workers -> Process]
      /\ worker'[w].pc = "claimed" /\ worker'[w].request = r
      /\ \A v \in Workers : v # w => worker'[v] = worker[v]
  BY <1>1 DEF IInv, TypeOK, Process, Idle
<1>7. TypeOK'
  BY <1>2, <1>4, <1>5, <1>6 DEF IInv, TypeOK
<1>8. /\ Running' = {r} /\ Succeeded' = Succeeded /\ r \notin Succeeded
      /\ Queued' = Queued \ {r}
  <2>1. Running' = {r}
    BY <1>1, <1>5 DEF Running
  <2>2. Succeeded' = Succeeded /\ r \notin Succeeded
    BY <1>3, <1>5 DEF Succeeded
  <2>3. Queued' = Queued \ {r}
    BY <1>4 DEF Queued
  <2> QED BY <2>1, <2>2, <2>3
<1>9. RunsMatchRequests'
  <2>1. \A s \in Requests : run'[s].status = IF s \in Queued' THEN "NONE" ELSE request'[s].status
    BY <1>4, <1>5, <1>8 DEF IInv, RunsMatchRequests
  <2>2. \A s \in Requests : run'[s].status = "RUNNING" =>
          run'[s].owner = request'[s].owner /\ run'[s].leased = request'[s].leased
    BY <1>4, <1>5 DEF IInv, RunsMatchRequests
  <2> QED BY <1>8, <2>1, <2>2 DEF RunsMatchRequests
<1>10. \A s \in Succeeded : s \in Requests /\ run'[s] = run[s] /\ request'[s] = request[s]
  BY <1>4, <1>5, <1>8 DEF Succeeded
<1>11. ActiveIsNewest'
  BY <1>2, <1>8, <1>10 DEF IInv, ActiveIsNewest
<1>12. RunCoversRequest'
  BY <1>8, <1>10 DEF IInv, RunCoversRequest
<1>13. NoRequestForgotten'
  <2>1. CASE asked = 0
    BY <1>2, <2>1 DEF NoRequestForgotten
  <2>2. ASSUME NEW s \in Requests, s \in Queued, request[s].mark >= asked
        PROVE  NoRequestForgotten'
    <3>1. s \in Queued' \cup Running' /\ request'[s].mark >= asked'
      BY <1>2, <1>4, <1>8, <2>2
    <3> QED BY <3>1 DEF NoRequestForgotten
  <2>3. ASSUME NEW s \in Requests, s \in Succeeded, run[s].at >= asked
        PROVE  NoRequestForgotten'
    <3>1. s \in Succeeded' /\ run'[s].at >= asked'
      BY <1>2, <1>8, <1>10, <2>3
    <3> QED BY <3>1 DEF NoRequestForgotten
  <2> QED BY <1>1, <2>1, <2>2, <2>3 DEF IInv, NoRequestForgotten
<1>14. WorkInProgress'
  <2>1. projected' <= graph'
    BY <1>2 DEF IInv, WorkInProgress
  <2>2. \A s \in Requests : s \in Queued' => request'[s].attempt = 0
    BY <1>4, <1>8 DEF IInv, WorkInProgress
  <2>3. \A s \in Requests : s \in Running' =>
          request'[s].attempt <= 1 /\ request'[s].mark <= run'[s].at
    <3>1. request[r].mark \in Nat
      BY <1>3 DEF Row
    <3> QED BY <1>1, <1>3, <1>4, <1>5, <1>8, <3>1
  <2>4. \A s \in Requests : s \in Running' \cup Succeeded' => run'[s].at <= projected'
    BY <1>2, <1>3, <1>5, <1>8, <1>10 DEF IInv, WorkInProgress
  <2>5. \A t \in Running', s \in Succeeded' : run'[s].at <= run'[t].at
    BY <1>5, <1>8, <1>10 DEF IInv, WorkInProgress
  <2>6. ASSUME NEW v \in Workers
        PROVE  /\ worker'[v].pc # "idle" => worker'[v].request \in Requests
               /\ /\ worker'[v].pc \in {"analysed", "persisting"}
                  /\ run'[worker'[v].request].status = "RUNNING"
                  /\ run'[worker'[v].request].owner = v
                  => run'[worker'[v].request].at <= worker'[v].read
    <3>1. CASE v = w
      BY <1>6, <3>1
    <3>2. CASE v # w
      <4>1. worker'[v] = worker[v] /\ (worker[v].pc # "idle" => worker[v].request \in Requests)
        BY <1>6, <3>2 DEF IInv, WorkInProgress
      <4>2. ASSUME worker[v].pc # "idle", run'[worker[v].request].owner = v,
                   run'[worker[v].request].status = "RUNNING"
            PROVE  FALSE
        <5>1. worker[v].request \in Running'
          BY <4>1, <4>2 DEF Running
        <5> QED BY <1>5, <1>8, <3>2, <4>2, <5>1
      <4> QED BY <4>1, <4>2
    <3> QED BY <3>1, <3>2
  <2> QED BY <2>1, <2>2, <2>3, <2>4, <2>5, <2>6 DEF WorkInProgress, HoldsRun
<1> QED BY <1>7, <1>9, <1>11, <1>12, <1>13, <1>14 DEF IInv

LEMMA PersistStep ==
    ASSUME IInv, NEW w \in Workers, Persist(w) PROVE IInv'
<1>1. PICK r \in Requests : r = worker[w].request /\ worker[w].pc = "persisting"
  BY DEF Persist, IInv, WorkInProgress
<1>2. /\ UNCHANGED <<desired, projected, serving, graph>>
      /\ UNCHANGED <<asked, asks, failures, mishaps>>
  BY DEF Persist, deployment, bounds
<1>3. worker[w] \in Process /\ request[r] \in Row /\ run[r] \in Run
  BY DEF IInv, TypeOK
<1>4. CASE ~HoldsRun(w, r)
  <2> DEFINE p == [worker[w] EXCEPT !.pc = "failing"]
  <2>1. worker' = [worker EXCEPT ![w] = p] /\ UNCHANGED <<request, run, active>>
    BY <1>1, <1>4 DEF Persist, rows, IInv, TypeOK
  <2>2. p \in Process /\ p.pc = "failing" /\ p.request = worker[w].request
    BY <1>3 DEF Process
  <2> HIDE DEF p
  <2>3. worker' \in [Workers -> Process] /\ \A v \in Workers : GoesOn(v)
    BY <1>1, <2>1, <2>2, WorkerMoves
  <2>4. TypeOK' /\ projected' >= projected /\ graph' >= projected'
    BY <1>2, <2>1, <2>3 DEF IInv, TypeOK, WorkInProgress
  <2> QED BY <1>2, <2>1, <2>3, <2>4, IdleStep, RowsUnchanged
<1>5. CASE HoldsRun(w, r)
  <2>1. /\ run' = [run EXCEPT ![r] = [@ EXCEPT !.status = "SUCCEEDED", !.leased = FALSE,
                                          !.of = worker[w].read]]
        /\ active' = r
        /\ request' = Ended(w, r, "SUCCEEDED")
        /\ worker' = [worker EXCEPT ![w] = Idle]
    BY <1>1, <1>5 DEF Persist
  <2>2. /\ HoldsRequest(w, r) /\ r \in Running /\ r \notin Queued \cup Unused
    BY <1>5, HoldsBoth
  <2>3. /\ request' \in [Requests -> Row]
        /\ request'[r].status = "SUCCEEDED" /\ request'[r].mark = request[r].mark
        /\ \A s \in Requests : s # r => request'[s] = request[s]
    BY <1>3, <2>1, <2>2 DEF Ended, Failed, IInv, TypeOK, Row
  <2>4. /\ run' \in [Requests -> Run]
        /\ run'[r].status = "SUCCEEDED" /\ run'[r].at = run[r].at
        /\ run'[r].of = worker[w].read
        /\ \A s \in Requests : s # r => run'[s] = run[s]
    BY <1>3, <2>1 DEF IInv, TypeOK, Run, Process
  <2>5. /\ worker' \in [Workers -> Process] /\ worker'[w].pc = "idle"
        /\ \A v \in Workers : v # w => worker'[v] = worker[v]
    BY <2>1, IdleType DEF IInv, TypeOK
  <2>6. TypeOK'
    BY <1>2, <2>1, <2>3, <2>4, <2>5 DEF IInv, TypeOK
  <2>7. Running = {r}
    BY <2>2 DEF IInv, RunsMatchRequests
  <2>8. Running' = {} /\ Succeeded' = Succeeded \cup {r} /\ Queued' = Queued
    <3>1. Running' = {}
      BY <2>4, <2>7 DEF Running
    <3>2. Succeeded' = Succeeded \cup {r}
      BY <2>4 DEF Succeeded
    <3>3. Queued' = Queued
      BY <2>2, <2>3 DEF Queued
    <3> QED BY <3>1, <3>2, <3>3
  <2>9. \A s \in Requests : s # r => run'[s] = run[s] /\ request'[s] = request[s]
    BY <2>3, <2>4
  <2>10. r \notin Succeeded /\ Succeeded \subseteq Requests
    BY <2>2 DEF Running, Succeeded
  <2>11. RunsMatchRequests'
    <3>1. \A s \in Requests : run'[s].status = IF s \in Queued' THEN "NONE" ELSE request'[s].status
      BY <2>2, <2>3, <2>4, <2>8 DEF IInv, RunsMatchRequests
    <3>2. \A s \in Requests : run'[s].status # "RUNNING"
      BY <2>8 DEF Running
    <3> QED BY <2>8, <3>1, <3>2 DEF RunsMatchRequests
  <2>12. /\ request[r].mark <= run[r].at /\ run[r].at <= projected
         /\ \A s \in Succeeded : run[s].at <= run[r].at
         /\ run[r].at <= worker[w].read
    BY <1>1, <1>5, <2>2 DEF IInv, WorkInProgress
  <2>13. ActiveIsNewest'
    <3>1. run[r].at \in Nat
      BY <1>3 DEF Run
    <3> QED BY <2>1, <2>4, <2>8, <2>9, <2>10, <2>12, <3>1 DEF ActiveIsNewest
  <2>14. RunCoversRequest'
    BY <2>3, <2>4, <2>8, <2>9, <2>10, <2>12 DEF IInv, RunCoversRequest
  <2>15. NoRequestForgotten'
    <3>1. CASE asked = 0
      BY <1>2, <3>1 DEF NoRequestForgotten
    <3>2. ASSUME NEW s \in Requests, s \in Queued, request[s].mark >= asked
          PROVE  NoRequestForgotten'
      BY <1>2, <2>2, <2>8, <2>9, <3>2 DEF NoRequestForgotten
    <3>3. ASSUME NEW s \in Requests, s \in Running, request[s].mark >= asked
          PROVE  NoRequestForgotten'
      <4>1. s = r
        BY <2>7, <3>3
      <4>2. request[r].mark \in Nat /\ run[r].at \in Nat /\ asked \in Nat
        BY <1>3 DEF IInv, TypeOK, Row, Run
      <4>3. run'[r].at >= asked'
        BY <1>2, <2>4, <2>12, <3>3, <4>1, <4>2
      <4> QED BY <2>8, <4>3 DEF NoRequestForgotten
    <3>4. ASSUME NEW s \in Requests, s \in Succeeded, run[s].at >= asked
          PROVE  NoRequestForgotten'
      BY <1>2, <2>8, <2>9, <2>10, <3>4 DEF NoRequestForgotten
    <3> QED BY <3>1, <3>2, <3>3, <3>4 DEF IInv, NoRequestForgotten
  <2>16. WorkInProgress'
    <3>1. projected' <= graph'
      BY <1>2 DEF IInv, WorkInProgress
    <3>2. \A s \in Requests : s \in Queued' => request'[s].attempt = 0
      BY <2>2, <2>8, <2>9 DEF IInv, WorkInProgress
    <3>3. \A s \in Requests : s \in Running' \cup Succeeded' => run'[s].at <= projected'
      BY <1>2, <2>4, <2>8, <2>9, <2>12 DEF IInv, WorkInProgress
    <3>4. \A v \in Workers : worker'[v].pc # "idle" => worker'[v].request \in Requests
      BY <2>5 DEF IInv, WorkInProgress
    <3>5. \A s \in Requests : run'[s].status # "RUNNING"
      BY <2>8 DEF Running
    <3>6. \A v \in Workers : worker'[v].pc \in {"analysed", "persisting"} =>
            run'[worker'[v].request].status # "RUNNING"
      BY <3>4, <3>5
    <3> QED BY <2>8, <3>1, <3>2, <3>3, <3>4, <3>6 DEF WorkInProgress, HoldsRun
  <2> QED BY <2>6, <2>11, <2>13, <2>14, <2>15, <2>16 DEF IInv
<1> QED BY <1>4, <1>5

-----------------------------------------------------------------------------
(* The theorems.                                                           *)

LEMMA InitEstablishes ==
    ASSUME Init PROVE IInv
<1>1. NoRow \in Row /\ NoRun \in Run /\ Idle \in Process
  BY DEF NoRow, NoRun, Idle, Row, Run, Process
<1>2. TypeOK
  BY <1>1 DEF Init, TypeOK
<1>3. \A r \in Requests : request[r].status = "NONE" /\ run[r].status = "NONE"
  BY DEF Init, NoRow, NoRun
<1>4. Queued = {} /\ Running = {} /\ Succeeded = {}
  BY <1>3 DEF Queued, Running, Succeeded
<1>5. \A w \in Workers : worker[w].pc = "idle"
  BY DEF Init, Idle
<1>6. RunsMatchRequests /\ ActiveIsNewest /\ NoRequestForgotten /\ RunCoversRequest
  BY <1>3, <1>4 DEF Init, RunsMatchRequests, ActiveIsNewest, NoRequestForgotten, RunCoversRequest
<1>7. WorkInProgress
  BY <1>4, <1>5 DEF Init, WorkInProgress
<1> QED BY <1>2, <1>6, <1>7 DEF IInv

LEMMA StutterPreserves ==
    ASSUME IInv, UNCHANGED vars PROVE IInv'
<1>1. /\ UNCHANGED <<desired, projected, serving, graph, request, run, active, worker>>
      /\ UNCHANGED <<asked, asks, failures, mishaps>>
  BY DEF vars, deployment, rows, bounds
<1>2. TypeOK' /\ projected' >= projected /\ graph' >= projected'
  BY <1>1 DEF IInv, TypeOK, WorkInProgress
<1> QED BY <1>1, <1>2, IdleStep, Unmoved, RowsUnchanged

\* The invariant behind the results below is inductive: it holds of every reachable state.
THEOREM Invariance == Spec => []IInv
<1>1. Init => IInv
  BY InitEstablishes
<1>2. IInv /\ [Next]_vars => IInv'
  <2> SUFFICES ASSUME IInv, [Next]_vars PROVE IInv'
    OBVIOUS
  <2>1. CASE Change
    BY <2>1, ChangeStep
  <2>2. CASE ProjectionApplies
    BY <2>2, ProjectionAppliesStep
  <2>3. CASE ProjectionAdvances
    BY <2>3, ProjectionAdvancesStep
  <2>4. CASE ProjectionStops \/ ProjectionResumes
    BY <2>4, ProjectionStopsStep
  <2>5. CASE Ask
    BY <2>5, AskStep
  <2>6. ASSUME NEW w \in Workers,
               \/ Recover(w) \/ Defer(w) \/ Claim(w) \/ Analyze(w)
               \/ Heartbeat(w) \/ Persist(w) \/ Break(w) \/ Fail(w) \/ Crash(w)
        PROVE  IInv'
    BY <2>6, RecoverStep, DeferStep, ClaimStep, AnalyzeStep, HeartbeatStep, PersistStep,
       BreakStep, FailStep
  <2>7. ASSUME NEW r \in Requests, LeaseExpires(r) \/ DelayElapses(r) PROVE IInv'
    BY <2>7, TimeStep
  <2>8. CASE UNCHANGED vars
    BY <2>8, StutterPreserves
  <2> QED BY <2>1, <2>2, <2>3, <2>4, <2>5, <2>6, <2>7, <2>8 DEF Next
<1> QED BY <1>1, <1>2, PTL DEF Spec

\* Requests, runs, the deployment's watermarks and the workers keep their types.
THEOREM Typing == Spec => []TypeOK
<1>1. IInv => TypeOK
  BY DEF IInv
<1> QED BY <1>1, Invariance, PTL

\* A request and its run agree whoever ends, recovers or heartbeats them, and a policy has
\* at most one run in progress.
THEOREM Agreement == Spec => []RunsMatchRequests
<1>1. IInv => RunsMatchRequests
  BY DEF IInv
<1> QED BY <1>1, Invariance, PTL

\* The active run is the newest successful one: no worker that lost its run overtakes.
THEOREM NewestIsActive == Spec => []ActiveIsNewest
<1>1. IInv => ActiveIsNewest
  BY DEF IInv
<1> QED BY <1>1, Invariance, PTL

\* What anybody asked to have analysed is analysed, in progress or queued.
THEOREM NothingForgotten == Spec => []NoRequestForgotten
<1>1. IInv => NoRequestForgotten
  BY DEF IInv
<1> QED BY <1>1, Invariance, PTL

\* A successful run covers its request, and read a graph that holds its watermark.
THEOREM Coverage == Spec => []RunCoversRequest
<1>1. IInv => RunCoversRequest
  BY DEF IInv
<1> QED BY <1>1, Invariance, PTL
=============================================================================
