------------------------- MODULE GraphRebuildProofs -------------------------
(***************************************************************************)
(* The safety of the switch to a rebuilt database, for any number of keys, *)
(* databases, workers, rebuild processes and changes and any batch size:   *)
(* the lease and the watermark with everything Adversity allows, what is   *)
(* shown and requested without it.                                         *)
(***************************************************************************)
EXTENDS GraphRebuild, Extrema

\* A rebuild's state after its snapshot was taken.
PastSnapshot == {"copy", "copied", "target", "read", "write", "written", "validate", "activate"}

\* The row says RUNNING as long as a rebuild is at work, whoever holds the lease by then: only
\* the rebuild itself ends that, and only while it is the owner.
RebuildIsAlone ==
    \A r \in Rebuilders : ~At(r, "out") =>
        /\ deployment.rebuild = "RUNNING"
        /\ rebuild[r].candidate \in Databases \ {deployment.database}
        /\ \A q \in Rebuilders \ {r} : At(q, "out")

\* Only committed changes are delivered, and batches hold some of them.
BatchesAreCommitted ==
    /\ \A i \in Ids : delivery[i].status # "NONE" => i \in committed
    /\ \A w \in Workers : worker[w].pc \in {"claimed", "loaded", "applied"} =>
           worker[w].batch # {} /\ worker[w].batch \subseteq committed
    /\ \A r \in Rebuilders : At(r, "write") =>
           rebuild[r].batch # {} /\ rebuild[r].batch \subseteq committed

\* A watermark is at a committed change, and no worker moves it while the rebuild is the
\* owner: the rebuild's own mark is never below it.
MarksCover ==
    /\ deployment.projected \in committed \cup {0}
    /\ \A r \in Rebuilders : /\ rebuild[r].mark \in committed \cup {0}
                             /\ rebuild[r].target \in committed \cup {0}
    /\ \A r \in Rebuilders : rebuild[r].pc \in PastSnapshot /\ deployment.owner = r
           => rebuild[r].mark >= deployment.projected

IInv == TypeOK /\ RebuildIsAlone /\ BatchesAreCommitted /\ MarksCover

-----------------------------------------------------------------------------
(* Constants, marks and batches.                                           *)

LEMMA Names ==
    /\ NoFact = 0 /\ Ids = 1 .. MaxOutbox /\ MaxOutbox \in Nat
    /\ Workers \cap Rebuilders = {} /\ Nobody \notin Workers /\ Nobody \notin Rebuilders
    /\ NoDatabase \notin Databases /\ NoKey \notin Keys
BY BoundAssumption, NamesAssumption DEF Ids, NoFact

LEMMA MaxOfIds ==
    ASSUME NEW S, S \subseteq Ids, S # {}
    PROVE  Max(S) \in S /\ \A y \in S : Max(S) >= y
BY MaxOfRows, Names

\* The newest committed id is not below any committed one.
LEMMA MaximumCovers ==
    ASSUME committed \subseteq Ids
    PROVE  /\ MaximumOutbox \in committed \cup {0} /\ MaximumOutbox \in Nat
           /\ \A i \in committed \cup {0} : MaximumOutbox >= i
<1>1. CASE committed = {}
  BY <1>1 DEF MaximumOutbox, MaxOr
<1>2. CASE committed # {}
  <2>1. MaximumOutbox = Max(committed)
    BY <1>2 DEF MaximumOutbox, MaxOr
  <2>2. Max(committed) \in committed /\ \A i \in committed : Max(committed) >= i
    BY <1>2, MaxOfIds
  <2>3. MaximumOutbox \in Nat
    <3>1. MaximumOutbox \in Ids
      BY <2>1, <2>2
    <3> QED BY <3>1, Names
  <2>4. ASSUME NEW i \in committed PROVE MaximumOutbox >= i
    BY <2>1, <2>2
  <2>5. MaximumOutbox \in committed
    BY <2>1, <2>2
  <2> QED BY <2>3, <2>4, <2>5
<1> QED BY <1>1, <1>2

LEMMA LowestNonempty ==
    ASSUME NEW S, S \subseteq Ids, S # {}
    PROVE  Lowest(BatchSize, S) # {} /\ Lowest(BatchSize, S) \subseteq S
<1>1. S \in SUBSET Nat
  BY Names
<1>2. PICK m \in S : \A j \in S : m <= j
  BY <1>1, LeastExists
<1>3. {j \in S : j < m} = {}
  <2>1. ASSUME NEW j \in S PROVE ~ (j < m)
    <3>1. m <= j /\ j \in Nat /\ m \in Nat
      BY <1>1, <1>2
    <3> QED BY <3>1
  <2> QED BY <2>1
<1>4. Cardinality({j \in S : j < m}) = 0
  BY <1>3, FS_EmptySet
<1>5. BatchSize \in Nat /\ 0 < BatchSize
  BY BatchAssumption
<1>6. m \in Lowest(BatchSize, S)
  BY <1>4, <1>5 DEF Lowest
<1> QED BY <1>6 DEF Lowest

LEMMA CommittedType == TypeOK => committed \subseteq Ids
BY DEF TypeOK, Allocated

LEMMA ProjectedType ==
    ASSUME TypeOK, NEW db \in Databases, NEW batch \in SUBSET Ids, NEW view \in Facts
    PROVE  Projected(db, batch, view) \in Facts
<1>1. graph[db] \in Facts
  BY DEF TypeOK
<1>2. ASSUME NEW k \in Keys, NEW facts
      PROVE  (IF facts = {} THEN graph[db][k] ELSE IF view[k] \in facts THEN view[k] ELSE NoFact)
                 \in Ids \cup {NoFact}
  BY <1>1 DEF Facts
<1> QED BY <1>2 DEF Facts, Projected

-----------------------------------------------------------------------------
(* The three kinds of steps: by a publication, by a worker, by a rebuild.  *)

\* A worker may take the lease or give it up and may move the watermark under its own.
LEMMA WorkerMoves ==
    ASSUME IInv, NEW w \in Workers,
           worker' \in [Workers -> Worker],
           \A v \in Workers \ {w} : worker'[v] = worker[v],
           worker'[w].pc \in {"claimed", "loaded", "applied"} =>
               worker'[w].batch # {} /\ worker'[w].batch \subseteq committed,
           delivery' \in [Ids -> Delivery],
           \A i \in Ids : delivery'[i].status # "NONE" => i \in committed,
           deployment' \in Deployment,
           deployment'.rebuild = deployment.rebuild, deployment'.database = deployment.database,
           deployment'.projected \in committed \cup {0},
           deployment'.owner \in Rebuilders =>
               deployment'.owner = deployment.owner /\ deployment'.projected = deployment.projected,
           graph' \in [Databases -> Facts], mishaps' \in 0 .. MaxMishaps,
           UNCHANGED <<store, rebuild, rebuilds>>
    PROVE  IInv'
<1>1. TypeOK'
  BY DEF IInv, TypeOK, store, Allocated
<1>2. RebuildIsAlone'
  BY DEF IInv, RebuildIsAlone, At
<1>3. BatchesAreCommitted'
  BY DEF IInv, BatchesAreCommitted, At, store
<1>4. MarksCover'
  BY DEF IInv, MarksCover, store
<1> QED BY <1>1, <1>2, <1>3, <1>4 DEF IInv

\* A rebuild is alone before and after its steps.
LEMMA RebuildMoves ==
    ASSUME IInv, NEW r \in Rebuilders,
           \A q \in Rebuilders \ {r} : At(q, "out"),
           rebuild' \in [Rebuilders -> Rebuild],
           \A q \in Rebuilders \ {r} : rebuild'[q] = rebuild[q],
           rebuild'[r].pc # "out" =>
               /\ deployment'.rebuild = "RUNNING"
               /\ rebuild'[r].candidate \in Databases \ {deployment'.database},
           rebuild'[r].pc = "write" =>
               rebuild'[r].batch # {} /\ rebuild'[r].batch \subseteq committed,
           rebuild'[r].mark \in committed \cup {0}, rebuild'[r].target \in committed \cup {0},
           rebuild'[r].pc \in PastSnapshot /\ deployment'.owner = r =>
               rebuild'[r].mark >= deployment'.projected,
           delivery' \in [Ids -> Delivery],
           \A i \in Ids : delivery'[i].status # "NONE" => i \in committed,
           deployment' \in Deployment, deployment'.projected \in committed \cup {0},
           graph' \in [Databases -> Facts],
           rebuilds' \in 0 .. MaxRebuilds, mishaps' \in 0 .. MaxMishaps,
           UNCHANGED <<store, worker>>
    PROVE  IInv'
<1>1. TypeOK'
  BY DEF IInv, TypeOK, store, Allocated
<1>2. RebuildIsAlone'
  BY DEF IInv, RebuildIsAlone, At
<1>3. BatchesAreCommitted'
  BY DEF IInv, BatchesAreCommitted, At, store
<1>4. MarksCover'
  BY DEF IInv, MarksCover, store, PastSnapshot, At
<1> QED BY <1>1, <1>2, <1>3, <1>4 DEF IInv

-----------------------------------------------------------------------------
(* Publication.                                                            *)

\* A publication allocates an id, and nothing else.
LEMMA BeginPublishStep ==
    ASSUME IInv, NEW k \in Keys, NEW asserts \in BOOLEAN, BeginPublish(k, asserts)
    PROVE  IInv'
<1> DEFINE i == Min(Ids \ Allocated)
           new == [key |-> k, fact |-> IF asserts THEN i ELSE NoFact]
<1>1. Ids \ Allocated # {} /\ Ids \ Allocated \subseteq 1 .. MaxOutbox
  BY Names DEF BeginPublish, Allocated
<1>2. i \in Ids
  BY <1>1, MinOfRows, Names
<1>3. change' = [change EXCEPT ![i] = new]
  BY DEF BeginPublish
<1>4. UNCHANGED <<committed, current, control, graph, worker, rebuild, bounds>>
  BY DEF BeginPublish
<1> HIDE DEF i
<1>5. new \in [key : Keys, fact : Ids \cup {NoFact}] /\ new # NoChange
  BY <1>2, Names DEF NoChange
<1> HIDE DEF new
<1>6. change' \in [Ids -> [key : Keys \cup {NoKey}, fact : Ids \cup {NoFact}]]
  BY <1>2, <1>3, <1>5 DEF IInv, TypeOK
<1>7. Allocated \subseteq Allocated'
  BY <1>2, <1>3, <1>5 DEF Allocated, IInv, TypeOK
<1>8. TypeOK'
  BY <1>4, <1>6, <1>7 DEF IInv, TypeOK, control, bounds
<1> QED
  BY <1>4, <1>8 DEF IInv, RebuildIsAlone, BatchesAreCommitted, MarksCover, At, control

\* A commit makes an id deliverable.
LEMMA CommitStep ==
    ASSUME IInv, NEW i \in Ids, CommitPublish(i)
    PROVE  IInv'
<1> DEFINE due == [delivery[i] EXCEPT !.status = "PENDING"]
           row == [deployment EXCEPT !.desired = Greatest(deployment.desired, i)]
<1>1. /\ committed' = committed \cup {i} /\ i \in Allocated
      /\ current' = [current EXCEPT ![change[i].key] = change[i].fact]
      /\ UNCHANGED <<change, graph, worker, rebuild, bounds>>
  BY DEF CommitPublish, Open
<1>2. delivery' = [delivery EXCEPT ![i] = due]
  BY Zenon DEF CommitPublish
<1>3. deployment' = row
  BY DEF CommitPublish
<1>4. due \in Delivery
  BY DEF IInv, TypeOK, Delivery
<1>5. deployment \in Deployment /\ i \in Nat
  BY Names DEF IInv, TypeOK
<1>6. Greatest(deployment.desired, i) \in Nat
  BY <1>5 DEF Deployment, Greatest
<1>7. row \in Deployment
  BY <1>5, <1>6 DEF Deployment
<1>8. /\ row.rebuild = deployment.rebuild /\ row.database = deployment.database
      /\ row.owner = deployment.owner /\ row.projected = deployment.projected
  BY <1>5 DEF Deployment
<1> HIDE DEF due, row
<1>9. current' \in Facts
  BY <1>1 DEF IInv, TypeOK, Facts
<1>10. delivery' \in [Ids -> Delivery]
  BY <1>2, <1>4 DEF IInv, TypeOK
<1>11. TypeOK'
  BY <1>1, <1>3, <1>7, <1>9, <1>10 DEF IInv, TypeOK, bounds, Allocated
<1>12. BatchesAreCommitted'
  BY <1>1, <1>2 DEF IInv, BatchesAreCommitted, At, TypeOK
<1> QED
  BY <1>1, <1>3, <1>8, <1>11, <1>12 DEF IInv, RebuildIsAlone, MarksCover, At

-----------------------------------------------------------------------------
(* The worker.                                                             *)

LEMMA Types ==
    ASSUME IInv
    PROVE  /\ current \in Facts /\ Out.view \in Facts
           /\ deployment \in Deployment /\ delivery \in [Ids -> Delivery]
           /\ graph \in [Databases -> Facts]
           /\ worker \in [Workers -> Worker] /\ rebuild \in [Rebuilders -> Rebuild]
           /\ mishaps \in 0 .. MaxMishaps /\ rebuilds \in 0 .. MaxRebuilds
           /\ committed \subseteq Ids
           /\ deployment.projected \in committed \cup {0}
           /\ \A i \in Ids : delivery[i].status # "NONE" => i \in committed
BY CommittedType DEF IInv, TypeOK, BatchesAreCommitted, MarksCover, Out, Facts

\* A claim takes a batch that is not empty, and the lease from whoever let it run out.
LEMMA ClaimStep ==
    ASSUME IInv, NEW w \in Workers, Claim(w)
    PROVE  IInv'
<1> DEFINE batch == Lowest(BatchSize, Undone)
           db == IF worker[w].writer = NoDatabase THEN deployment.database ELSE worker[w].writer
<1>1. Undone # {} /\ Undone \subseteq Ids
  BY DEF Claim, DeploymentReady, Undone
<1>2. batch # {} /\ batch \subseteq Undone
  BY <1>1, LowestNonempty
<1>3. batch \subseteq committed /\ batch \in SUBSET Ids
  BY <1>1, <1>2, Types DEF Undone
<1>4. db \in Databases
  BY Types DEF Worker, Deployment
<1>5. /\ delivery' = [j \in Ids |-> IF j \in batch THEN [status |-> "PROCESSING", owner |-> w] ELSE delivery[j]]
      /\ worker' = [worker EXCEPT ![w].pc = "claimed", ![w].batch = batch, ![w].writer = db]
      /\ deployment' = [deployment EXCEPT !.owner = w, !.leased = TRUE]
      /\ UNCHANGED <<store, graph, rebuild, bounds>>
  BY Types DEF Claim
<1> HIDE DEF batch, db
<1>6. /\ worker' \in [Workers -> Worker] /\ \A v \in Workers \ {w} : worker'[v] = worker[v]
      /\ worker'[w].batch = batch
  BY <1>3, <1>4, <1>5, Types DEF Worker
<1>7. delivery' \in [Ids -> Delivery] /\ \A i \in Ids : delivery'[i].status # "NONE" => i \in committed
  BY <1>3, <1>5, Types DEF Delivery
<1>8. /\ deployment' \in Deployment /\ deployment'.owner = w
      /\ deployment'.rebuild = deployment.rebuild /\ deployment'.database = deployment.database
      /\ deployment'.projected = deployment.projected
  BY <1>5, Types DEF Deployment, Holder
<1> QED
  BY <1>2, <1>3, <1>5, <1>6, <1>7, <1>8, Types, Names, WorkerMoves DEF bounds

\* The worker's other steps but the last move neither watermark nor lease.
LEMMA WorkerStep ==
    ASSUME IInv, NEW w \in Workers, EndRun(w) \/ Load(w) \/ WorkerCrash(w)
    PROVE  IInv'
<1>1. /\ worker' \in [Workers -> Worker] /\ \A v \in Workers \ {w} : worker'[v] = worker[v]
      /\ worker'[w].pc \in {"claimed", "loaded", "applied"} =>
             worker'[w].batch # {} /\ worker'[w].batch \subseteq committed
  <2>1. CASE worker' = [worker EXCEPT ![w] = Out]
    <3>1. Out \in Worker /\ Out.pc = "out"
      BY Types DEF Worker, Out
    <3> QED BY <2>1, <3>1, Types
  <2>2. CASE Load(w)
    <3>1. worker' = [worker EXCEPT ![w].pc = "loaded", ![w].view = current] /\ worker[w].pc = "claimed"
      BY <2>2 DEF Load
    <3>2. worker' \in [Workers -> Worker] /\ \A v \in Workers \ {w} : worker'[v] = worker[v]
      BY <3>1, Types DEF Worker
    <3>3. worker'[w].batch = worker[w].batch
      BY <3>1, Types DEF Worker
    <3> QED BY <3>1, <3>2, <3>3 DEF IInv, BatchesAreCommitted
  <2> QED BY <2>1, <2>2 DEF EndRun, WorkerCrash
<1>2. UNCHANGED <<store, control, graph, rebuild, rebuilds>>
  BY DEF EndRun, Load, WorkerCrash, bounds
<1>3. mishaps' \in 0 .. MaxMishaps
  BY Types, BoundAssumption DEF EndRun, Load, WorkerCrash, bounds
<1> QED BY <1>1, <1>2, <1>3, Types, Names, WorkerMoves DEF control

\* Neo4j is written.
LEMMA ApplyStep ==
    ASSUME IInv, NEW w \in Workers, Apply(w)
    PROVE  IInv'
<1> DEFINE new == [worker[w] EXCEPT !.pc = "applied"]
           facts == Projected(worker[w].writer, worker[w].batch, worker[w].view)
<1>1. worker' = [worker EXCEPT ![w] = new]
  BY Zenon DEF Apply
<1>2. /\ graph' = [graph EXCEPT ![worker[w].writer] = facts] /\ worker[w].pc = "loaded"
      /\ UNCHANGED <<store, control, rebuild, bounds>>
  BY DEF Apply
<1>3. new \in Worker /\ new.batch = worker[w].batch
  BY Types DEF Worker
<1>4. graph' \in [Databases -> Facts]
  <2>1. CASE worker[w].writer \in Databases
    <3>1. facts \in Facts
      BY <2>1, ProjectedType, Types DEF IInv, Worker
    <3> HIDE DEF facts
    <3> QED BY <1>2, <3>1, Types
  <2>2. CASE worker[w].writer \notin Databases
    BY <1>2, <2>2, Types
  <2> QED BY <2>1, <2>2
<1> HIDE DEF new, facts
<1>5. worker[w].batch # {} /\ worker[w].batch \subseteq committed
  BY <1>2 DEF IInv, BatchesAreCommitted
<1>6. /\ worker' \in [Workers -> Worker] /\ \A v \in Workers \ {w} : worker'[v] = worker[v]
      /\ worker'[w].batch = worker[w].batch
  BY <1>1, <1>3, Types
<1> QED BY <1>2, <1>4, <1>5, <1>6, Types, Names, WorkerMoves DEF control, bounds

\* The watermark moves only under the worker's own lease.
LEMMA MarkStep ==
    ASSUME IInv, NEW w \in Workers, MarkProcessed(w)
    PROVE  IInv' /\ deployment'.projected >= deployment.projected
<1> DEFINE top == Max(worker[w].batch)
           mark == Greatest(deployment.projected, top)
           asked == IF AllProcessed(delivery') /\ mark >= deployment.desired
                    THEN Greatest(deployment.requested, mark) ELSE deployment.requested
<1>1. worker[w].batch # {} /\ worker[w].batch \subseteq committed
  BY DEF MarkProcessed, IInv, BatchesAreCommitted
<1>2. top \in committed
  BY <1>1, MaxOfIds, Types
<1>3. mark \in Nat /\ mark \in committed \cup {0} /\ mark >= deployment.projected
  BY <1>2, Types, Names DEF Greatest
<1>4. asked \in Nat
  BY <1>3, Types DEF Greatest, Deployment
<1>5. /\ delivery' = [j \in Ids |-> IF j \in worker[w].batch /\ delivery[j].owner = w
                                   THEN Processed ELSE delivery[j]]
      /\ worker' = [worker EXCEPT ![w].pc = "between", ![w].batch = {}, ![w].view = Out.view]
      /\ UNCHANGED <<store, graph, rebuild, bounds>>
  BY DEF MarkProcessed
<1>6. \/ UNCHANGED deployment
      \/ /\ deployment.owner = w
         /\ deployment' = [Released(deployment) EXCEPT !.projected = mark, !.requested = asked]
  BY Types DEF MarkProcessed, Released, Deployment
<1> HIDE DEF top, mark, asked
<1>7. /\ worker' \in [Workers -> Worker] /\ \A v \in Workers \ {w} : worker'[v] = worker[v]
      /\ worker'[w].pc = "between"
  BY <1>5, Types DEF Worker
<1>8. delivery' \in [Ids -> Delivery] /\ \A i \in Ids : delivery'[i].status # "NONE" => i \in committed
  BY <1>1, <1>5, Types DEF Delivery, Processed
<1>9. CASE UNCHANGED deployment
  <2>1. deployment'.projected >= deployment.projected
    BY <1>9, Types DEF Deployment
  <2> QED BY <1>5, <1>7, <1>8, <1>9, <2>1, Types, WorkerMoves DEF bounds
<1>10. CASE deployment' = [Released(deployment) EXCEPT !.projected = mark, !.requested = asked]
  <2>1. /\ deployment' \in Deployment /\ deployment'.owner = Nobody
        /\ deployment'.rebuild = deployment.rebuild /\ deployment'.database = deployment.database
        /\ deployment'.projected = mark
    BY <1>3, <1>4, <1>10, Types DEF Deployment, Released, Holder
  <2> QED BY <1>3, <1>5, <1>7, <1>8, <2>1, Types, Names, WorkerMoves DEF bounds
<1> QED BY <1>6, <1>9, <1>10

-----------------------------------------------------------------------------
(* The rebuild.                                                            *)

\* What a rebuild that is at work relies on.
LEMMA Alone ==
    ASSUME IInv, NEW r \in Rebuilders, ~At(r, "out")
    PROVE  /\ \A q \in Rebuilders \ {r} : At(q, "out")
           /\ deployment.rebuild = "RUNNING"
           /\ rebuild[r].candidate \in Databases \ {deployment.database}
           /\ rebuild[r].mark \in committed \cup {0} /\ rebuild[r].target \in committed \cup {0}
           /\ rebuild[r].pc \in PastSnapshot /\ deployment.owner = r
                  => rebuild[r].mark >= deployment.projected
BY DEF IInv, RebuildIsAlone, MarksCover

\* A step that touches neither the deployment nor the deliveries.
LEMMA RebuildWorks ==
    ASSUME IInv, NEW r \in Rebuilders, ~At(r, "out"), NEW new \in Rebuild,
           rebuild' = [rebuild EXCEPT ![r] = new],
           new.candidate = rebuild[r].candidate,
           new.pc = "write" => new.batch # {} /\ new.batch \subseteq committed,
           new.mark \in committed \cup {0}, new.target \in committed \cup {0},
           new.pc \in PastSnapshot /\ deployment.owner = r => new.mark >= deployment.projected,
           graph' \in [Databases -> Facts],
           UNCHANGED <<store, control, worker, bounds>>
    PROVE  IInv'
<1>1. /\ rebuild' \in [Rebuilders -> Rebuild] /\ rebuild'[r] = new
      /\ \A q \in Rebuilders \ {r} : rebuild'[q] = rebuild[q]
  BY Types
<1> QED BY <1>1, Types, Alone, RebuildMoves DEF control, bounds

\* The candidate is written.
LEMMA CandidateType ==
    ASSUME IInv, NEW db, NEW facts \in Facts, graph' = [graph EXCEPT ![db] = facts]
    PROVE  graph' \in [Databases -> Facts]
BY Types

LEMMA BeginStep ==
    ASSUME IInv, NEW r \in Rebuilders, NEW db \in Databases, Begin(r, db)
    PROVE  IInv'
<1>1. /\ deployment' = [deployment EXCEPT !.rebuild = "RUNNING", !.owner = r, !.leased = TRUE]
      /\ rebuild' = [rebuild EXCEPT ![r].pc = "begun", ![r].candidate = db]
      /\ UNCHANGED <<store, delivery, graph, worker, mishaps>>
      /\ db # deployment.database /\ deployment.rebuild # "RUNNING"
  BY DEF Begin, MayBegin
<1>2. rebuilds' \in 0 .. MaxRebuilds
  BY Types, BoundAssumption DEF Begin
<1>3. \A q \in Rebuilders : At(q, "out")
  BY <1>1 DEF IInv, RebuildIsAlone
<1>4. /\ rebuild' \in [Rebuilders -> Rebuild] /\ \A q \in Rebuilders \ {r} : rebuild'[q] = rebuild[q]
      /\ rebuild'[r].pc = "begun" /\ rebuild'[r].candidate = db
      /\ rebuild'[r].mark = rebuild[r].mark /\ rebuild'[r].target = rebuild[r].target
  BY <1>1, Types DEF Rebuild
<1>5. /\ deployment' \in Deployment /\ deployment'.rebuild = "RUNNING"
      /\ deployment'.database = deployment.database /\ deployment'.projected = deployment.projected
  BY <1>1, Types DEF Deployment, Holder
<1>6. rebuild[r].mark \in committed \cup {0} /\ rebuild[r].target \in committed \cup {0}
  BY DEF IInv, MarksCover
<1> QED
  BY <1>1, <1>2, <1>3, <1>4, <1>5, <1>6, Types, RebuildMoves DEF PastSnapshot

LEMMA ResetStep ==
    ASSUME IInv, NEW r \in Rebuilders, Reset(r)
    PROVE  IInv'
<1> DEFINE new == [rebuild[r] EXCEPT !.pc = "snapshot"]
           empty == [k \in Keys |-> NoFact]
<1>1. rebuild' = [rebuild EXCEPT ![r] = new]
  BY Zenon DEF Reset, Goes
<1>2. /\ rebuild[r].pc = "begun" /\ graph' = [graph EXCEPT ![rebuild[r].candidate] = empty]
      /\ UNCHANGED <<store, control, worker, bounds>>
  BY DEF Reset, At
<1>3. /\ new \in Rebuild /\ new.pc = "snapshot" /\ new.candidate = rebuild[r].candidate
      /\ new.mark = rebuild[r].mark /\ new.target = rebuild[r].target
  BY Types DEF Rebuild
<1>4. empty \in Facts
  BY DEF Facts
<1> HIDE DEF new, empty
<1> QED
  BY <1>1, <1>2, <1>3, <1>4, CandidateType, Alone, RebuildWorks DEF At, PastSnapshot

\* The snapshot's mark covers every committed change, so that no watermark is above it.
LEMMA SnapshotStep ==
    ASSUME IInv, NEW r \in Rebuilders, Snapshot(r)
    PROVE  IInv'
<1> DEFINE new == [rebuild[r] EXCEPT !.pc = "copy", !.view = current, !.mark = MaximumOutbox]
<1>1. rebuild' = [rebuild EXCEPT ![r] = new]
  BY Types DEF Snapshot, SnapshotMark, Rebuild
<1>2. rebuild[r].pc = "snapshot" /\ UNCHANGED <<store, control, graph, worker, bounds>>
  BY DEF Snapshot, At
<1>3. /\ MaximumOutbox \in committed \cup {0} /\ MaximumOutbox \in Nat
      /\ MaximumOutbox >= deployment.projected
  BY Types, MaximumCovers
<1>4. /\ new \in Rebuild /\ new.pc = "copy" /\ new.candidate = rebuild[r].candidate
      /\ new.mark = MaximumOutbox /\ new.target = rebuild[r].target
  BY <1>3, Types DEF Rebuild
<1> HIDE DEF new
<1> QED BY <1>1, <1>2, <1>3, <1>4, Types, Alone, RebuildWorks DEF At

LEMMA CopyStep ==
    ASSUME IInv, NEW r \in Rebuilders, Copy(r)
    PROVE  IInv'
<1> DEFINE db == rebuild[r].candidate
           facts == [k \in Keys |-> IF rebuild[r].view[k] = NoFact THEN graph[db][k] ELSE rebuild[r].view[k]]
           pc == IF rebuild[r].view = Ended.view THEN "target" ELSE "copied"
           new == [rebuild[r] EXCEPT !.view = Ended.view, !.pc = pc]
<1>1. /\ rebuild[r].pc = "copy" /\ UNCHANGED <<store, control, worker, bounds>>
      /\ rebuild' = [rebuild EXCEPT ![r].view = Ended.view, ![r].pc = pc]
  BY DEF Copy, At
<1>2. Ended.view \in Facts /\ pc \in {"target", "copied"}
  BY DEF Ended, Facts
<1>3. graph' = [graph EXCEPT ![db] = facts]
  BY DEF Copy
<1>4. graph' \in [Databases -> Facts]
  <2>1. CASE db \in Databases
    <3>1. facts \in Facts
      BY <2>1, Types DEF Facts, Rebuild
    <3> HIDE DEF facts, db
    <3> QED BY <1>3, <3>1, CandidateType
  <2>2. CASE db \notin Databases
    BY <1>3, <2>2, Types
  <2> QED BY <2>1, <2>2
<1> HIDE DEF pc
<1>5. rebuild' = [rebuild EXCEPT ![r] = new]
  BY <1>1, Types DEF Rebuild
<1>6. /\ new \in Rebuild /\ new.pc = pc /\ new.candidate = rebuild[r].candidate
      /\ new.mark = rebuild[r].mark /\ new.target = rebuild[r].target
  BY <1>2, Types DEF Rebuild
<1> HIDE DEF new, facts
<1> QED
  BY <1>1, <1>2, <1>4, <1>5, <1>6, Alone, RebuildWorks DEF At, PastSnapshot

\* A heartbeat renews the rebuild's own lease only.
LEMMA HeartbeatStep ==
    ASSUME IInv, NEW r \in Rebuilders, Heartbeat(r)
    PROVE  IInv'
<1> DEFINE pc == IF At(r, "copied") THEN "target" ELSE "read"
           new == [rebuild[r] EXCEPT !.pc = pc]
<1>1. rebuild' = [rebuild EXCEPT ![r] = new]
  BY Zenon DEF Heartbeat, Goes
<1>2. /\ rebuild[r].pc \in {"copied", "written"} /\ deployment' = [deployment EXCEPT !.leased = TRUE]
      /\ UNCHANGED <<store, delivery, graph, worker, bounds>>
  BY DEF Heartbeat
<1>3. pc \in {"target", "read"}
  OBVIOUS
<1> HIDE DEF pc
<1>4. /\ new \in Rebuild /\ new.pc = pc /\ new.candidate = rebuild[r].candidate
      /\ new.mark = rebuild[r].mark /\ new.target = rebuild[r].target
  BY <1>3, Types DEF Rebuild
<1> HIDE DEF new
<1>5. /\ deployment' \in Deployment /\ deployment'.rebuild = deployment.rebuild
      /\ deployment'.database = deployment.database
      /\ deployment'.projected = deployment.projected /\ deployment'.owner = deployment.owner
  BY <1>2, Types DEF Deployment
<1>6. /\ rebuild' \in [Rebuilders -> Rebuild] /\ rebuild'[r] = new
      /\ \A q \in Rebuilders \ {r} : rebuild'[q] = rebuild[q]
  BY <1>1, <1>4, Types
<1>7. ~At(r, "out") /\ rebuild[r].pc \in PastSnapshot
  BY <1>2 DEF At, PastSnapshot
<1> QED
  BY <1>2, <1>3, <1>4, <1>5, <1>6, <1>7, Types, Alone, RebuildMoves DEF bounds

LEMMA TargetStep ==
    ASSUME IInv, NEW r \in Rebuilders, Target(r)
    PROVE  IInv'
<1> DEFINE new == [rebuild[r] EXCEPT !.pc = "read", !.target = MaximumOutbox, !.cursor = rebuild[r].mark]
<1>1. rebuild' = [rebuild EXCEPT ![r] = new]
  BY Types DEF Target, Rebuild
<1>2. rebuild[r].pc = "target" /\ UNCHANGED <<store, control, graph, worker, bounds>>
  BY DEF Target, At
<1>3. MaximumOutbox \in committed \cup {0} /\ MaximumOutbox \in Nat
  BY Types, MaximumCovers
<1>4. /\ new \in Rebuild /\ new.pc = "read" /\ new.candidate = rebuild[r].candidate
      /\ new.mark = rebuild[r].mark /\ new.target = MaximumOutbox
  BY <1>3, Types DEF Rebuild
<1> HIDE DEF new
<1> QED BY <1>1, <1>2, <1>3, <1>4, Types, Alone, RebuildWorks DEF At, PastSnapshot

\* A batch of what is left, or the end of the catch-up: the mark rises to the target.
LEMMA ReadStep ==
    ASSUME IInv, NEW r \in Rebuilders, Read(r)
    PROVE  IInv'
<1> DEFINE old == rebuild[r]
           mark == Greatest(old.mark, old.target)
           batch == Lowest(BatchSize, Pending(r))
           done == [old EXCEPT !.pc = "validate", !.mark = mark, !.target = 0, !.cursor = 0]
           more == [old EXCEPT !.pc = "write", !.view = current, !.batch = batch]
<1>1. old.pc = "read" /\ UNCHANGED <<store, control, graph, worker, bounds>> /\ ~At(r, "out")
  BY DEF Read, At
<1>2. old \in Rebuild /\ mark \in Nat /\ mark \in committed \cup {0} /\ mark >= old.mark
  BY <1>1, Types, Alone DEF Rebuild, Greatest
<1>3. CASE Pending(r) = {}
  <2>1. rebuild' = [rebuild EXCEPT ![r].pc = "validate", ![r].mark = mark, ![r].target = 0, ![r].cursor = 0]
    BY <1>3 DEF Read
  <2>2. rebuild' = [rebuild EXCEPT ![r] = done]
    BY <2>1, Types DEF Rebuild
  <2> HIDE DEF mark
  <2>3. /\ done \in Rebuild /\ done.pc = "validate" /\ done.candidate = old.candidate
        /\ done.mark = mark /\ done.target = 0
    BY <1>2 DEF Rebuild
  <2>4. deployment.owner = r => done.mark >= deployment.projected
    <3>1. deployment.owner = r => old.mark >= deployment.projected
      BY <1>1, Alone DEF PastSnapshot
    <3>2. deployment.projected \in Nat /\ old.mark \in Nat
      BY Types DEF Deployment, Rebuild
    <3> HIDE DEF done
    <3> QED BY <1>2, <2>3, <3>1, <3>2
  <2> HIDE DEF done
  <2> QED BY <1>1, <1>2, <2>2, <2>3, <2>4, Types, RebuildWorks
<1>4. CASE Pending(r) # {}
  <2>1. Pending(r) \subseteq committed /\ Pending(r) \subseteq Ids
    BY Types DEF Pending
  <2>2. batch # {} /\ batch \subseteq committed /\ batch \in SUBSET Ids
    BY <1>4, <2>1, LowestNonempty
  <2>3. rebuild' = [rebuild EXCEPT ![r].pc = "write", ![r].view = current, ![r].batch = batch]
    BY <1>4 DEF Read
  <2> HIDE DEF batch
  <2>4. rebuild' = [rebuild EXCEPT ![r] = more]
    BY <2>3, Types DEF Rebuild
  <2>5. /\ more \in Rebuild /\ more.pc = "write" /\ more.candidate = old.candidate
        /\ more.mark = old.mark /\ more.target = old.target /\ more.batch = batch
    BY <1>2, <2>2, Types DEF Rebuild
  <2> HIDE DEF more
  <2> QED BY <1>1, <2>2, <2>4, <2>5, Types, Alone, RebuildWorks DEF PastSnapshot
<1> QED BY <1>3, <1>4

LEMMA WriteStep ==
    ASSUME IInv, NEW r \in Rebuilders, Write(r)
    PROVE  IInv'
<1> DEFINE old == rebuild[r]
           cursor == Max(old.batch)
           facts == Projected(old.candidate, old.batch, old.view)
           new == [old EXCEPT !.pc = "written", !.cursor = cursor, !.batch = {}, !.view = Ended.view]
<1>1. /\ old.pc = "write" /\ UNCHANGED <<store, control, worker, bounds>>
      /\ graph' = [graph EXCEPT ![old.candidate] = facts]
      /\ rebuild' = [rebuild EXCEPT ![r].pc = "written", ![r].cursor = cursor,
                         ![r].batch = {}, ![r].view = Ended.view]
  BY DEF Write, At
<1>2. old.batch # {} /\ old.batch \subseteq committed
  BY <1>1 DEF IInv, BatchesAreCommitted, At
<1>3. cursor \in Nat
  BY <1>2, MaxOfIds, Types, Names
<1>4. Ended.view \in Facts
  BY DEF Ended, Facts
<1>5. graph' \in [Databases -> Facts]
  <2>1. CASE old.candidate \in Databases
    <3>1. facts \in Facts
      BY <2>1, ProjectedType, Types DEF IInv, Rebuild
    <3> HIDE DEF facts
    <3> QED BY <1>1, <3>1, CandidateType
  <2>2. CASE old.candidate \notin Databases
    BY <1>1, <2>2, Types
  <2> QED BY <2>1, <2>2
<1> HIDE DEF cursor, facts
<1>6. rebuild' = [rebuild EXCEPT ![r] = new]
  BY <1>1, Types DEF Rebuild
<1>7. /\ new \in Rebuild /\ new.pc = "written" /\ new.candidate = old.candidate
      /\ new.mark = old.mark /\ new.target = old.target
  BY <1>3, <1>4, Types DEF Rebuild
<1> HIDE DEF new
<1>8. ~At(r, "out") /\ old.pc \in PastSnapshot
  BY <1>1 DEF At, PastSnapshot
<1> QED BY <1>1, <1>5, <1>6, <1>7, <1>8, Alone, RebuildWorks

LEMMA ValidateStep ==
    ASSUME IInv, NEW r \in Rebuilders, Validate(r)
    PROVE  IInv'
<1> DEFINE pc == IF Late(r) THEN "target" ELSE "activate"
           new == [rebuild[r] EXCEPT !.pc = pc]
<1>1. rebuild' = [rebuild EXCEPT ![r] = new]
  BY Zenon DEF Validate, Goes
<1>2. /\ rebuild[r].pc = "validate" /\ UNCHANGED <<store, control, graph, worker, bounds>>
  BY DEF Validate, At
<1>3. pc \in {"target", "activate"}
  OBVIOUS
<1> HIDE DEF pc
<1>4. /\ new \in Rebuild /\ new.pc = pc /\ new.candidate = rebuild[r].candidate
      /\ new.mark = rebuild[r].mark /\ new.target = rebuild[r].target
  BY <1>3, Types DEF Rebuild
<1> HIDE DEF new
<1> QED BY <1>1, <1>2, <1>3, <1>4, Types, Alone, RebuildWorks DEF At, PastSnapshot

\* What a rebuild leaves behind when it ends.
LEMMA EndedType ==
    /\ Ended \in Rebuild /\ Ended.pc = "out" /\ Ended.mark = 0 /\ Ended.target = 0
BY DEF Ended, Rebuild, Facts

LEMMA ActivateStep ==
    ASSUME IInv, NEW r \in Rebuilders, Activate(r)
    PROVE  /\ IInv' /\ deployment'.projected >= deployment.projected
<1> DEFINE asked == Requested(r)
           mark == rebuild[r].mark
           db == rebuild[r].candidate
<1>1. /\ rebuild[r].pc = "activate" /\ deployment.owner = r /\ rebuild' = [rebuild EXCEPT ![r] = Ended]
      /\ deployment' = [Released(deployment) EXCEPT !.database = db,
             !.projected = mark, !.rebuild = "IDLE", !.requested = asked]
      /\ delivery' = [i \in Ids |-> IF i \in Covered(r) THEN Processed ELSE delivery[i]]
      /\ UNCHANGED <<store, graph, worker, bounds>>
  BY DEF Activate, At, Holds
<1>2. ~At(r, "out") /\ rebuild[r].pc \in PastSnapshot
  BY <1>1 DEF At, PastSnapshot
<1>3. mark \in Nat /\ mark \in committed \cup {0} /\ mark >= deployment.projected
  BY <1>1, <1>2, Types, Alone DEF Rebuild
<1>4. asked \in Nat
  BY <1>3, Types DEF Requested, Greatest, Deployment
<1>5. db \in Databases
  BY <1>2, Alone
<1> HIDE DEF asked, mark, db
<1>6. deployment' \in Deployment /\ deployment'.projected = mark
  BY <1>1, <1>3, <1>4, <1>5, Types DEF Deployment, Released, Holder
<1>7. delivery' \in [Ids -> Delivery] /\ \A i \in Ids : delivery'[i].status # "NONE" => i \in committed
  BY <1>1, Types DEF Covered, Processed, Delivery
<1>8. /\ rebuild' \in [Rebuilders -> Rebuild] /\ rebuild'[r] = Ended
      /\ \A q \in Rebuilders \ {r} : rebuild'[q] = rebuild[q]
  BY <1>1, EndedType, Types
<1>9. IInv'
  BY <1>1, <1>2, <1>3, <1>6, <1>7, <1>8, EndedType, Types, Alone, RebuildMoves
     DEF bounds, PastSnapshot
<1> QED BY <1>3, <1>6, <1>9

\* A rebuild that ends otherwise never moves the watermark.
LEMMA FailStep ==
    ASSUME IInv, NEW r \in Rebuilders, Raise(r) \/ RebuildBreaks(r) \/ RebuildCrash(r)
    PROVE  IInv' /\ deployment'.projected = deployment.projected
<1>1. /\ ~At(r, "out") /\ rebuild' = [rebuild EXCEPT ![r] = Ended]
      /\ UNCHANGED <<store, delivery, graph, worker, rebuilds>>
  BY DEF Raise, Refused, RebuildBreaks, RebuildCrash, Fails, At, control, bounds
<1>2. mishaps' \in 0 .. MaxMishaps
  BY Types, BoundAssumption DEF Raise, RebuildBreaks, RebuildCrash
<1>3. deployment' \in {deployment, [Released(deployment) EXCEPT !.rebuild = "FAILED"]}
  BY DEF Raise, RebuildBreaks, RebuildCrash, Fails, control
<1>4. deployment' \in Deployment /\ deployment'.projected = deployment.projected
  BY <1>3, Types DEF Deployment, Released, Holder
<1>5. /\ rebuild' \in [Rebuilders -> Rebuild] /\ rebuild'[r] = Ended
      /\ \A q \in Rebuilders \ {r} : rebuild'[q] = rebuild[q]
  BY <1>1, EndedType, Types
<1>6. IInv'
  BY <1>1, <1>2, <1>4, <1>5, EndedType, Types, Alone, RebuildMoves DEF bounds, PastSnapshot
<1> QED BY <1>4, <1>6

\* A lease that runs out keeps its owner's name.
LEMMA LeaseStep ==
    ASSUME IInv, LeaseExpires
    PROVE  IInv' /\ deployment'.projected = deployment.projected
<1>1. /\ deployment' = [deployment EXCEPT !.leased = FALSE]
      /\ UNCHANGED <<store, delivery, graph, worker, rebuild, rebuilds>>
  BY DEF LeaseExpires
<1>2. mishaps' \in 0 .. MaxMishaps
  BY Types, BoundAssumption DEF LeaseExpires
<1>3. /\ deployment' \in Deployment /\ deployment'.rebuild = deployment.rebuild
      /\ deployment'.database = deployment.database
      /\ deployment'.projected = deployment.projected /\ deployment'.owner = deployment.owner
  BY <1>1, Types DEF Deployment
<1>4. TypeOK'
  BY <1>1, <1>2, <1>3 DEF IInv, TypeOK, store, Allocated
<1> QED
  BY <1>1, <1>3, <1>4 DEF IInv, RebuildIsAlone, BatchesAreCommitted, MarksCover, At, store

-----------------------------------------------------------------------------
(* The theorems.                                                           *)

LEMMA InitHolds == Init => IInv
<1> SUFFICES ASSUME Init PROVE IInv
  OBVIOUS
<1>1. (CHOOSE db \in Databases : TRUE) \in Databases
  BY NamesAssumption
<1>2. /\ committed = {} /\ delivery = [i \in Ids |-> [status |-> "NONE", owner |-> Nobody]]
      /\ rebuild = [r \in Rebuilders |-> Ended] /\ worker = [w \in Workers |-> Out]
      /\ change = [i \in Ids |-> NoChange] /\ current = [k \in Keys |-> NoFact]
      /\ graph = [db \in Databases |-> [k \in Keys |-> NoFact]] /\ rebuilds = 0 /\ mishaps = 0
  BY DEF Init
<1>3. deployment \in Deployment /\ deployment.projected = 0
  BY <1>1 DEF Init, Deployment, Holder
<1>4. Out \in Worker /\ Out.pc = "out"
  BY DEF Out, Worker, Facts
<1>5. NoChange \in [key : Keys \cup {NoKey}, fact : Ids \cup {NoFact}]
  BY DEF NoChange
<1>6. [status |-> "NONE", owner |-> Nobody] \in Delivery
  BY DEF Delivery
<1>7. TypeOK
  BY <1>2, <1>3, <1>4, <1>5, <1>6, EndedType, BoundAssumption DEF TypeOK, Facts
<1> QED
  BY <1>2, <1>3, <1>4, <1>7, EndedType
     DEF IInv, RebuildIsAlone, BatchesAreCommitted, MarksCover, At, PastSnapshot

\* Every step keeps the invariant, and the watermark where it is or raises it.
LEMMA StepHolds ==
    ASSUME IInv, Next
    PROVE  IInv' /\ deployment'.projected >= deployment.projected
<1>0. deployment.projected \in Nat
  BY Types DEF Deployment
<1>1. ASSUME NEW k \in Keys, NEW asserts \in BOOLEAN, BeginPublish(k, asserts)
      PROVE  IInv' /\ deployment'.projected >= deployment.projected
  <2>1. deployment' = deployment
    BY <1>1 DEF BeginPublish, control
  <2> QED BY <1>0, <1>1, <2>1, BeginPublishStep
<1>2. ASSUME NEW i \in Ids, CommitPublish(i) PROVE IInv' /\ deployment'.projected >= deployment.projected
  <2>1. deployment'.projected = deployment.projected
    BY <1>2, Types DEF CommitPublish, Deployment
  <2> QED BY <1>0, <1>2, <2>1, CommitStep
<1>3. ASSUME NEW w \in Workers, Claim(w) \/ Work(w) \/ WorkerCrash(w)
      PROVE  IInv' /\ deployment'.projected >= deployment.projected
  <2>1. CASE Claim(w)
    <3>1. deployment'.projected = deployment.projected
      BY <2>1, Types DEF Claim, Deployment
    <3> QED BY <1>0, <2>1, <3>1, ClaimStep
  <2>2. CASE EndRun(w) \/ Load(w) \/ WorkerCrash(w)
    <3>1. deployment' = deployment
      BY <2>2 DEF EndRun, Load, WorkerCrash, control
    <3> QED BY <1>0, <2>2, <3>1, WorkerStep
  <2>3. CASE Apply(w)
    <3>1. deployment' = deployment
      BY <2>3 DEF Apply, control
    <3> QED BY <1>0, <2>3, <3>1, ApplyStep
  <2>4. CASE MarkProcessed(w)
    BY <2>4, MarkStep
  <2> QED BY <1>3, <2>1, <2>2, <2>3, <2>4 DEF Work
<1>4. ASSUME NEW r \in Rebuilders, NEW db \in Databases, Begin(r, db)
      PROVE  IInv' /\ deployment'.projected >= deployment.projected
  <2>1. deployment'.projected = deployment.projected
    BY <1>4, Types DEF Begin, Deployment
  <2> QED BY <1>0, <1>4, <2>1, BeginStep
<1>5. ASSUME NEW r \in Rebuilders, Step(r) \/ RebuildBreaks(r) \/ RebuildCrash(r)
      PROVE  IInv' /\ deployment'.projected >= deployment.projected
  <2>1. CASE Reset(r) \/ Snapshot(r) \/ Copy(r) \/ Target(r) \/ Read(r) \/ Write(r) \/ Validate(r)
    <3>1. UNCHANGED deployment
      BY <2>1 DEF Reset, Snapshot, Copy, Target, Read, Write, Validate, control
    <3> QED
      BY <1>0, <2>1, <3>1, ResetStep, SnapshotStep, CopyStep, TargetStep, ReadStep, WriteStep, ValidateStep
  <2>2. CASE Heartbeat(r)
    <3>1. deployment'.projected = deployment.projected
      BY <2>2, Types DEF Heartbeat, Deployment
    <3> QED BY <1>0, <2>2, <3>1, HeartbeatStep
  <2>3. CASE Activate(r)
    BY <2>3, ActivateStep
  <2>4. CASE Raise(r) \/ RebuildBreaks(r) \/ RebuildCrash(r)
    BY <1>0, <2>4, FailStep
  <2> QED BY <1>5, <2>1, <2>2, <2>3, <2>4 DEF Step
<1>6. CASE LeaseExpires
  BY <1>0, <1>6, LeaseStep
<1> QED BY <1>1, <1>2, <1>3, <1>4, <1>5, <1>6 DEF Next

LEMMA StutterHolds ==
    ASSUME IInv, UNCHANGED vars
    PROVE  IInv'
BY DEF vars, store, control, bounds, IInv, TypeOK, RebuildIsAlone, BatchesAreCommitted,
       MarksCover, Allocated, At

\* The inductive invariant of the switch (neo4j_rebuild.py, neo4j_project.py): it needs none of
\* what Adversity excludes.
THEOREM RebuildInvariance == Spec => []IInv
BY InitHolds, StepHolds, StutterHolds, PTL DEF Spec

\* The columns of the rebuild's tables keep their types.
THEOREM RebuildTyping == Spec => []TypeOK
BY RebuildInvariance, PTL DEF IInv

\* No two rebuilds are at work, and the one that is writes no database that serves reads, even
\* after its lease has gone to somebody else.
THEOREM RebuildsArePrivate == Spec => []CandidateIsPrivate
<1>1. IInv => CandidateIsPrivate
  BY DEF IInv, RebuildIsAlone, CandidateIsPrivate
<1> QED BY <1>1, RebuildInvariance, PTL

\* The switch and the workers only raise the watermark.
THEOREM WatermarkRises == Spec => WatermarkNeverFallsBack
<1>1. IInv /\ [Next]_vars => [deployment'.projected >= deployment.projected]_vars
  BY StepHolds
<1> QED BY <1>1, RebuildInvariance, PTL DEF Spec, WatermarkNeverFallsBack

-----------------------------------------------------------------------------
(* What the served graph and the candidate show, while nothing overlaps or *)
(* straggles.                                                              *)

\* The committed changes of a key.
Of(k) == {i \in committed : change[i].key = k}

\* Ids are allocated one publication after the other, and committed in their order.
PublishInOrder ==
    /\ \A i \in Allocated : \A j \in Ids \ Allocated : i < j
    /\ \A i \in Open : \A j \in committed : j < i
    /\ \A i, j \in Open : i = j
    /\ \A i \in Allocated : change[i].key \in Keys /\ change[i].fact \in {i, NoFact}
    /\ deployment.desired \in committed \cup {0}
    /\ \A i \in committed : i <= deployment.desired

\* A key's current fact is that of its last committed change.
CurrentIsLast ==
    \A k \in Keys : \/ Of(k) = {} /\ current[k] = NoFact
                    \/ \E i \in Of(k) : current[k] = change[i].fact /\ \A j \in Of(k) : j <= i

StoreInOrder == PublishInOrder /\ CurrentIsLast

\* A worker that has a batch has the lease, and writes the database that serves.
WorkersHoldTheLease ==
    \A w \in Workers :
        /\ worker[w].batch # {} <=> worker[w].pc \in {"claimed", "loaded", "applied"}
        /\ worker[w].batch # {} => deployment.owner = w /\ deployment.leased
        /\ worker[w].pc = "out" => worker[w].writer = NoDatabase
        /\ worker[w].pc # "out" => worker[w].writer = deployment.database

\* Its batch is the oldest part of what is left.
BatchIsOldest ==
    \A w \in Workers : \A i \in worker[w].batch :
        /\ delivery[i].status = "PROCESSING" /\ delivery[i].owner = w
        /\ \A j \in Undone \ worker[w].batch : i < j

\* The watermark divides the processed deliveries from the others.
WatermarkDivides ==
    \A i \in committed : /\ delivery[i].status # "NONE"
                         /\ delivery[i].status = "PROCESSED" <=> i <= deployment.projected

CatchUpIsRequested ==
    AllProcessed(delivery) => \A i \in committed : i <= deployment.requested

QueueIsOrdered == WorkersHoldTheLease /\ BatchIsOldest /\ WatermarkDivides /\ CatchUpIsRequested

\* No delivery but those of done is owed to the key.
Clean(k, done) == \A i \in Undone \ done : change[i].key # k
ShowsCurrent(k) == graph[deployment.database][k] = current[k]

\* What a worker has read is current, except where a change came in since.
ReadsAreCurrent ==
    \A w \in Workers : worker[w].pc = "loaded" =>
        \A k \in Keys : Clean(k, worker[w].batch) => worker[w].view[k] = current[k]

\* The database that serves shows the current fact of each key that is owed nothing; after
\* the Neo4j commit that includes the keys of the batch.
CleanIsCurrent == \A k \in Keys : Clean(k, {}) => ShowsCurrent(k)
AppliedIsCurrent ==
    \A w \in Workers : worker[w].pc = "applied" =>
        \A k \in Keys : Clean(k, worker[w].batch) => ShowsCurrent(k)

ServedFollows == ReadsAreCurrent /\ CleanIsCurrent /\ AppliedIsCurrent

\* Facts are those at a mark: current, except for keys that changed after it.
Follows(facts, mark) == \A k \in Keys : (\A i \in Of(k) : i <= mark) => facts[k] = current[k]

\* A batch of the catch-up is all that comes after the cursor, up to the batch's last id, and
\* what was read with it is current except for keys that changed since.
BatchFollows(b) ==
    /\ \A i \in b.batch : b.cursor < i
    /\ \A i \in b.batch : \A j \in committed \ b.batch : b.cursor < j => i < j
    /\ \A k \in Keys : b.view[k] = current[k] \/ \E j \in Of(k) : \A i \in b.batch : i < j

\* How far the candidate is at each step of the rebuild, whoever holds the lease.
RebuildFollows(b, facts) ==
    /\ b.cursor \in committed \cup {0}
    /\ b.pc \in {"snapshot", "copy"} => \A k \in Keys : facts[k] = NoFact
    /\ b.pc = "copy" => Follows(b.view, b.mark)
    /\ b.pc \in {"copied", "target", "validate", "activate"} => Follows(facts, b.mark)
    /\ b.pc \in {"read", "write", "written"} => Follows(facts, b.cursor) /\ b.mark <= b.cursor
    /\ b.pc = "write" => BatchFollows(b)

CandidateFollows ==
    \A r \in Rebuilders : RebuildFollows(rebuild[r], graph[rebuild[r].candidate])

SyncInv == StoreInOrder /\ QueueIsOrdered /\ ServedFollows /\ CandidateFollows

LEMMA Fields ==
    ASSUME TypeOK
    PROVE  /\ deployment.desired \in Nat /\ deployment.projected \in Nat
           /\ deployment.requested \in Nat /\ deployment.database \in Databases
           /\ \A i \in Ids : i \in Nat /\ i > 0
           /\ committed \subseteq Allocated /\ Allocated \subseteq Ids
           /\ \A i \in Ids : change[i].fact \in Ids \cup {NoFact}
           /\ \A w \in Workers : worker[w].batch \in SUBSET Ids /\ worker[w].view \in Facts
           /\ \A r \in Rebuilders : /\ rebuild[r].mark \in Nat /\ rebuild[r].cursor \in Nat
                                    /\ rebuild[r].target \in Nat /\ rebuild[r].view \in Facts
                                    /\ rebuild[r].batch \in SUBSET Ids
<1>1. \A i \in Ids : i \in Nat /\ i > 0
  BY Names
<1>2. committed \subseteq Allocated /\ Allocated \subseteq Ids
  BY DEF TypeOK, Allocated
<1>3. deployment \in Deployment /\ worker \in [Workers -> Worker] /\ rebuild \in [Rebuilders -> Rebuild]
  BY DEF TypeOK
<1> QED BY <1>1, <1>2, <1>3 DEF TypeOK, Deployment, Worker, Rebuild

\* The effects of the actions, field by field.
LEMMA BeginPublishEffect ==
    ASSUME IInv, NEW k \in Keys, NEW asserts \in BOOLEAN, BeginPublish(k, asserts)
    PROVE  \E i \in Ids \ Allocated :
               /\ \A j \in Ids \ Allocated : i <= j
               /\ Allocated' = Allocated \cup {i}
               /\ \A j \in Ids \ {i} : change'[j] = change[j]
               /\ change'[i].key = k /\ change'[i].fact \in {i, NoFact}
               /\ UNCHANGED <<committed, current, control, graph, worker, rebuild, bounds>>
<1> DEFINE i == Min(Ids \ Allocated)
           new == [key |-> k, fact |-> IF asserts THEN i ELSE NoFact]
<1>1. Ids \ Allocated # {} /\ Ids \ Allocated \subseteq 1 .. MaxOutbox
  BY Names DEF BeginPublish, Allocated
<1>2. i \in Ids \ Allocated /\ \A j \in Ids \ Allocated : i <= j
  BY <1>1, MinOfRows, Names
<1>3. change' = [change EXCEPT ![i] = new] /\ change \in [Ids -> [key : Keys \cup {NoKey}, fact : Ids \cup {NoFact}]]
  BY DEF BeginPublish, IInv, TypeOK
<1>4. UNCHANGED <<committed, current, control, graph, worker, rebuild, bounds>>
  BY DEF BeginPublish
<1> HIDE DEF i
<1>5. new.key = k /\ new.fact \in {i, NoFact} /\ new # NoChange
  BY Names DEF NoChange
<1> HIDE DEF new
<1>6. change'[i] = new /\ \A j \in Ids \ {i} : change'[j] = change[j]
  BY <1>2, <1>3
<1>7. Allocated' = Allocated \cup {i}
  BY <1>2, <1>5, <1>6 DEF Allocated
<1> QED BY <1>2, <1>4, <1>5, <1>6, <1>7

LEMMA CommitEffect ==
    ASSUME IInv, StoreInOrder, NEW i \in Ids, CommitPublish(i)
    PROVE  /\ i \in Allocated /\ i \notin committed /\ change[i].key \in Keys
           /\ committed' = committed \cup {i} /\ Allocated' = Allocated
           /\ \A j \in committed : j < i
           /\ \A k \in Keys : current'[k] = IF k = change[i].key THEN change[i].fact ELSE current[k]
           /\ \A j \in Ids : /\ delivery'[j].owner = delivery[j].owner
                             /\ delivery'[j].status = IF j = i THEN "PENDING" ELSE delivery[j].status
           /\ deployment'.desired = i
           /\ deployment'.projected = deployment.projected
           /\ deployment'.requested = deployment.requested
           /\ deployment'.database = deployment.database
           /\ deployment'.owner = deployment.owner /\ deployment'.leased = deployment.leased
           /\ UNCHANGED <<change, graph, worker, rebuild>>
<1>1. /\ committed' = committed \cup {i} /\ i \in Open
      /\ current' = [current EXCEPT ![change[i].key] = change[i].fact]
      /\ delivery' = [delivery EXCEPT ![i].status = "PENDING"]
      /\ deployment' = [deployment EXCEPT !.desired = Greatest(deployment.desired, i)]
      /\ UNCHANGED <<change, graph, worker, rebuild, bounds>>
  BY DEF CommitPublish
<1>2. i \in Allocated /\ i \notin committed /\ change[i].key \in Keys /\ \A j \in committed : j < i
  BY <1>1 DEF Open, StoreInOrder, PublishInOrder
<1>3. \A k \in Keys : current'[k] = IF k = change[i].key THEN change[i].fact ELSE current[k]
  BY <1>1, <1>2, Types DEF Facts
<1>4. \A j \in Ids : /\ delivery'[j].owner = delivery[j].owner
                     /\ delivery'[j].status = IF j = i THEN "PENDING" ELSE delivery[j].status
  BY <1>1, Types DEF Delivery
<1>5. Greatest(deployment.desired, i) = i
  <2>1. deployment.desired \in Nat /\ i \in Nat /\ i > 0
    BY Fields DEF IInv
  <2>2. deployment.desired < i
    BY <1>2, <2>1 DEF StoreInOrder, PublishInOrder
  <2> QED BY <2>1, <2>2 DEF Greatest
<1>6. deployment' = [deployment EXCEPT !.desired = i]
  BY <1>1, <1>5
<1>7. /\ deployment'.desired = i
      /\ deployment'.projected = deployment.projected /\ deployment'.requested = deployment.requested
      /\ deployment'.database = deployment.database
      /\ deployment'.owner = deployment.owner /\ deployment'.leased = deployment.leased
  BY <1>6, Types DEF Deployment
<1> QED BY <1>1, <1>2, <1>3, <1>4, <1>7 DEF Allocated

\* Nothing but publications touches the store.
StoreKept == UNCHANGED store /\ deployment'.desired = deployment.desired

LEMMA StoreKeptKeeps ==
    ASSUME StoreInOrder, StoreKept
    PROVE  StoreInOrder'
BY DEF StoreKept, StoreInOrder, PublishInOrder, CurrentIsLast, Open, Allocated, Of, store

LEMMA BeginPublishOrders ==
    ASSUME IInv, StoreInOrder, "overlap" \notin Adversity,
           NEW k \in Keys, NEW asserts \in BOOLEAN, BeginPublish(k, asserts)
    PROVE  StoreInOrder'
<1>1. PICK i \in Ids \ Allocated :
               /\ \A j \in Ids \ Allocated : i <= j
               /\ Allocated' = Allocated \cup {i}
               /\ \A j \in Ids \ {i} : change'[j] = change[j]
               /\ change'[i].key = k /\ change'[i].fact \in {i, NoFact}
               /\ UNCHANGED <<committed, current, control, graph, worker, rebuild, bounds>>
  BY BeginPublishEffect
<1>2. Open = {} /\ committed = Allocated
  BY Fields DEF BeginPublish, Open, IInv
<1>3. \A j \in Ids : j \in Nat
  BY Fields DEF IInv
<1>4. Open' = {i}
  BY <1>1, <1>2 DEF Open
<1>5. \A a \in Allocated' : \A j \in Ids \ Allocated' : a < j
  BY <1>1, <1>3, Fields DEF StoreInOrder, PublishInOrder, IInv
<1>6. \A j \in committed : j < i
  BY <1>1, <1>2 DEF StoreInOrder, PublishInOrder
<1>7. \A a \in Allocated' : change'[a].key \in Keys /\ change'[a].fact \in {a, NoFact}
  BY <1>1, Fields DEF StoreInOrder, PublishInOrder, IInv
<1>8. deployment' = deployment /\ committed' = committed /\ current' = current
  BY <1>1 DEF control
<1>9. PublishInOrder'
  BY <1>4, <1>5, <1>6, <1>7, <1>8 DEF StoreInOrder, PublishInOrder
<1>10. \A a \in committed : change'[a] = change[a]
  BY <1>1, Fields DEF IInv
<1>11. \A key \in Keys : Of(key)' = Of(key)
  BY <1>8, <1>10 DEF Of
<1>12. CurrentIsLast'
  <2> SUFFICES ASSUME NEW key \in Keys
               PROVE  \/ Of(key)' = {} /\ current'[key] = NoFact
                      \/ \E a \in Of(key)' : current'[key] = change'[a].fact /\ \A j \in Of(key)' : j <= a
    BY DEF CurrentIsLast
  <2>1. CASE Of(key) = {} /\ current[key] = NoFact
    BY <1>8, <1>11, <2>1
  <2>2. CASE \E a \in Of(key) : current[key] = change[a].fact /\ \A j \in Of(key) : j <= a
    <3>1. PICK a \in Of(key) : current[key] = change[a].fact /\ \A j \in Of(key) : j <= a
      BY <2>2
    <3>2. change'[a] = change[a]
      BY <1>10, <3>1 DEF Of
    <3> QED BY <1>8, <1>11, <3>1, <3>2
  <2> QED BY <2>1, <2>2 DEF StoreInOrder, CurrentIsLast
<1> QED BY <1>9, <1>12 DEF StoreInOrder

LEMMA CommitOrders ==
    ASSUME IInv, StoreInOrder, NEW i \in Ids, CommitPublish(i)
    PROVE  StoreInOrder'
<1>1. /\ i \in Allocated /\ i \notin committed /\ change[i].key \in Keys
      /\ committed' = committed \cup {i} /\ Allocated' = Allocated
      /\ \A j \in committed : j < i
      /\ \A k \in Keys : current'[k] = IF k = change[i].key THEN change[i].fact ELSE current[k]
      /\ deployment'.desired = i /\ change' = change
  BY CommitEffect
<1>2. \A j \in committed \cup {i} : j \in Nat /\ j <= i
  BY <1>1, Fields DEF IInv
<1>3. Open' = Open \ {i} /\ i \in Open
  BY <1>1 DEF Open
<1>4. Open' = {}
  BY <1>3 DEF StoreInOrder, PublishInOrder
<1>5. PublishInOrder'
  BY <1>1, <1>2, <1>4 DEF StoreInOrder, PublishInOrder
<1>6. \A k \in Keys : Of(k)' = Of(k) \cup {j \in {i} : change[i].key = k}
  BY <1>1 DEF Of
<1>7. CurrentIsLast'
  <2> SUFFICES ASSUME NEW k \in Keys
               PROVE  \/ Of(k)' = {} /\ current'[k] = NoFact
                      \/ \E a \in Of(k)' : current'[k] = change'[a].fact /\ \A j \in Of(k)' : j <= a
    BY DEF CurrentIsLast
  <2>1. CASE change[i].key = k
    <3>1. i \in Of(k)' /\ current'[k] = change'[i].fact
      BY <1>1, <1>6, <2>1
    <3>2. \A j \in Of(k)' : j <= i
      BY <1>1, <1>2 DEF Of
    <3> QED BY <3>1, <3>2
  <2>2. CASE change[i].key # k
    <3>1. Of(k)' = Of(k) /\ current'[k] = current[k]
      BY <1>1, <1>6, <2>2
    <3> QED BY <1>1, <3>1 DEF StoreInOrder, CurrentIsLast
  <2> QED BY <2>1, <2>2
<1> QED BY <1>5, <1>7 DEF StoreInOrder

-----------------------------------------------------------------------------
(* Effects of the worker's and the rebuild's steps.                        *)

\* The lowest n of a set leave no gap below.
LEMMA LowestFirst ==
    ASSUME NEW S, S \subseteq Ids, NEW x \in Lowest(BatchSize, S), NEW y \in S \ Lowest(BatchSize, S)
    PROVE  x < y
<1> DEFINE below(z) == {j \in S : j < z}
<1>1. \A z \in S : z \in Int
  BY Names
<1>2. x \in S /\ y \in S
  BY DEF Lowest
<1>3. SUFFICES ASSUME y <= x PROVE FALSE
  BY <1>1, <1>2
<1>4. IsFiniteSet(below(x)) /\ below(y) \subseteq below(x)
  <2>1. IsFiniteSet(Ids)
    BY FS_Interval, Names
  <2>2. below(x) \subseteq Ids
    OBVIOUS
  <2>3. IsFiniteSet(below(x))
    BY <2>1, <2>2, FS_Subset
  <2>4. \A z \in S : z < y => z < x
    BY <1>1, <1>2, <1>3
  <2> QED BY <2>3, <2>4
<1>5. /\ Cardinality(below(y)) <= Cardinality(below(x))
      /\ Cardinality(below(y)) \in Nat /\ Cardinality(below(x)) \in Nat
  BY <1>4, FS_Subset, FS_CardinalityType
<1>6. Cardinality(below(x)) < BatchSize /\ BatchSize \in Nat
  BY BatchAssumption DEF Lowest
<1>7. Cardinality(below(y)) < BatchSize
  BY <1>5, <1>6
<1> QED BY <1>2, <1>7 DEF Lowest

LEMMA ClaimEffect ==
    ASSUME IInv, NEW w \in Workers, Claim(w)
    PROVE  \E batch \in SUBSET Undone :
               /\ batch # {} /\ \A i \in batch : \A j \in Undone \ batch : i < j
               /\ ~deployment.leased /\ worker[w].pc \in {"out", "between"}
               /\ \A i \in Ids : /\ i \in batch => /\ delivery'[i].status = "PROCESSING"
                                                   /\ delivery'[i].owner = w
                                 /\ i \notin batch => delivery'[i] = delivery[i]
               /\ worker'[w].pc = "claimed" /\ worker'[w].batch = batch
               /\ worker'[w].writer = IF worker[w].writer = NoDatabase THEN deployment.database
                                      ELSE worker[w].writer
               /\ \A v \in Workers \ {w} : worker'[v] = worker[v]
               /\ deployment'.owner = w /\ deployment'.leased
               /\ deployment'.database = deployment.database
               /\ deployment'.projected = deployment.projected
               /\ deployment'.desired = deployment.desired
               /\ deployment'.requested = deployment.requested
               /\ UNCHANGED <<store, graph, rebuild>>
<1> DEFINE batch == Lowest(BatchSize, Undone)
           db == IF worker[w].writer = NoDatabase THEN deployment.database ELSE worker[w].writer
<1>1. Undone # {} /\ Undone \subseteq Ids
  BY DEF Claim, DeploymentReady, Undone
<1>2. batch # {} /\ batch \subseteq Undone /\ \A i \in batch : \A j \in Undone \ batch : i < j
  BY <1>1, LowestNonempty, LowestFirst
<1>3. /\ delivery' = [j \in Ids |-> IF j \in batch THEN [status |-> "PROCESSING", owner |-> w] ELSE delivery[j]]
      /\ worker' = [worker EXCEPT ![w].pc = "claimed", ![w].batch = batch, ![w].writer = db]
      /\ deployment' = [deployment EXCEPT !.owner = w, !.leased = TRUE]
      /\ UNCHANGED <<store, graph, rebuild, bounds>>
      /\ ~deployment.leased /\ worker[w].pc \in {"out", "between"}
  BY Types DEF Claim, DeploymentReady
<1> HIDE DEF batch
<1>4. /\ worker'[w].pc = "claimed" /\ worker'[w].batch = batch /\ worker'[w].writer = db
      /\ \A v \in Workers \ {w} : worker'[v] = worker[v]
  BY <1>3, Types DEF Worker
<1>5. /\ deployment'.owner = w /\ deployment'.leased
      /\ deployment'.database = deployment.database /\ deployment'.projected = deployment.projected
      /\ deployment'.desired = deployment.desired /\ deployment'.requested = deployment.requested
  BY <1>3, Types DEF Deployment
<1>6. \A i \in Ids : /\ i \in batch => delivery'[i].status = "PROCESSING" /\ delivery'[i].owner = w
                     /\ i \notin batch => delivery'[i] = delivery[i]
  BY <1>3
<1> QED BY <1>2, <1>3, <1>4, <1>5, <1>6

\* The steps of a worker that change nothing but itself and Neo4j.
LEMMA WorkEffect ==
    ASSUME IInv, NEW w \in Workers, EndRun(w) \/ Load(w) \/ Apply(w) \/ WorkerCrash(w)
    PROVE  /\ UNCHANGED <<store, control, rebuild>>
           /\ \A v \in Workers \ {w} : worker'[v] = worker[v]
           /\ \/ worker'[w] = Out /\ graph' = graph
              \/ /\ worker[w].pc = "claimed" /\ worker'[w].pc = "loaded" /\ graph' = graph
                 /\ worker'[w].batch = worker[w].batch /\ worker'[w].writer = worker[w].writer
                 /\ worker'[w].view = current
              \/ /\ worker[w].pc = "loaded" /\ worker'[w].pc = "applied"
                 /\ worker'[w].batch = worker[w].batch /\ worker'[w].writer = worker[w].writer
                 /\ graph' = [graph EXCEPT ![worker[w].writer] =
                                  Projected(worker[w].writer, worker[w].batch, worker[w].view)]
<1>1. UNCHANGED <<store, control, rebuild>>
  BY DEF EndRun, Load, Apply, WorkerCrash
<1>2. CASE EndRun(w) \/ WorkerCrash(w)
  BY <1>1, <1>2, Types DEF EndRun, WorkerCrash
<1>3. CASE Load(w)
  <2>1. /\ worker' = [worker EXCEPT ![w].pc = "loaded", ![w].view = current]
        /\ worker[w].pc = "claimed" /\ graph' = graph
    BY <1>3 DEF Load
  <2> QED BY <1>1, <2>1, Types DEF Worker
<1>4. CASE Apply(w)
  <2>1. /\ worker' = [worker EXCEPT ![w].pc = "applied"]
        /\ worker[w].pc = "loaded"
        /\ graph' = [graph EXCEPT ![worker[w].writer] =
                                  Projected(worker[w].writer, worker[w].batch, worker[w].view)]
    BY <1>4 DEF Apply
  <2>2. /\ worker'[w].pc = "applied" /\ worker'[w].batch = worker[w].batch
        /\ worker'[w].writer = worker[w].writer /\ \A v \in Workers \ {w} : worker'[v] = worker[v]
    BY <2>1, Types DEF Worker
  <2> QED BY <1>1, <2>1, <2>2
<1> QED BY <1>2, <1>3, <1>4

LEMMA MarkEffect ==
    ASSUME IInv, QueueIsOrdered, NEW w \in Workers, MarkProcessed(w)
    PROVE  /\ worker[w].pc = "applied" /\ worker[w].batch # {} /\ worker[w].batch \subseteq committed
           /\ deployment.owner = w
           /\ \A i \in Ids : /\ i \in worker[w].batch => delivery'[i].status = "PROCESSED"
                             /\ i \notin worker[w].batch => delivery'[i] = delivery[i]
           /\ worker'[w].pc = "between" /\ worker'[w].batch = {} /\ worker'[w].writer = worker[w].writer
           /\ \A v \in Workers \ {w} : worker'[v] = worker[v]
           /\ LET mark == Greatest(deployment.projected, Max(worker[w].batch))
              IN  /\ deployment'.projected = mark
                  /\ deployment'.requested =
                        IF AllProcessed(delivery') /\ mark >= deployment.desired
                        THEN Greatest(deployment.requested, mark) ELSE deployment.requested
           /\ deployment'.database = deployment.database /\ deployment'.desired = deployment.desired
           /\ UNCHANGED <<store, graph, rebuild>>
<1> DEFINE batch == worker[w].batch
           mark == Greatest(deployment.projected, Max(batch))
           asked == IF AllProcessed(delivery') /\ mark >= deployment.desired
                    THEN Greatest(deployment.requested, mark) ELSE deployment.requested
<1>1. worker[w].pc = "applied"
  BY DEF MarkProcessed
<1>2. batch # {} /\ batch \subseteq committed
  BY <1>1 DEF IInv, BatchesAreCommitted
<1>3. deployment.owner = w /\ \A i \in batch : delivery[i].owner = w
  BY <1>2 DEF QueueIsOrdered, WorkersHoldTheLease, BatchIsOldest
<1>4. /\ delivery' = [j \in Ids |-> IF j \in batch /\ delivery[j].owner = w THEN Processed ELSE delivery[j]]
      /\ worker' = [worker EXCEPT ![w].pc = "between", ![w].batch = {}, ![w].view = Out.view]
      /\ UNCHANGED <<store, graph, rebuild, bounds>>
  BY DEF MarkProcessed
<1>5. deployment' = [Released(deployment) EXCEPT !.projected = mark, !.requested = asked]
  BY <1>3, Types DEF MarkProcessed, Released, Deployment
<1> HIDE DEF mark, asked
<1>6. /\ deployment'.projected = mark /\ deployment'.requested = asked
      /\ deployment'.database = deployment.database /\ deployment'.desired = deployment.desired
  BY <1>5, Types DEF Deployment, Released
<1>7. \A i \in Ids : /\ i \in batch => delivery'[i].status = "PROCESSED"
                     /\ i \notin batch => delivery'[i] = delivery[i]
  BY <1>3, <1>4 DEF Processed
<1>8. /\ worker'[w].pc = "between" /\ worker'[w].batch = {} /\ worker'[w].writer = worker[w].writer
      /\ \A v \in Workers \ {w} : worker'[v] = worker[v]
  BY <1>4, Types DEF Worker
<1> QED BY <1>1, <1>2, <1>3, <1>4, <1>6, <1>7, <1>8 DEF mark, asked

LEMMA ActivateEffect ==
    ASSUME IInv, NEW r \in Rebuilders, Activate(r), "straggle" \notin Adversity
    PROVE  /\ rebuild[r].pc = "activate" /\ deployment.owner = r
           /\ rebuild[r].mark >= deployment.projected
           /\ rebuild[r].candidate \in Databases \ {deployment.database}
           /\ \A w \in Workers : worker[w].pc = "out" \/ worker[w].writer = rebuild[r].candidate
           /\ \A i \in Ids : IF delivery[i].status # "NONE" /\ i <= rebuild[r].mark
                             THEN delivery'[i].status = "PROCESSED" ELSE delivery'[i] = delivery[i]
           /\ rebuild'[r] = Ended /\ \A q \in Rebuilders \ {r} : rebuild'[q] = rebuild[q]
           /\ deployment'.database = rebuild[r].candidate
           /\ deployment'.projected = rebuild[r].mark
           /\ deployment'.requested = Greatest(deployment.requested, rebuild[r].mark)
           /\ deployment'.desired = deployment.desired
           /\ UNCHANGED <<store, graph, worker>>
<1> DEFINE asked == Requested(r)
<1>1. /\ rebuild[r].pc = "activate" /\ deployment.owner = r /\ rebuild' = [rebuild EXCEPT ![r] = Ended]
      /\ deployment' = [Released(deployment) EXCEPT !.database = rebuild[r].candidate,
             !.projected = rebuild[r].mark, !.rebuild = "IDLE", !.requested = asked]
      /\ delivery' = [i \in Ids |-> IF i \in Covered(r) THEN Processed ELSE delivery[i]]
      /\ UNCHANGED <<store, graph, worker, bounds>>
      /\ \A w \in Workers : ~Lingering(w, rebuild[r].candidate)
  BY DEF Activate, At, Holds
<1>2. ~At(r, "out") /\ rebuild[r].pc \in PastSnapshot
  BY <1>1 DEF At, PastSnapshot
<1>3. rebuild[r].mark >= deployment.projected /\ rebuild[r].candidate \in Databases \ {deployment.database}
  BY <1>1, <1>2, Alone
<1>4. rebuild'[r] = Ended /\ \A q \in Rebuilders \ {r} : rebuild'[q] = rebuild[q]
  BY <1>1, EndedType, Types
<1>5. \A i \in Ids : IF delivery[i].status # "NONE" /\ i <= rebuild[r].mark
                     THEN delivery'[i].status = "PROCESSED" ELSE delivery'[i] = delivery[i]
  BY <1>1 DEF Covered, Processed
<1>6. asked = Greatest(deployment.requested, rebuild[r].mark)
  BY DEF Requested
<1> HIDE DEF asked
<1>7. /\ deployment'.database = rebuild[r].candidate
      /\ deployment'.projected = rebuild[r].mark
      /\ deployment'.requested = asked /\ deployment'.desired = deployment.desired
  BY <1>1, Types DEF Deployment, Released
<1>8. \A w \in Workers : worker[w].pc = "out" \/ worker[w].writer = rebuild[r].candidate
  BY <1>1 DEF Lingering
<1> QED BY <1>1, <1>3, <1>4, <1>5, <1>6, <1>7, <1>8

\* What a rebuild does before it switches, and the clock, leaves the served graph, the queue
\* and the lease of a busy worker alone.
Aside ==
    /\ UNCHANGED <<store, delivery, worker>>
    /\ graph'[deployment.database] = graph[deployment.database]
    /\ deployment'.database = deployment.database /\ deployment'.projected = deployment.projected
    /\ deployment'.desired = deployment.desired /\ deployment'.requested = deployment.requested
    /\ \A w \in Workers : worker[w].batch # {} /\ deployment.owner = w /\ deployment.leased
           => deployment'.owner = w /\ deployment'.leased

LEMMA RebuildIsAside ==
    ASSUME IInv, NEW r \in Rebuilders,
           \/ \E db \in Databases : Begin(r, db)
           \/ Reset(r) \/ Snapshot(r) \/ Copy(r) \/ Heartbeat(r) \/ Target(r) \/ Read(r) \/ Write(r)
           \/ Validate(r) \/ Raise(r) \/ RebuildBreaks(r) \/ RebuildCrash(r)
    PROVE  Aside
<1>1. CASE \E db \in Databases : Begin(r, db)
  <2>1. /\ deployment' = [deployment EXCEPT !.rebuild = "RUNNING", !.owner = r, !.leased = TRUE]
        /\ UNCHANGED <<store, delivery, graph, worker, mishaps>> /\ ~deployment.leased
    BY <1>1 DEF Begin, MayBegin
  <2>2. /\ deployment'.database = deployment.database /\ deployment'.projected = deployment.projected
        /\ deployment'.desired = deployment.desired /\ deployment'.requested = deployment.requested
    BY <2>1, Types DEF Deployment
  <2> QED BY <2>1, <2>2 DEF Aside
<1>2. CASE Reset(r) \/ Copy(r) \/ Write(r)
  <2>1. UNCHANGED <<store, control, worker>> /\ ~At(r, "out")
    BY <1>2 DEF Reset, Copy, Write, At
  <2>2. rebuild[r].candidate # deployment.database
    BY <2>1, Alone
  <2>3. \A db \in Databases \ {rebuild[r].candidate} : graph'[db] = graph[db]
    BY <1>2, Types DEF Reset, Copy, Write
  <2>4. deployment.database \in Databases
    BY Fields DEF IInv
  <2> QED BY <2>1, <2>2, <2>3, <2>4 DEF Aside, control
<1>3. CASE Snapshot(r) \/ Target(r) \/ Read(r) \/ Validate(r) \/ RebuildCrash(r)
  <2>1. UNCHANGED <<store, control, graph, worker>>
    BY <1>3 DEF Snapshot, Target, Read, Validate, RebuildCrash
  <2> QED BY <2>1 DEF Aside, control
<1>4. CASE Heartbeat(r)
  <2>1. /\ deployment' = [deployment EXCEPT !.leased = TRUE]
        /\ UNCHANGED <<store, delivery, graph, worker>>
    BY <1>4 DEF Heartbeat
  <2>2. /\ deployment'.database = deployment.database /\ deployment'.projected = deployment.projected
        /\ deployment'.desired = deployment.desired /\ deployment'.requested = deployment.requested
        /\ deployment'.leased /\ deployment'.owner = deployment.owner
    BY <2>1, Types DEF Deployment
  <2> QED BY <2>1, <2>2 DEF Aside
<1>5. CASE Raise(r) \/ RebuildBreaks(r)
  <2>1. Fails(r)
    BY <1>5 DEF Raise, RebuildBreaks
  <2>2. UNCHANGED <<store, delivery, graph, worker>>
    BY <2>1 DEF Fails
  <2>3. CASE deployment.owner # r
    BY <2>1, <2>2, <2>3 DEF Fails, Aside
  <2>4. CASE deployment.owner = r
    <3>1. deployment' = [Released(deployment) EXCEPT !.rebuild = "FAILED"]
      BY <2>1, <2>4 DEF Fails
    <3>2. /\ deployment'.database = deployment.database /\ deployment'.projected = deployment.projected
          /\ deployment'.desired = deployment.desired /\ deployment'.requested = deployment.requested
      BY <3>1, Types DEF Deployment, Released
    <3> QED BY <2>2, <2>4, <3>2, Names DEF Aside
  <2> QED BY <2>3, <2>4
<1> QED BY <1>1, <1>2, <1>3, <1>4, <1>5

LEMMA ExpiryIsAside ==
    ASSUME IInv, LeaseExpires, "straggle" \notin Adversity
    PROVE  Aside
<1>1. /\ deployment' = [deployment EXCEPT !.leased = FALSE]
      /\ UNCHANGED <<store, delivery, graph, worker, rebuild, rebuilds>>
      /\ ~ \E w \in Workers : deployment.owner = w /\ worker[w].batch # {}
  BY DEF LeaseExpires
<1>2. /\ deployment'.database = deployment.database /\ deployment'.projected = deployment.projected
      /\ deployment'.desired = deployment.desired /\ deployment'.requested = deployment.requested
  BY <1>1, Types DEF Deployment
<1> QED BY <1>1, <1>2 DEF Aside

LEMMA StutterIsAside ==
    ASSUME UNCHANGED vars
    PROVE  Aside
BY DEF vars, control, Aside

-----------------------------------------------------------------------------
(* The queue.                                                              *)

LEMMA AsideKeepsQueue ==
    ASSUME QueueIsOrdered, Aside
    PROVE  QueueIsOrdered'
<1>1. WorkersHoldTheLease'
  BY DEF QueueIsOrdered, WorkersHoldTheLease, Aside
<1>2. BatchIsOldest' /\ WatermarkDivides' /\ CatchUpIsRequested'
  BY DEF QueueIsOrdered, BatchIsOldest, WatermarkDivides, CatchUpIsRequested, Aside, Undone,
         AllProcessed, store
<1> QED BY <1>1, <1>2 DEF QueueIsOrdered

LEMMA CommitQueues ==
    ASSUME IInv, StoreInOrder, QueueIsOrdered, NEW i \in Ids, CommitPublish(i)
    PROVE  QueueIsOrdered'
<1>1. /\ i \in Allocated /\ i \notin committed
      /\ committed' = committed \cup {i}
      /\ \A j \in committed : j < i
      /\ \A j \in Ids : /\ delivery'[j].owner = delivery[j].owner
                        /\ delivery'[j].status = IF j = i THEN "PENDING" ELSE delivery[j].status
      /\ deployment'.projected = deployment.projected
      /\ deployment'.requested = deployment.requested
      /\ deployment'.database = deployment.database
      /\ deployment'.owner = deployment.owner /\ deployment'.leased = deployment.leased
      /\ UNCHANGED <<change, graph, worker, rebuild>>
  BY CommitEffect
<1>2. committed \subseteq Ids /\ \A w \in Workers : worker[w].batch \in SUBSET Ids
  BY Fields DEF IInv
<1>3. WorkersHoldTheLease'
  BY <1>1 DEF QueueIsOrdered, WorkersHoldTheLease
<1>4. Undone' = Undone \cup {i} /\ \A j \in Undone : j \in committed
  BY <1>1, Types DEF Undone
<1>5. BatchIsOldest'
  <2> SUFFICES ASSUME NEW w \in Workers, NEW j \in worker[w].batch
               PROVE  /\ delivery'[j].status = "PROCESSING" /\ delivery'[j].owner = w
                      /\ \A n \in Undone' \ worker[w].batch : j < n
    BY <1>1 DEF BatchIsOldest
  <2>1. j \in Ids /\ delivery[j].status = "PROCESSING" /\ delivery[j].owner = w
    BY <1>2 DEF QueueIsOrdered, BatchIsOldest
  <2>2. j \in committed
    BY <2>1, Types
  <2>3. \A n \in Undone \ worker[w].batch : j < n
    BY DEF QueueIsOrdered, BatchIsOldest
  <2> QED BY <1>1, <1>4, <2>1, <2>2, <2>3
<1>6. WatermarkDivides'
  <2>1. deployment.projected \in committed \cup {0}
    BY Types
  <2>2. i \in Nat /\ i > 0 /\ ~ (i <= deployment.projected)
    BY <1>1, <2>1, Fields DEF IInv
  <2> QED BY <1>1, <1>2, <2>2 DEF QueueIsOrdered, WatermarkDivides
<1>7. CatchUpIsRequested'
  BY <1>1 DEF CatchUpIsRequested, AllProcessed
<1> QED BY <1>3, <1>5, <1>6, <1>7 DEF QueueIsOrdered

LEMMA ClaimQueues ==
    ASSUME IInv, QueueIsOrdered, NEW w \in Workers, Claim(w)
    PROVE  QueueIsOrdered'
<1>1. PICK batch \in SUBSET Undone :
               /\ batch # {} /\ \A i \in batch : \A j \in Undone \ batch : i < j
               /\ ~deployment.leased /\ worker[w].pc \in {"out", "between"}
               /\ \A i \in Ids : /\ i \in batch => /\ delivery'[i].status = "PROCESSING"
                                                   /\ delivery'[i].owner = w
                                 /\ i \notin batch => delivery'[i] = delivery[i]
               /\ worker'[w].pc = "claimed" /\ worker'[w].batch = batch
               /\ worker'[w].writer = IF worker[w].writer = NoDatabase THEN deployment.database
                                      ELSE worker[w].writer
               /\ \A v \in Workers \ {w} : worker'[v] = worker[v]
               /\ deployment'.owner = w /\ deployment'.leased
               /\ deployment'.database = deployment.database
               /\ deployment'.projected = deployment.projected
               /\ deployment'.requested = deployment.requested
               /\ UNCHANGED <<store, graph, rebuild>>
  BY ClaimEffect
<1>2. batch \subseteq Ids /\ batch \subseteq Undone
  BY DEF Undone
<1>3. \A v \in Workers : worker[v].batch = {}
  BY <1>1 DEF QueueIsOrdered, WorkersHoldTheLease
<1>4. WorkersHoldTheLease'
  BY <1>1, <1>3, Names DEF QueueIsOrdered, WorkersHoldTheLease
<1>5. Undone' = Undone
  BY <1>1, <1>2 DEF Undone
<1>6. BatchIsOldest'
  BY <1>1, <1>2, <1>3, <1>5 DEF BatchIsOldest
<1>7. \A i \in Ids : delivery'[i].status = "PROCESSED" <=> delivery[i].status = "PROCESSED"
  BY <1>1, <1>2 DEF Undone
<1>8. \A i \in Ids : delivery'[i].status = "NONE" <=> delivery[i].status = "NONE"
  BY <1>1, <1>2 DEF Undone
<1>9. committed' = committed /\ committed \subseteq Ids
  BY <1>1, Types DEF store
<1>10. WatermarkDivides'
  BY <1>1, <1>7, <1>8, <1>9 DEF QueueIsOrdered, WatermarkDivides
<1>11. CatchUpIsRequested'
  BY <1>1, <1>7, <1>9 DEF QueueIsOrdered, CatchUpIsRequested, AllProcessed
<1> QED BY <1>4, <1>6, <1>10, <1>11 DEF QueueIsOrdered

LEMMA WorkQueues ==
    ASSUME IInv, QueueIsOrdered, NEW w \in Workers, EndRun(w) \/ Load(w) \/ Apply(w) \/ WorkerCrash(w)
    PROVE  QueueIsOrdered'
<1>1. /\ UNCHANGED <<store, control>>
      /\ \A v \in Workers \ {w} : worker'[v] = worker[v]
      /\ \/ worker'[w] = Out
         \/ /\ worker[w].pc \in {"claimed", "loaded"} /\ worker'[w].pc \in {"loaded", "applied"}
            /\ worker'[w].batch = worker[w].batch /\ worker'[w].writer = worker[w].writer
  BY WorkEffect
<1>2. Out.pc = "out" /\ Out.batch = {} /\ Out.writer = NoDatabase
  BY DEF Out
<1>3. WorkersHoldTheLease'
  BY <1>1, <1>2 DEF QueueIsOrdered, WorkersHoldTheLease, control
<1>4. BatchIsOldest' /\ WatermarkDivides' /\ CatchUpIsRequested'
  BY <1>1, <1>2 DEF QueueIsOrdered, BatchIsOldest, WatermarkDivides, CatchUpIsRequested, Undone,
                    AllProcessed, store, control
<1> QED BY <1>3, <1>4 DEF QueueIsOrdered

\* The watermark after a batch that was the oldest of what was left.
LEMMA MarkQueues ==
    ASSUME IInv, StoreInOrder, QueueIsOrdered, NEW w \in Workers, MarkProcessed(w)
    PROVE  QueueIsOrdered'
<1> DEFINE batch == worker[w].batch
           mark == Greatest(deployment.projected, Max(batch))
<1>1. /\ worker[w].pc = "applied" /\ batch # {} /\ batch \subseteq committed
      /\ deployment.owner = w
      /\ \A i \in Ids : /\ i \in batch => delivery'[i].status = "PROCESSED"
                        /\ i \notin batch => delivery'[i] = delivery[i]
      /\ worker'[w].pc = "between" /\ worker'[w].batch = {} /\ worker'[w].writer = worker[w].writer
      /\ \A v \in Workers \ {w} : worker'[v] = worker[v]
      /\ deployment'.projected = mark
      /\ deployment'.requested = IF AllProcessed(delivery') /\ mark >= deployment.desired
                                 THEN Greatest(deployment.requested, mark) ELSE deployment.requested
      /\ deployment'.database = deployment.database
      /\ UNCHANGED <<store, graph, rebuild>>
  BY MarkEffect
<1>2. /\ Max(batch) \in batch /\ \A i \in batch : Max(batch) >= i
      /\ committed \subseteq Ids /\ \A i \in Ids : i \in Nat
      /\ deployment.projected \in Nat /\ deployment.requested \in Nat
      /\ deployment.desired \in committed \cup {0} /\ \A i \in committed : i <= deployment.desired
      /\ committed' = committed
  BY <1>1, MaxOfIds, Types, Fields DEF IInv, StoreInOrder, PublishInOrder, store
<1>3. \A v \in Workers \ {w} : worker[v].batch = {}
  BY <1>1 DEF QueueIsOrdered, WorkersHoldTheLease
<1>4. WorkersHoldTheLease'
  BY <1>1, <1>3 DEF QueueIsOrdered, WorkersHoldTheLease
<1>5. BatchIsOldest'
  BY <1>1, <1>3 DEF BatchIsOldest
<1>6. mark \in Nat /\ mark >= deployment.projected /\ \A i \in batch : i <= mark
  BY <1>1, <1>2 DEF Greatest
<1>7. ASSUME NEW i \in committed \ batch PROVE i <= mark <=> i <= deployment.projected
  <2>1. CASE i \in Undone
    <3>1. Max(batch) < i
      BY <1>2, <1>7, <2>1 DEF QueueIsOrdered, BatchIsOldest
    <3>2. ~ (i <= deployment.projected)
      BY <2>1 DEF QueueIsOrdered, WatermarkDivides, Undone
    <3>3. i \in Nat /\ Max(batch) \in Nat
      BY <1>1, <1>2
    <3> QED BY <1>2, <3>1, <3>2, <3>3 DEF Greatest
  <2>2. CASE i \notin Undone
    <3>1. delivery[i].status = "PROCESSED"
      BY <1>2, <2>2, Types DEF QueueIsOrdered, WatermarkDivides, Undone, Delivery
    <3>2. i <= deployment.projected
      BY <3>1 DEF QueueIsOrdered, WatermarkDivides
    <3> QED BY <1>2, <1>6, <3>2
  <2> QED BY <2>1, <2>2
<1>8. WatermarkDivides'
  <2> SUFFICES ASSUME NEW i \in committed
               PROVE  /\ delivery'[i].status # "NONE"
                      /\ delivery'[i].status = "PROCESSED" <=> i <= mark
    BY <1>1, <1>2 DEF WatermarkDivides
  <2> HIDE DEF mark
  <2>1. CASE i \in batch
    BY <1>1, <1>2, <1>6, <2>1
  <2>2. CASE i \notin batch
    BY <1>1, <1>2, <1>7, <2>2 DEF QueueIsOrdered, WatermarkDivides
  <2> QED BY <2>1, <2>2
<1>9. CatchUpIsRequested'
  <2> SUFFICES ASSUME AllProcessed(delivery'), NEW i \in committed PROVE i <= deployment'.requested
    BY <1>2 DEF CatchUpIsRequested, AllProcessed
  <2> HIDE DEF mark
  <2>1. \A j \in committed : j <= mark
    BY <1>1, <1>2, <1>8 DEF WatermarkDivides, AllProcessed
  <2>2. mark >= deployment.desired
    BY <1>2, <1>6, <2>1
  <2>3. deployment'.requested = Greatest(deployment.requested, mark)
    BY <1>1, <2>2
  <2> QED BY <1>2, <1>6, <2>1, <2>3 DEF Greatest
<1> QED BY <1>4, <1>5, <1>8, <1>9 DEF QueueIsOrdered

LEMMA ActivateQueues ==
    ASSUME IInv, QueueIsOrdered, "straggle" \notin Adversity, NEW r \in Rebuilders, Activate(r)
    PROVE  QueueIsOrdered'
<1> DEFINE mark == rebuild[r].mark
<1>1. /\ deployment.owner = r /\ mark >= deployment.projected
      /\ rebuild[r].candidate \in Databases \ {deployment.database}
      /\ \A w \in Workers : worker[w].pc = "out" \/ worker[w].writer = rebuild[r].candidate
      /\ \A i \in Ids : IF delivery[i].status # "NONE" /\ i <= mark
                        THEN delivery'[i].status = "PROCESSED" ELSE delivery'[i] = delivery[i]
      /\ deployment'.database = rebuild[r].candidate
      /\ deployment'.projected = mark
      /\ deployment'.requested = Greatest(deployment.requested, mark)
      /\ UNCHANGED <<store, graph, worker>>
  BY ActivateEffect
<1>2. /\ mark \in Nat /\ deployment.projected \in Nat /\ deployment.requested \in Nat
      /\ committed \subseteq Ids /\ \A i \in Ids : i \in Nat
      /\ committed' = committed
  BY <1>1, Types, Fields DEF IInv, store
<1>3. \A w \in Workers : worker[w].batch = {} /\ worker[w].pc = "out"
  BY <1>1, Names DEF QueueIsOrdered, WorkersHoldTheLease
<1>4. WorkersHoldTheLease'
  BY <1>1, <1>3 DEF QueueIsOrdered, WorkersHoldTheLease
<1>5. BatchIsOldest'
  BY <1>1, <1>3 DEF BatchIsOldest
<1>6. WatermarkDivides'
  <2> SUFFICES ASSUME NEW i \in committed
               PROVE  /\ delivery'[i].status # "NONE"
                      /\ delivery'[i].status = "PROCESSED" <=> i <= mark
    BY <1>1, <1>2 DEF WatermarkDivides
  <2>1. /\ delivery[i].status # "NONE"
        /\ delivery[i].status = "PROCESSED" <=> i <= deployment.projected
    BY DEF QueueIsOrdered, WatermarkDivides
  <2> QED BY <1>1, <1>2, <2>1
<1>7. CatchUpIsRequested'
  <2> SUFFICES ASSUME AllProcessed(delivery'), NEW i \in committed PROVE i <= deployment'.requested
    BY <1>2 DEF CatchUpIsRequested, AllProcessed
  <2>1. i <= mark
    BY <1>1, <1>2, <1>6 DEF WatermarkDivides, AllProcessed
  <2> QED BY <1>1, <1>2, <2>1 DEF Greatest
<1> QED BY <1>4, <1>5, <1>6, <1>7 DEF QueueIsOrdered

-----------------------------------------------------------------------------
(* The database that serves.                                               *)

\* What is left to deliver is committed, and so is what workers carry of it.
LEMMA WorkIsCommitted ==
    ASSUME IInv, QueueIsOrdered
    PROVE  /\ Undone \subseteq committed /\ committed \subseteq Allocated /\ Allocated \subseteq Ids
           /\ \A w \in Workers : worker[w].batch \subseteq Undone
           /\ \A i \in committed : i \in Undone <=> deployment.projected < i
<1>1. Undone \subseteq committed /\ committed \subseteq Allocated /\ Allocated \subseteq Ids
  BY Types, Fields DEF Undone, IInv
<1>2. \A w \in Workers : worker[w].batch \subseteq Undone
  BY Fields DEF QueueIsOrdered, BatchIsOldest, Undone, IInv
<1>3. ASSUME NEW i \in committed PROVE i \in Undone <=> deployment.projected < i
  <2>1. i \in Undone <=> delivery[i].status # "PROCESSED"
    BY <1>1, Types DEF QueueIsOrdered, WatermarkDivides, Undone, Delivery
  <2>2. i \in Nat /\ deployment.projected \in Nat
    BY <1>1, Fields DEF IInv
  <2> QED BY <2>1, <2>2 DEF QueueIsOrdered, WatermarkDivides
<1> QED BY <1>1, <1>2, <1>3

LEMMA AsideKeepsServed ==
    ASSUME ServedFollows, Aside
    PROVE  ServedFollows'
BY DEF Aside, ServedFollows, ReadsAreCurrent, CleanIsCurrent, AppliedIsCurrent, Clean, ShowsCurrent,
       Undone, store

LEMMA BeginPublishServes ==
    ASSUME IInv, QueueIsOrdered, ServedFollows,
           NEW k \in Keys, NEW asserts \in BOOLEAN, BeginPublish(k, asserts)
    PROVE  ServedFollows'
<1>1. /\ \A j \in Allocated : change'[j] = change[j]
      /\ UNCHANGED <<committed, current, control, graph, worker, rebuild, bounds>>
  BY BeginPublishEffect, Fields DEF IInv
<1>2. Undone' = Undone /\ \A i \in Undone : change'[i] = change[i]
  BY <1>1, WorkIsCommitted DEF Undone, control
<1>3. \A key, done : Clean(key, done)' <=> Clean(key, done)
  BY <1>2 DEF Clean
<1>4. deployment' = deployment
  BY <1>1 DEF control
<1> QED BY <1>1, <1>2, <1>4
        DEF ServedFollows, ReadsAreCurrent, CleanIsCurrent, AppliedIsCurrent, ShowsCurrent, Clean

LEMMA CommitServes ==
    ASSUME IInv, StoreInOrder, QueueIsOrdered, ServedFollows, NEW i \in Ids, CommitPublish(i)
    PROVE  ServedFollows'
<1>1. /\ i \in Allocated /\ i \notin committed
      /\ \A k \in Keys : current'[k] = IF k = change[i].key THEN change[i].fact ELSE current[k]
      /\ \A j \in Ids : delivery'[j].status = IF j = i THEN "PENDING" ELSE delivery[j].status
      /\ deployment'.database = deployment.database
      /\ UNCHANGED <<change, graph, worker, rebuild>>
  BY CommitEffect
<1>2. Undone' = Undone \cup {i}
  BY <1>1 DEF Undone
<1>3. \A w \in Workers : i \notin worker[w].batch
  BY <1>1, WorkIsCommitted
<1>4. ASSUME NEW k \in Keys, NEW done, i \notin done, \A j \in Undone' \ done : change[j].key # k
      PROVE  /\ \A j \in Undone \ done : change[j].key # k
             /\ current'[k] = current[k]
  BY <1>1, <1>2, <1>4
<1>5. ReadsAreCurrent'
  BY <1>1, <1>3, <1>4 DEF ServedFollows, ReadsAreCurrent, Clean
<1>6. CleanIsCurrent'
  <2> SUFFICES ASSUME NEW k \in Keys, Clean(k, {})' PROVE ShowsCurrent(k)'
    BY DEF CleanIsCurrent
  <2>1. \A j \in Undone' \ {} : change[j].key # k
    BY <1>1 DEF Clean
  <2>2. Clean(k, {}) /\ current'[k] = current[k]
    BY <1>4, <2>1 DEF Clean
  <2> QED BY <1>1, <2>2 DEF ServedFollows, CleanIsCurrent, ShowsCurrent
<1>7. AppliedIsCurrent'
  BY <1>1, <1>3, <1>4 DEF ServedFollows, AppliedIsCurrent, Clean, ShowsCurrent
<1> QED BY <1>5, <1>6, <1>7 DEF ServedFollows

LEMMA ClaimServes ==
    ASSUME IInv, QueueIsOrdered, ServedFollows, NEW w \in Workers, Claim(w)
    PROVE  ServedFollows'
<1>1. PICK batch \in SUBSET Undone :
         /\ \A i \in Ids : /\ i \in batch => delivery'[i].status = "PROCESSING"
                           /\ i \notin batch => delivery'[i] = delivery[i]
         /\ worker'[w].pc = "claimed" /\ \A v \in Workers \ {w} : worker'[v] = worker[v]
         /\ deployment'.database = deployment.database
         /\ UNCHANGED <<store, graph>>
  BY ClaimEffect
<1>2. Undone' = Undone
  BY <1>1 DEF Undone
<1>3. change' = change /\ current' = current
  BY <1>1 DEF store
<1> QED BY <1>1, <1>2, <1>3
        DEF ServedFollows, ReadsAreCurrent, CleanIsCurrent, AppliedIsCurrent, Clean, ShowsCurrent

\* The Neo4j transaction of a batch: it makes the keys current whose last change is in it.
LEMMA ApplyServes ==
    ASSUME IInv, StoreInOrder, QueueIsOrdered, ServedFollows, NEW w \in Workers, Apply(w)
    PROVE  ServedFollows'
<1> DEFINE db == deployment.database
           batch == worker[w].batch
           view == worker[w].view
           facts(k) == {change[i].fact : i \in {j \in batch : change[j].key = k}}
<1>1. /\ worker[w].pc = "loaded" /\ worker'[w].pc = "applied" /\ worker'[w].batch = batch
      /\ \A v \in Workers \ {w} : worker'[v] = worker[v]
      /\ graph' = [graph EXCEPT ![worker[w].writer] = Projected(worker[w].writer, batch, view)]
      /\ UNCHANGED <<store, control, rebuild>>
  <2>1. worker[w].pc = "loaded" /\ worker'[w].pc = "applied"
    BY Types DEF Apply, Worker
  <2> QED BY <2>1, WorkEffect DEF Out
<1>2. worker[w].writer = db /\ db \in Databases /\ batch \subseteq Undone
  BY <1>1, Fields, WorkIsCommitted DEF QueueIsOrdered, WorkersHoldTheLease, IInv
<1>3. \A v \in Workers \ {w} : worker[v].pc \notin {"loaded", "applied"}
  BY <1>1 DEF QueueIsOrdered, WorkersHoldTheLease
<1>4. \A k \in Keys : graph'[db][k] = IF facts(k) = {} THEN graph[db][k]
                                      ELSE IF view[k] \in facts(k) THEN view[k] ELSE NoFact
  <2>1. graph'[db] = Projected(db, batch, view)
    BY <1>1, <1>2, Types
  <2> QED BY <2>1 DEF Projected
<1>5. /\ Undone' = Undone /\ change' = change /\ current' = current /\ committed' = committed
      /\ deployment' = deployment
  BY <1>1 DEF control, store, Undone
<1>6. ASSUME NEW k \in Keys, facts(k) # {}, Clean(k, batch)
      PROVE  view[k] \in facts(k) /\ view[k] = current[k]
  <2>1. view[k] = current[k]
    BY <1>1, <1>6 DEF ServedFollows, ReadsAreCurrent
  <2>2. PICK j \in batch : change[j].key = k
    BY <1>6
  <2>3. j \in Of(k) /\ j \in Undone
    BY <1>2, <2>2, WorkIsCommitted DEF Of
  <2>4. PICK last \in Of(k) : current[k] = change[last].fact /\ \A i \in Of(k) : i <= last
    BY <2>3 DEF StoreInOrder, CurrentIsLast
  <2>5. last \in Undone
    <3>1. deployment.projected < j /\ j <= last
      BY <2>3, <2>4, WorkIsCommitted DEF Of
    <3>2. last \in committed /\ j \in Nat /\ last \in Nat /\ deployment.projected \in Nat
      BY <2>3, <2>4, WorkIsCommitted, Fields DEF Of, IInv
    <3>3. deployment.projected < last
      BY <3>1, <3>2
    <3> QED BY <3>2, <3>3, WorkIsCommitted
  <2>6. last \in batch /\ change[last].key = k
    BY <1>6, <2>4, <2>5 DEF Clean, Of
  <2>7. change[last].fact \in facts(k)
    BY <2>6
  <2> QED BY <2>1, <2>4, <2>7
<1>7. ASSUME NEW k \in Keys, facts(k) = {}
      PROVE  \A j \in batch : change[j].key # k
  BY <1>7
<1> HIDE DEF facts
<1>8. ReadsAreCurrent'
  BY <1>1, <1>3 DEF ReadsAreCurrent
<1>9. CleanIsCurrent'
  <2> SUFFICES ASSUME NEW k \in Keys, Clean(k, {}) PROVE graph'[db][k] = current[k]
    BY <1>5 DEF CleanIsCurrent, Clean, ShowsCurrent
  <2>1. facts(k) = {}
    BY <1>2 DEF facts, Clean
  <2>2. graph[db][k] = current[k]
    BY DEF ServedFollows, CleanIsCurrent, ShowsCurrent
  <2> QED BY <1>4, <2>1, <2>2
<1>10. AppliedIsCurrent'
  <2> SUFFICES ASSUME NEW k \in Keys, Clean(k, batch) PROVE graph'[db][k] = current[k]
    BY <1>1, <1>3, <1>5 DEF AppliedIsCurrent, Clean, ShowsCurrent
  <2>1. CASE facts(k) = {}
    <3>1. Clean(k, {})
      BY <1>7, <2>1 DEF Clean
    <3>2. graph[db][k] = current[k]
      BY <3>1 DEF ServedFollows, CleanIsCurrent, ShowsCurrent
    <3> QED BY <1>4, <2>1, <3>2
  <2>2. CASE facts(k) # {}
    BY <1>4, <1>6, <2>2
  <2> QED BY <2>1, <2>2
<1> QED BY <1>8, <1>9, <1>10 DEF ServedFollows

LEMMA LoadServes ==
    ASSUME IInv, ServedFollows, NEW w \in Workers, EndRun(w) \/ Load(w) \/ WorkerCrash(w)
    PROVE  ServedFollows'
<1>1. /\ UNCHANGED <<store, control, graph>>
      /\ \A v \in Workers \ {w} : worker'[v] = worker[v]
      /\ \/ worker'[w].pc = "out"
         \/ worker'[w].pc = "loaded" /\ worker'[w].view = current
  <2>1. CASE EndRun(w) \/ WorkerCrash(w)
    BY <2>1, Types DEF EndRun, WorkerCrash, Out
  <2>2. CASE Load(w)
    <3>1. /\ worker' = [worker EXCEPT ![w].pc = "loaded", ![w].view = current]
          /\ UNCHANGED <<store, control, graph>>
      BY <2>2 DEF Load
    <3> QED BY <3>1, Types DEF Worker
  <2> QED BY <2>1, <2>2
<1>2. /\ Undone' = Undone /\ change' = change /\ current' = current /\ deployment' = deployment
  BY <1>1 DEF control, store, Undone
<1> QED BY <1>1, <1>2
        DEF ServedFollows, ReadsAreCurrent, CleanIsCurrent, AppliedIsCurrent, Clean, ShowsCurrent

LEMMA MarkServes ==
    ASSUME IInv, QueueIsOrdered, ServedFollows, NEW w \in Workers, MarkProcessed(w)
    PROVE  ServedFollows'
<1> DEFINE batch == worker[w].batch
<1>1. /\ worker[w].pc = "applied" /\ batch # {} /\ deployment.owner = w
      /\ \A i \in Ids : /\ i \in batch => delivery'[i].status = "PROCESSED"
                        /\ i \notin batch => delivery'[i] = delivery[i]
      /\ worker'[w].pc = "between" /\ \A v \in Workers \ {w} : worker'[v] = worker[v]
      /\ deployment'.database = deployment.database
      /\ UNCHANGED <<store, graph, rebuild>>
  BY MarkEffect
<1>2. Undone' = Undone \ batch
  BY <1>1 DEF Undone
<1>3. \A v \in Workers \ {w} : worker[v].pc \notin {"loaded", "applied"}
  BY <1>1 DEF QueueIsOrdered, WorkersHoldTheLease
<1>4. change' = change /\ current' = current
  BY <1>1 DEF store
<1>5. CleanIsCurrent'
  BY <1>1, <1>2, <1>4 DEF ServedFollows, AppliedIsCurrent, CleanIsCurrent, Clean, ShowsCurrent
<1> QED BY <1>1, <1>3, <1>5 DEF ServedFollows, ReadsAreCurrent, AppliedIsCurrent

\* The switch: what is left to deliver comes after the rebuild's mark, and up to it the candidate
\* is current.
LEMMA ActivateServes ==
    ASSUME IInv, QueueIsOrdered, CandidateFollows, "straggle" \notin Adversity,
           NEW r \in Rebuilders, Activate(r)
    PROVE  ServedFollows'
<1> DEFINE mark == rebuild[r].mark
           db == rebuild[r].candidate
<1>1. /\ rebuild[r].pc = "activate" /\ mark >= deployment.projected
      /\ db \in Databases \ {deployment.database}
      /\ \A w \in Workers : worker[w].pc = "out" \/ worker[w].writer = db
      /\ \A i \in Ids : IF delivery[i].status # "NONE" /\ i <= mark
                        THEN delivery'[i].status = "PROCESSED" ELSE delivery'[i] = delivery[i]
      /\ deployment'.database = db
      /\ UNCHANGED <<store, graph, worker>>
  BY ActivateEffect
<1>2. \A w \in Workers : worker[w].pc = "out"
  BY <1>1 DEF QueueIsOrdered, WorkersHoldTheLease
<1>3. Follows(graph[db], mark)
  BY <1>1 DEF CandidateFollows, RebuildFollows
<1>4. ASSUME NEW i \in committed, ~ (i <= mark) PROVE i \in Undone'
  <2>1. i \in Ids /\ i \in Nat /\ mark \in Nat /\ deployment.projected \in Nat
    BY WorkIsCommitted, Fields DEF IInv
  <2>2. i \in Undone
    BY <1>1, <1>4, <2>1, WorkIsCommitted
  <2> QED BY <1>1, <1>4, <2>1, <2>2 DEF Undone
<1>5. current' = current /\ change' = change /\ graph' = graph /\ worker' = worker
  BY <1>1 DEF store
<1>6. CleanIsCurrent'
  <2> SUFFICES ASSUME NEW k \in Keys, Clean(k, {})' PROVE graph[db][k] = current[k]
    BY <1>1, <1>5 DEF CleanIsCurrent, ShowsCurrent
  <2>1. \A i \in Of(k) : i <= mark
    BY <1>4, <1>5 DEF Clean, Of
  <2> QED BY <1>3, <2>1 DEF Follows
<1> QED BY <1>2, <1>5, <1>6 DEF ServedFollows, ReadsAreCurrent, AppliedIsCurrent

-----------------------------------------------------------------------------
(* The candidate.                                                          *)

\* Steps of others write no candidate, and change no fact it is compared with.
LEMMA CandidatesKept ==
    ASSUME IInv, CandidateFollows, UNCHANGED <<committed, current, rebuild>>,
           \A i \in committed : change'[i] = change[i],
           \A r \in Rebuilders : ~At(r, "out") =>
               graph'[rebuild[r].candidate] = graph[rebuild[r].candidate]
    PROVE  CandidateFollows'
<1>1. \A k : Of(k)' = Of(k)
  BY DEF Of
<1>2. committed' = committed /\ current' = current /\ rebuild' = rebuild
  OBVIOUS
<1>3. SUFFICES ASSUME NEW r \in Rebuilders
               PROVE  RebuildFollows(rebuild[r], graph[rebuild[r].candidate])'
  BY DEF CandidateFollows
<1>4. RebuildFollows(rebuild[r], graph[rebuild[r].candidate])
  BY DEF CandidateFollows
<1>5. CASE rebuild[r].pc = "out"
  BY <1>2, <1>4, <1>5 DEF RebuildFollows
<1>6. CASE rebuild[r].pc # "out"
  <2>1. graph'[rebuild[r].candidate] = graph[rebuild[r].candidate]
    BY <1>6 DEF At
  <2> QED BY <1>1, <1>2, <1>4, <2>1 DEF RebuildFollows, BatchFollows, Follows
<1> QED BY <1>5, <1>6

\* A step of a rebuild: it is alone, and what it writes and remembers agree.
LEMMA CandidateMoves ==
    ASSUME CandidateFollows, NEW r \in Rebuilders, UNCHANGED store,
           \A q \in Rebuilders \ {r} : At(q, "out") /\ rebuild'[q] = rebuild[q],
           NEW new, NEW facts, rebuild'[r] = new, graph'[new.candidate] = facts,
           RebuildFollows(new, facts)
    PROVE  CandidateFollows'
<1>1. \A k : Of(k)' = Of(k)
  BY DEF Of, store
<1>2. committed' = committed /\ current' = current
  BY DEF store
<1>3. SUFFICES ASSUME NEW q \in Rebuilders
               PROVE  RebuildFollows(rebuild[q], graph[rebuild[q].candidate])'
  BY DEF CandidateFollows
<1>4. CASE q = r
  BY <1>1, <1>2, <1>4 DEF RebuildFollows, BatchFollows, Follows
<1>5. CASE q # r
  <2>1. rebuild'[q] = rebuild[q] /\ rebuild[q].pc = "out" /\ rebuild[q].cursor \in committed \cup {0}
    BY <1>5 DEF CandidateFollows, RebuildFollows, At
  <2> QED BY <1>2, <2>1 DEF RebuildFollows
<1> QED BY <1>4, <1>5

LEMMA BeginPublishQueues ==
    ASSUME IInv, QueueIsOrdered, NEW k \in Keys, NEW asserts \in BOOLEAN, BeginPublish(k, asserts)
    PROVE  QueueIsOrdered'
<1>1. UNCHANGED <<committed, current, control, graph, worker, rebuild, bounds>>
  BY BeginPublishEffect
<1> QED BY <1>1 DEF QueueIsOrdered, WorkersHoldTheLease, BatchIsOldest, WatermarkDivides,
                    CatchUpIsRequested, Undone, AllProcessed, control

LEMMA BeginPublishCandidates ==
    ASSUME IInv, CandidateFollows, NEW k \in Keys, NEW asserts \in BOOLEAN, BeginPublish(k, asserts)
    PROVE  CandidateFollows'
<1>1. /\ \A j \in committed : change'[j] = change[j]
      /\ UNCHANGED <<committed, current, control, graph, worker, rebuild, bounds>>
  BY BeginPublishEffect, Fields DEF IInv
<1> QED BY <1>1, CandidatesKept

\* A new change comes after every mark, cursor and batch.
LEMMA CommitCandidates ==
    ASSUME IInv, StoreInOrder, CandidateFollows, NEW i \in Ids, CommitPublish(i)
    PROVE  CandidateFollows'
<1>1. /\ i \in Allocated /\ i \notin committed
      /\ committed' = committed \cup {i} /\ \A j \in committed : j < i
      /\ \A k \in Keys : current'[k] = IF k = change[i].key THEN change[i].fact ELSE current[k]
      /\ UNCHANGED <<change, graph, worker, rebuild>>
  BY CommitEffect
<1>2. \A k : Of(k)' = IF k = change[i].key THEN Of(k) \cup {i} ELSE Of(k)
  BY <1>1 DEF Of
<1>3. \A j \in committed \cup {i} : j \in Nat /\ j > 0
  BY <1>1, Fields DEF IInv
<1>4. ASSUME NEW facts, NEW mark \in committed \cup {0}, Follows(facts, mark)
      PROVE  \A k \in Keys : (\A j \in Of(k)' : j <= mark) => facts[k] = current'[k]
  <2> SUFFICES ASSUME NEW k \in Keys, \A j \in Of(k)' : j <= mark PROVE facts[k] = current'[k]
    OBVIOUS
  <2>1. mark < i /\ mark \in Nat /\ i \in Nat
    BY <1>1, <1>3
  <2>2. ~ (i <= mark)
    BY <2>1
  <2>3. k # change[i].key
    BY <1>2, <2>2
  <2> QED BY <1>1, <1>2, <1>4, <2>3 DEF Follows
<1>5. SUFFICES ASSUME NEW r \in Rebuilders
               PROVE  RebuildFollows(rebuild[r], graph[rebuild[r].candidate])'
  BY DEF CandidateFollows
<1> DEFINE b == rebuild[r]
           facts == graph[b.candidate]
<1>6. RebuildFollows(b, facts) /\ b.mark \in committed \cup {0} /\ b.cursor \in committed \cup {0}
  BY DEF CandidateFollows, RebuildFollows, IInv, MarksCover
<1>7. b.pc = "copy" => Follows(b.view, b.mark)'
  BY <1>1, <1>4, <1>6 DEF RebuildFollows, Follows
<1>8. b.pc \in {"copied", "target", "validate", "activate"} => Follows(facts, b.mark)'
  BY <1>1, <1>4, <1>6 DEF RebuildFollows, Follows
<1>9. b.pc \in {"read", "write", "written"} => Follows(facts, b.cursor)' /\ b.mark <= b.cursor
  BY <1>1, <1>4, <1>6 DEF RebuildFollows, Follows
<1>10. ASSUME b.pc = "write" PROVE BatchFollows(b)'
  <2>1. b.batch \subseteq committed /\ BatchFollows(b)
    BY <1>6, <1>10 DEF RebuildFollows, IInv, BatchesAreCommitted, At
  <2>2. \A j \in b.batch : b.cursor < j
    BY <2>1 DEF BatchFollows
  <2>3. \A a \in b.batch : \A j \in committed' \ b.batch : b.cursor < j => a < j
    BY <1>1, <2>1 DEF BatchFollows
  <2>4. ASSUME NEW k \in Keys
        PROVE  b.view[k] = current'[k] \/ \E j \in Of(k)' : \A a \in b.batch : a < j
    <3>1. CASE k = change[i].key
      BY <1>1, <1>2, <2>1, <3>1
    <3>2. CASE k # change[i].key
      BY <1>1, <1>2, <2>1, <3>2 DEF BatchFollows
    <3> QED BY <3>1, <3>2
  <2> QED BY <1>1, <2>2, <2>3, <2>4 DEF BatchFollows
<1> QED BY <1>1, <1>6, <1>7, <1>8, <1>9, <1>10 DEF RebuildFollows

LEMMA WorkerCandidates ==
    ASSUME IInv, QueueIsOrdered, CandidateFollows, NEW w \in Workers,
           Claim(w) \/ Work(w) \/ WorkerCrash(w)
    PROVE  CandidateFollows'
<1>1. UNCHANGED <<committed, change, current, rebuild>>
  BY DEF Claim, Work, WorkerCrash, EndRun, Load, Apply, MarkProcessed, store
<1>2. CASE Apply(w)
  <2>1. /\ worker[w].pc = "loaded"
        /\ graph' = [graph EXCEPT ![worker[w].writer] =
                         Projected(worker[w].writer, worker[w].batch, worker[w].view)]
    BY <1>2 DEF Apply
  <2>2. worker[w].writer = deployment.database
    BY <2>1 DEF QueueIsOrdered, WorkersHoldTheLease
  <2>3. \A r \in Rebuilders : ~At(r, "out") => rebuild[r].candidate \in Databases \ {deployment.database}
    BY DEF IInv, RebuildIsAlone
  <2>4. \A db \in Databases \ {deployment.database} : graph'[db] = graph[db]
    BY <2>1, <2>2, Types
  <2> QED BY <1>1, <2>3, <2>4, CandidatesKept
<1>3. CASE ~Apply(w)
  <2>1. graph' = graph
    BY <1>3 DEF Claim, Work, WorkerCrash, EndRun, Load, MarkProcessed
  <2> QED BY <1>1, <2>1, CandidatesKept
<1> QED BY <1>2, <1>3

\* The steps of a rebuild.  Before the copy there is nothing to compare.
LEMMA BeginCandidates ==
    ASSUME IInv, CandidateFollows, NEW r \in Rebuilders, NEW db \in Databases, Begin(r, db)
    PROVE  CandidateFollows'
<1>1. /\ rebuild' = [rebuild EXCEPT ![r].pc = "begun", ![r].candidate = db]
      /\ UNCHANGED store /\ deployment.rebuild # "RUNNING"
  BY DEF Begin, MayBegin
<1>2. \A q \in Rebuilders : At(q, "out")
  BY <1>1 DEF IInv, RebuildIsAlone
<1>3. /\ rebuild'[r].pc = "begun" /\ rebuild'[r].cursor = rebuild[r].cursor
      /\ \A q \in Rebuilders \ {r} : rebuild'[q] = rebuild[q]
  BY <1>1, Types DEF Rebuild
<1>4. RebuildFollows(rebuild'[r], graph'[rebuild'[r].candidate])
  BY <1>3 DEF CandidateFollows, RebuildFollows
<1> QED BY <1>1, <1>2, <1>3, <1>4, CandidateMoves

LEMMA EndingCandidates ==
    ASSUME IInv, CandidateFollows, NEW r \in Rebuilders,
           Activate(r) \/ Raise(r) \/ RebuildBreaks(r) \/ RebuildCrash(r)
    PROVE  CandidateFollows'
<1>1. rebuild' = [rebuild EXCEPT ![r] = Ended] /\ UNCHANGED store /\ ~At(r, "out")
  BY DEF Activate, Raise, Refused, RebuildBreaks, RebuildCrash, Fails, At
<1>2. /\ rebuild'[r].pc = "out" /\ rebuild'[r].cursor = 0
      /\ \A q \in Rebuilders \ {r} : rebuild'[q] = rebuild[q]
  BY <1>1, Types DEF Ended
<1>3. RebuildFollows(rebuild'[r], graph'[rebuild'[r].candidate])
  BY <1>2 DEF RebuildFollows
<1> QED BY <1>1, <1>2, <1>3, Alone, CandidateMoves

\* Nothing else moves when the rebuild only goes on to its next step.
LEMMA GoingCandidates ==
    ASSUME IInv, CandidateFollows, NEW r \in Rebuilders, Heartbeat(r) \/ Validate(r)
    PROVE  CandidateFollows'
<1> DEFINE b == rebuild[r]
           facts == graph[b.candidate]
<1>1. /\ UNCHANGED <<store, graph>> /\ b.pc \in {"copied", "written", "validate"} /\ ~At(r, "out")
      /\ rebuild' = [rebuild EXCEPT ![r].pc = rebuild'[r].pc]
      /\ \/ b.pc \in {"copied", "validate"} /\ rebuild'[r].pc \in {"target", "activate"}
         \/ b.pc = "written" /\ rebuild'[r].pc = "read"
  <2>1. CASE Heartbeat(r)
    BY <2>1, Types DEF Heartbeat, Goes, At
  <2>2. CASE Validate(r)
    BY <2>2, Types DEF Validate, Goes, At
  <2> QED BY <2>1, <2>2
<1> DEFINE pc == rebuild'[r].pc
<1> HIDE DEF pc
<1>2. rebuild' = [rebuild EXCEPT ![r].pc = pc]
  BY <1>1 DEF pc
<1>3. /\ rebuild'[r].cursor = b.cursor /\ rebuild'[r].mark = b.mark
      /\ rebuild'[r].candidate = b.candidate
      /\ \A q \in Rebuilders \ {r} : rebuild'[q] = rebuild[q]
  BY <1>2, Types DEF Rebuild
<1>4. RebuildFollows(b, facts) /\ graph' = graph
  BY <1>1 DEF CandidateFollows
<1>5. RebuildFollows(rebuild'[r], graph'[rebuild'[r].candidate])
  BY <1>1, <1>3, <1>4 DEF RebuildFollows
<1> QED BY <1>1, <1>3, <1>5, Alone, CandidateMoves

LEMMA ResetCandidates ==
    ASSUME IInv, CandidateFollows, NEW r \in Rebuilders, Reset(r)
    PROVE  CandidateFollows'
<1>1. /\ graph' = [graph EXCEPT ![rebuild[r].candidate] = [k \in Keys |-> NoFact]]
      /\ rebuild' = [rebuild EXCEPT ![r].pc = "snapshot"]
      /\ UNCHANGED store /\ ~At(r, "out")
  BY DEF Reset, Goes, At
<1>2. rebuild[r].candidate \in Databases
  BY <1>1, Alone
<1>3. /\ rebuild'[r].pc = "snapshot" /\ rebuild'[r].cursor = rebuild[r].cursor
      /\ rebuild'[r].candidate = rebuild[r].candidate
      /\ \A q \in Rebuilders \ {r} : rebuild'[q] = rebuild[q]
  BY <1>1, Types DEF Rebuild
<1>4. graph'[rebuild[r].candidate] = [k \in Keys |-> NoFact]
  BY <1>1, <1>2, Types
<1>5. RebuildFollows(rebuild'[r], graph'[rebuild'[r].candidate])
  BY <1>3, <1>4 DEF CandidateFollows, RebuildFollows
<1> QED BY <1>1, <1>3, <1>5, Alone, CandidateMoves

\* The snapshot is everything committed, at its mark.
LEMMA SnapshotCandidates ==
    ASSUME IInv, CandidateFollows, NEW r \in Rebuilders, Snapshot(r)
    PROVE  CandidateFollows'
<1>1. /\ rebuild' = [rebuild EXCEPT ![r].pc = "copy", ![r].view = current, ![r].mark = SnapshotMark]
      /\ rebuild[r].pc = "snapshot" /\ UNCHANGED <<store, graph>> /\ ~At(r, "out")
  BY DEF Snapshot, At
<1>2. /\ rebuild'[r].pc = "copy" /\ rebuild'[r].cursor = rebuild[r].cursor
      /\ rebuild'[r].candidate = rebuild[r].candidate /\ rebuild'[r].view = current
      /\ \A q \in Rebuilders \ {r} : rebuild'[q] = rebuild[q]
  BY <1>1, Types DEF Rebuild
<1>3. RebuildFollows(rebuild[r], graph[rebuild[r].candidate]) /\ graph' = graph
  BY <1>1 DEF CandidateFollows
<1>4. RebuildFollows(rebuild'[r], graph'[rebuild'[r].candidate])
  BY <1>1, <1>2, <1>3 DEF RebuildFollows, Follows
<1> QED BY <1>1, <1>2, <1>4, Alone, CandidateMoves

\* An emptied database that gets the facts of the snapshot shows the snapshot.
LEMMA CopyCandidates ==
    ASSUME IInv, CandidateFollows, NEW r \in Rebuilders, Copy(r)
    PROVE  CandidateFollows'
<1> DEFINE b == rebuild[r]
           db == b.candidate
           pc == IF b.view = Ended.view THEN "target" ELSE "copied"
<1>1. /\ graph' = [graph EXCEPT ![db] =
                       [k \in Keys |-> IF b.view[k] = NoFact THEN graph[db][k] ELSE b.view[k]]]
      /\ rebuild' = [rebuild EXCEPT ![r].view = Ended.view, ![r].pc = pc]
      /\ b.pc = "copy" /\ UNCHANGED store /\ ~At(r, "out")
  BY DEF Copy, At
<1>2. db \in Databases
  BY <1>1, Alone
<1>3. RebuildFollows(b, graph[db])
  BY DEF CandidateFollows
<1>4. \A k \in Keys : graph'[db][k] = b.view[k]
  BY <1>1, <1>2, <1>3, Types DEF RebuildFollows
<1>5. pc \in {"target", "copied"}
  OBVIOUS
<1> HIDE DEF pc
<1>6. /\ rebuild'[r].pc = pc /\ rebuild'[r].cursor = b.cursor /\ rebuild'[r].mark = b.mark
      /\ rebuild'[r].candidate = db
      /\ \A q \in Rebuilders \ {r} : rebuild'[q] = rebuild[q]
  BY <1>1, Types DEF Rebuild
<1>7. RebuildFollows(rebuild'[r], graph'[rebuild'[r].candidate])
  BY <1>1, <1>3, <1>4, <1>5, <1>6 DEF RebuildFollows, Follows
<1> QED BY <1>1, <1>6, <1>7, Alone, CandidateMoves

LEMMA TargetCandidates ==
    ASSUME IInv, CandidateFollows, NEW r \in Rebuilders, Target(r)
    PROVE  CandidateFollows'
<1> DEFINE b == rebuild[r]
<1>1. /\ rebuild' = [rebuild EXCEPT ![r].pc = "read", ![r].target = MaximumOutbox, ![r].cursor = b.mark]
      /\ b.pc = "target" /\ UNCHANGED <<store, graph>> /\ ~At(r, "out")
  BY DEF Target, At
<1>2. /\ rebuild'[r].pc = "read" /\ rebuild'[r].cursor = b.mark /\ rebuild'[r].mark = b.mark
      /\ rebuild'[r].candidate = b.candidate
      /\ \A q \in Rebuilders \ {r} : rebuild'[q] = rebuild[q]
  BY <1>1, Types DEF Rebuild
<1>3. RebuildFollows(b, graph[b.candidate]) /\ graph' = graph
  BY <1>1 DEF CandidateFollows
<1>4. b.mark \in committed \cup {0} /\ b.mark \in Nat
  BY <1>1, Alone, Fields DEF IInv
<1>5. RebuildFollows(rebuild'[r], graph'[rebuild'[r].candidate])
  BY <1>1, <1>2, <1>3, <1>4 DEF RebuildFollows
<1> QED BY <1>1, <1>2, <1>5, Alone, CandidateMoves

\* The catch-up has delivered all up to its target, or takes the oldest of the rest.
LEMMA ReadCandidates ==
    ASSUME IInv, CandidateFollows, NEW r \in Rebuilders, Read(r)
    PROVE  CandidateFollows'
<1> DEFINE b == rebuild[r]
           mark == Greatest(b.mark, b.target)
           batch == Lowest(BatchSize, Pending(r))
           facts == graph[b.candidate]
<1>1. b.pc = "read" /\ UNCHANGED <<store, graph>> /\ ~At(r, "out")
  BY DEF Read, At
<1>2. RebuildFollows(b, facts) /\ graph' = graph
  BY <1>1 DEF CandidateFollows
<1>3. /\ b.mark \in Nat /\ b.cursor \in Nat /\ b.target \in Nat /\ b.mark <= b.cursor
      /\ \A i \in committed : i \in Ids /\ i \in Nat
  BY <1>1, <1>2, Fields DEF IInv, RebuildFollows
<1>4. CASE Pending(r) = {}
  <2>1. rebuild' = [rebuild EXCEPT ![r].pc = "validate", ![r].mark = mark, ![r].target = 0, ![r].cursor = 0]
    BY <1>4 DEF Read
  <2>2. ASSUME NEW i \in committed, i <= mark PROVE i <= b.cursor
    BY <1>3, <1>4, <2>2 DEF Pending, Greatest
  <2> HIDE DEF mark
  <2>3. Follows(facts, mark)
    BY <1>1, <1>2, <2>2 DEF RebuildFollows, Follows, Of
  <2>4. /\ rebuild'[r].pc = "validate" /\ rebuild'[r].cursor = 0 /\ rebuild'[r].mark = mark
        /\ rebuild'[r].candidate = b.candidate
        /\ \A q \in Rebuilders \ {r} : rebuild'[q] = rebuild[q]
    BY <2>1, Types DEF Rebuild
  <2>5. RebuildFollows(rebuild'[r], graph'[rebuild'[r].candidate])
    BY <1>2, <2>3, <2>4 DEF RebuildFollows
  <2> QED BY <1>1, <2>4, <2>5, Alone, CandidateMoves
<1>5. CASE Pending(r) # {}
  <2>1. rebuild' = [rebuild EXCEPT ![r].pc = "write", ![r].view = current, ![r].batch = batch]
    BY <1>5 DEF Read
  <2>2. Pending(r) \subseteq Ids /\ batch \subseteq Pending(r)
    BY <1>3 DEF Pending, Lowest
  <2>3. ASSUME NEW i \in batch, NEW j \in committed \ batch, b.cursor < j PROVE i < j
    <3>1. CASE j \in Pending(r)
      BY <2>2, <2>3, <3>1, LowestFirst
    <3>2. CASE j \notin Pending(r)
      <4>1. i \in committed /\ i <= b.target /\ ~ (j <= b.target)
        BY <2>2, <2>3, <3>2 DEF Pending
      <4> QED BY <1>3, <4>1
    <3> QED BY <3>1, <3>2
  <2>4. \A i \in batch : b.cursor < i
    BY <2>2 DEF Pending
  <2> HIDE DEF batch
  <2>5. /\ rebuild'[r].pc = "write" /\ rebuild'[r].cursor = b.cursor /\ rebuild'[r].mark = b.mark
        /\ rebuild'[r].candidate = b.candidate /\ rebuild'[r].view = current
        /\ rebuild'[r].batch = batch
        /\ \A q \in Rebuilders \ {r} : rebuild'[q] = rebuild[q]
    BY <2>1, Types DEF Rebuild
  <2>6. BatchFollows(rebuild'[r])
    BY <2>3, <2>4, <2>5 DEF BatchFollows
  <2>7. RebuildFollows(rebuild'[r], graph'[rebuild'[r].candidate])
    BY <1>1, <1>2, <2>5, <2>6 DEF RebuildFollows
  <2> QED BY <1>1, <2>5, <2>7, Alone, CandidateMoves
<1> QED BY <1>4, <1>5

\* A batch of the catch-up: it makes the keys current whose last change is in it.
LEMMA WriteCandidates ==
    ASSUME IInv, StoreInOrder, CandidateFollows, NEW r \in Rebuilders, Write(r)
    PROVE  CandidateFollows'
<1> DEFINE b == rebuild[r]
           db == b.candidate
           cursor == Max(b.batch)
           facts(k) == {change[i].fact : i \in {j \in b.batch : change[j].key = k}}
<1>1. /\ graph' = [graph EXCEPT ![db] = Projected(db, b.batch, b.view)]
      /\ rebuild' = [rebuild EXCEPT ![r].pc = "written", ![r].cursor = cursor,
                         ![r].batch = {}, ![r].view = Ended.view]
      /\ b.pc = "write" /\ UNCHANGED store /\ ~At(r, "out")
  BY DEF Write, At
<1>2. db \in Databases
  BY <1>1, Alone
<1>3. /\ RebuildFollows(b, graph[db]) /\ BatchFollows(b) /\ Follows(graph[db], b.cursor)
      /\ b.mark <= b.cursor
  BY <1>1 DEF CandidateFollows, RebuildFollows
<1>4. b.batch # {} /\ b.batch \subseteq committed /\ committed \subseteq Ids
  BY <1>1, Types DEF IInv, BatchesAreCommitted, At
<1>5. /\ cursor \in b.batch /\ \A i \in b.batch : i <= cursor
      /\ \A i \in committed : i \in Nat
      /\ b.cursor \in Nat /\ b.mark \in Nat
  BY <1>4, MaxOfIds, Fields DEF IInv
<1> HIDE DEF cursor
<1>6. b.cursor < cursor /\ cursor \in committed /\ cursor \in Nat
  BY <1>3, <1>4, <1>5 DEF BatchFollows
<1>7. ASSUME NEW j \in committed, b.cursor < j, j <= cursor PROVE j \in b.batch
  <2>1. ~ (cursor < j)
    BY <1>5, <1>6, <1>7
  <2> QED BY <1>3, <1>5, <1>7, <2>1 DEF BatchFollows
<1>8. \A k \in Keys : graph'[db][k] = IF facts(k) = {} THEN graph[db][k]
                                      ELSE IF b.view[k] \in facts(k) THEN b.view[k] ELSE NoFact
  <2>1. graph'[db] = Projected(db, b.batch, b.view)
    BY <1>1, <1>2, Types
  <2> QED BY <2>1 DEF Projected
<1>9. ASSUME NEW k \in Keys, \A i \in Of(k) : i <= cursor PROVE graph'[db][k] = current[k]
  <2>1. CASE \A i \in b.batch : change[i].key # k
    <3>1. facts(k) = {}
      BY <2>1
    <3>2. ASSUME NEW i \in Of(k) PROVE i <= b.cursor
      <4>1. i \in committed /\ i \notin b.batch
        BY <2>1 DEF Of
      <4>2. ~ (b.cursor < i)
        BY <1>7, <1>9, <4>1
      <4> QED BY <1>5, <4>1, <4>2
    <3>3. graph[db][k] = current[k]
      BY <1>3, <3>2 DEF Follows
    <3> QED BY <1>8, <3>1, <3>3
  <2>2. CASE \E i \in b.batch : change[i].key = k
    <3>1. PICK j \in b.batch : change[j].key = k
      BY <2>2
    <3>2. j \in Of(k) /\ b.cursor < j
      BY <1>3, <1>4, <3>1 DEF Of, BatchFollows
    <3>3. b.view[k] = current[k]
      <4>1. ASSUME NEW i \in Of(k), cursor < i PROVE FALSE
        BY <1>5, <1>6, <1>9, <4>1 DEF Of
      <4> QED BY <1>3, <1>5, <4>1 DEF BatchFollows
    <3>4. PICK last \in Of(k) : current[k] = change[last].fact /\ \A i \in Of(k) : i <= last
      BY <3>2 DEF StoreInOrder, CurrentIsLast
    <3>5. last \in committed /\ j \in committed /\ change[last].key = k
      BY <3>2, <3>4 DEF Of
    <3>6. b.cursor < last
      BY <1>5, <3>2, <3>4, <3>5
    <3>7. last \in b.batch
      BY <1>7, <1>9, <3>4, <3>5, <3>6
    <3>8. change[last].fact \in facts(k)
      BY <3>5, <3>7
    <3> HIDE DEF facts
    <3> QED BY <1>8, <3>3, <3>4, <3>8
  <2> QED BY <2>1, <2>2
<1>10. /\ rebuild'[r].pc = "written" /\ rebuild'[r].cursor = cursor /\ rebuild'[r].mark = b.mark
       /\ rebuild'[r].candidate = db
       /\ \A q \in Rebuilders \ {r} : rebuild'[q] = rebuild[q]
  BY <1>1, Types DEF Rebuild
<1>11. b.mark <= cursor
  BY <1>3, <1>5, <1>6
<1>12. RebuildFollows(rebuild'[r], graph'[rebuild'[r].candidate])
  BY <1>6, <1>9, <1>10, <1>11 DEF RebuildFollows, Follows
<1> QED BY <1>1, <1>10, <1>12, Alone, CandidateMoves

-----------------------------------------------------------------------------
(* The invariant.                                                          *)

LEMMA SyncInit == Init => SyncInv
<1> SUFFICES ASSUME Init PROVE SyncInv
  OBVIOUS
<1>1. /\ committed = {} /\ delivery = [i \in Ids |-> [status |-> "NONE", owner |-> Nobody]]
      /\ rebuild = [r \in Rebuilders |-> Ended] /\ worker = [w \in Workers |-> Out]
      /\ change = [i \in Ids |-> NoChange] /\ current = [k \in Keys |-> NoFact]
      /\ graph = [db \in Databases |-> [k \in Keys |-> NoFact]]
      /\ deployment.desired = 0 /\ deployment.database \in Databases
  BY NamesAssumption DEF Init
<1>2. /\ Out.pc = "out" /\ Out.batch = {} /\ Out.writer = NoDatabase
      /\ Ended.pc = "out" /\ Ended.cursor = 0
  BY DEF Out, Ended
<1>3. Allocated = {} /\ Undone = {}
  BY <1>1 DEF Allocated, Undone
<1>4. StoreInOrder
  <2>1. \A k : Of(k) = {}
    BY <1>1 DEF Of
  <2> QED BY <1>1, <1>3, <2>1 DEF StoreInOrder, PublishInOrder, CurrentIsLast, Open
<1>5. QueueIsOrdered
  BY <1>1, <1>2 DEF QueueIsOrdered, WorkersHoldTheLease, BatchIsOldest, WatermarkDivides, CatchUpIsRequested
<1>6. ServedFollows
  BY <1>1, <1>2 DEF ServedFollows, ReadsAreCurrent, CleanIsCurrent, AppliedIsCurrent, ShowsCurrent
<1>7. CandidateFollows
  BY <1>1, <1>2 DEF CandidateFollows, RebuildFollows
<1> QED BY <1>4, <1>5, <1>6, <1>7 DEF SyncInv

\* What keeps the store, the queue, the served graph and the candidates, action by action.
LEMMA SyncStep ==
    ASSUME IInv, SyncInv, Next, Adversity = {}
    PROVE  SyncInv'
<1>0. StoreInOrder /\ QueueIsOrdered /\ ServedFollows /\ CandidateFollows
  BY DEF SyncInv
<1>1. ASSUME NEW k \in Keys, NEW asserts \in BOOLEAN, BeginPublish(k, asserts) PROVE SyncInv'
  BY <1>0, <1>1, BeginPublishOrders, BeginPublishQueues, BeginPublishServes, BeginPublishCandidates
     DEF SyncInv
<1>2. ASSUME NEW i \in Ids, CommitPublish(i) PROVE SyncInv'
  BY <1>0, <1>2, CommitOrders, CommitQueues, CommitServes, CommitCandidates DEF SyncInv
<1>3. ASSUME NEW w \in Workers, Claim(w) \/ Work(w) \/ WorkerCrash(w) PROVE SyncInv'
  <2>1. CandidateFollows'
    BY <1>0, <1>3, WorkerCandidates
  <2>2. CASE Claim(w)
    <3>1. StoreKept
      BY <2>2, ClaimEffect DEF StoreKept
    <3> QED BY <1>0, <2>1, <2>2, <3>1, StoreKeptKeeps, ClaimQueues, ClaimServes DEF SyncInv
  <2>3. CASE EndRun(w) \/ Load(w) \/ WorkerCrash(w)
    <3>1. StoreKept
      BY <2>3, WorkEffect DEF StoreKept, control
    <3> QED BY <1>0, <2>1, <2>3, <3>1, StoreKeptKeeps, WorkQueues, LoadServes DEF SyncInv
  <2>4. CASE Apply(w)
    <3>1. StoreKept
      BY <2>4, WorkEffect DEF StoreKept, control
    <3> QED BY <1>0, <2>1, <2>4, <3>1, StoreKeptKeeps, WorkQueues, ApplyServes DEF SyncInv
  <2>5. CASE MarkProcessed(w)
    <3>1. StoreKept
      BY <1>0, <2>5, MarkEffect DEF StoreKept
    <3> QED BY <1>0, <2>1, <2>5, <3>1, StoreKeptKeeps, MarkQueues, MarkServes DEF SyncInv
  <2> QED BY <1>3, <2>2, <2>3, <2>4, <2>5 DEF Work
<1>4. ASSUME Aside PROVE StoreInOrder' /\ QueueIsOrdered' /\ ServedFollows'
  <2>1. StoreKept
    BY <1>4 DEF Aside, StoreKept
  <2> QED BY <1>0, <1>4, <2>1, StoreKeptKeeps, AsideKeepsQueue, AsideKeepsServed
<1>5. ASSUME NEW r \in Rebuilders, NEW db \in Databases, Begin(r, db) PROVE SyncInv'
  BY <1>0, <1>4, <1>5, RebuildIsAside, BeginCandidates DEF SyncInv
<1>6. ASSUME NEW r \in Rebuilders, Step(r) \/ RebuildBreaks(r) \/ RebuildCrash(r) PROVE SyncInv'
  <2>1. CASE Activate(r)
    <3>1. StoreKept
      BY <2>1, ActivateEffect DEF StoreKept
    <3> QED BY <1>0, <2>1, <3>1, StoreKeptKeeps, ActivateQueues, ActivateServes, EndingCandidates
            DEF SyncInv
  <2>2. CASE Raise(r) \/ RebuildBreaks(r) \/ RebuildCrash(r)
    BY <1>0, <1>4, <2>2, RebuildIsAside, EndingCandidates DEF SyncInv
  <2>3. CASE Heartbeat(r) \/ Validate(r)
    BY <1>0, <1>4, <2>3, RebuildIsAside, GoingCandidates DEF SyncInv
  <2>4. CASE Reset(r) \/ Snapshot(r) \/ Copy(r) \/ Target(r) \/ Read(r) \/ Write(r)
    BY <1>0, <1>4, <2>4, RebuildIsAside, ResetCandidates, SnapshotCandidates, CopyCandidates,
       TargetCandidates, ReadCandidates, WriteCandidates DEF SyncInv
  <2> QED BY <1>6, <2>1, <2>2, <2>3, <2>4 DEF Step
<1>7. CASE LeaseExpires
  <2>1. Aside
    BY <1>7, ExpiryIsAside
  <2>2. CandidateFollows'
    <3>1. UNCHANGED <<store, graph, rebuild>>
      BY <1>7 DEF LeaseExpires
    <3> QED BY <1>0, <3>1, CandidatesKept DEF store
  <2> QED BY <1>4, <2>1, <2>2 DEF SyncInv
<1> QED BY <1>1, <1>2, <1>3, <1>5, <1>6, <1>7 DEF Next

LEMMA SyncStutter ==
    ASSUME IInv, SyncInv, UNCHANGED vars
    PROVE  SyncInv'
<1>1. Aside /\ StoreKept
  BY StutterIsAside DEF Aside, StoreKept
<1>2. CandidateFollows'
  BY CandidatesKept DEF SyncInv, vars, store
<1> QED BY <1>1, <1>2, StoreKeptKeeps, AsideKeepsQueue, AsideKeepsServed DEF SyncInv

\* The inductive invariant of what is shown: the queue is delivered oldest first, the database
\* that serves is current up to what is owed, the candidate up to the rebuild's mark.
THEOREM RebuildSynchrony ==
    ASSUME Adversity = {}
    PROVE  Spec => []SyncInv
BY RebuildInvariance, SyncInit, SyncStep, SyncStutter, PTL DEF Spec

\* ServedGraphIsCurrent (Neo4jProjectionState.current, neo4j_rebuild.py _activate): once the
\* watermark says caught up, before and after every switch, readers see the current facts.
THEOREM RebuildServesCurrent ==
    ASSUME Adversity = {}
    PROVE  Spec => []ServedGraphIsCurrent
<1>1. IInv /\ SyncInv => ServedGraphIsCurrent
  <2> SUFFICES ASSUME IInv, SyncInv, Serving PROVE graph[deployment.database] = current
    BY DEF ServedGraphIsCurrent
  <2>1. StoreInOrder /\ QueueIsOrdered /\ CleanIsCurrent
    BY DEF SyncInv, ServedFollows
  <2>2. Undone = {}
    <3>1. ASSUME NEW i \in Undone PROVE FALSE
      <4>1. i \in committed /\ deployment.projected < i /\ i <= deployment.desired
        BY <2>1, WorkIsCommitted DEF StoreInOrder, PublishInOrder
      <4>2. /\ i \in Nat /\ deployment.projected \in Nat /\ deployment.desired \in Nat
            /\ deployment.desired <= deployment.projected
        BY <4>1, WorkIsCommitted, Fields, <2>1 DEF IInv, Serving
      <4> QED BY <4>1, <4>2
    <3> QED BY <3>1
  <2>3. \A k \in Keys : graph[deployment.database][k] = current[k]
    BY <2>1, <2>2 DEF CleanIsCurrent, Clean, ShowsCurrent
  <2>4. graph[deployment.database] \in Facts /\ current \in Facts
    BY Types DEF Deployment
  <2> QED BY <2>3, <2>4 DEF Facts
<1> QED BY <1>1, RebuildInvariance, RebuildSynchrony, PTL

\* CatchUpRequestsAnalysis: whoever finishes the queue, a worker or the switch, has asked for an
\* analysis of everything committed.
THEOREM CatchUpIsAnalysed ==
    ASSUME Adversity = {}
    PROVE  Spec => []CatchUpRequestsAnalysis
<1>1. IInv /\ SyncInv => CatchUpRequestsAnalysis
  <2> SUFFICES ASSUME IInv, SyncInv, AllProcessed(delivery)
               PROVE  deployment.requested >= MaxOr(committed, 0)
    BY DEF CatchUpRequestsAnalysis
  <2>1. \A i \in committed : i <= deployment.requested
    BY DEF SyncInv, QueueIsOrdered, CatchUpIsRequested
  <2>2. MaximumOutbox \in committed \cup {0} /\ MaximumOutbox \in Nat
    BY MaximumCovers, Types
  <2>3. deployment.requested \in Nat
    BY Fields DEF IInv
  <2>4. MaximumOutbox <= deployment.requested
    BY <2>1, <2>2, <2>3
  <2> QED BY <2>2, <2>3, <2>4 DEF MaximumOutbox
<1> QED BY <1>1, RebuildInvariance, RebuildSynchrony, PTL

-----------------------------------------------------------------------------
(* What readers of the deployment's database see implements ReplicatedGraph. *)

Source == [k \in Keys |-> {current[k]} \ {NoFact}]
Served == graph[deployment.database]
Dirty == {change[i].key : i \in Undone}
InStep == IInv /\ SyncInv

LEMMA CleanKeys ==
    ASSUME InStep, NEW k \in Keys \ Dirty
    PROVE  Served[k] = current[k]
<1>1. Clean(k, {})
  BY DEF Dirty, Clean
<1> QED BY <1>1 DEF InStep, SyncInv, ServedFollows, CleanIsCurrent, ShowsCurrent, Served

LEMMA DirtyAreKeys ==
    ASSUME InStep
    PROVE  Dirty \subseteq Keys
<1>1. Undone \subseteq Allocated
  BY WorkIsCommitted DEF InStep, SyncInv
<1> QED BY <1>1 DEF InStep, SyncInv, StoreInOrder, PublishInOrder, Dirty

LEMMA InSyncOfServed ==
    ASSUME NEW k \in Keys, Served[k] = current[k]
    PROVE  Replica!InSync(k)
BY DEF Replica!InSync, Served

LEMMA ServedType ==
    ASSUME IInv
    PROVE  Served \in [Keys -> Ids \cup {NoFact}]
BY Types DEF Served, Facts, Deployment

LEMMA AsideIsStutter ==
    ASSUME Aside
    PROVE  UNCHANGED Replica!rvars
BY DEF Aside, Replica!rvars, Undone, store

LEMMA BeginPublishIsStutter ==
    ASSUME InStep, NEW k \in Keys, NEW asserts \in BOOLEAN, BeginPublish(k, asserts)
    PROVE  UNCHANGED Replica!rvars
<1>1. /\ \A j \in Undone : change'[j] = change[j]
      /\ UNCHANGED <<committed, current, control, graph, worker, rebuild, bounds>>
  BY BeginPublishEffect, WorkIsCommitted DEF InStep, SyncInv
<1>2. Undone' = Undone
  BY <1>1 DEF control, Undone
<1>3. {change'[i].key : i \in Undone'} = {change[i].key : i \in Undone}
  BY <1>1, <1>2
<1> QED BY <1>1, <1>3 DEF Replica!rvars, control

LEMMA CommitIsChange ==
    ASSUME InStep, InStep', NEW i \in Ids, CommitPublish(i)
    PROVE  Replica!Change
<1>1. /\ change[i].key \in Keys
      /\ \A k \in Keys : current'[k] = IF k = change[i].key THEN change[i].fact ELSE current[k]
      /\ \A j \in Ids : delivery'[j].status = IF j = i THEN "PENDING" ELSE delivery[j].status
      /\ deployment'.database = deployment.database
      /\ UNCHANGED <<change, graph, worker, rebuild>>
  BY CommitEffect DEF InStep, SyncInv
<1>2. Undone' = Undone \cup {i}
  BY <1>1 DEF Undone
<1>3. Dirty' = Dirty \cup {change[i].key} /\ Dirty' \subseteq Keys
  BY <1>1, <1>2, DirtyAreKeys DEF Dirty
<1>4. \A k \in Keys : Source'[k] # Source[k] => k \in Dirty'
  BY <1>1, <1>3 DEF Source
<1>5. Source' \in [Keys -> SUBSET Ids]
  <2>1. IInv'
    BY DEF InStep
  <2>2. current' \in Facts
    BY <2>1 DEF IInv, TypeOK
  <2> QED BY <2>2 DEF Source, Facts
<1>6. Served' = Served
  BY <1>1 DEF Served
<1> QED BY <1>3, <1>4, <1>5, <1>6 DEF Replica!Change, Source, Dirty, Served

\* A Neo4j transaction writes keys of its batch, which are owed a delivery.
LEMMA ApplyIsWrite ==
    ASSUME InStep, InStep', NEW w \in Workers, Apply(w)
    PROVE  Replica!Write
<1>1. /\ worker[w].pc = "loaded" /\ UNCHANGED <<store, control>>
      /\ graph' = [graph EXCEPT ![worker[w].writer] =
                       Projected(worker[w].writer, worker[w].batch, worker[w].view)]
  BY DEF Apply
<1>2. worker[w].writer = deployment.database /\ deployment.database \in Databases
  BY <1>1, Fields DEF InStep, SyncInv, QueueIsOrdered, WorkersHoldTheLease, IInv
<1>3. Source' = Source /\ Dirty' = Dirty /\ deployment' = deployment
  BY <1>1 DEF Source, Dirty, Undone, store, control
<1>4. Served' = Projected(deployment.database, worker[w].batch, worker[w].view)
  BY <1>1, <1>2, <1>3, Types DEF Served, InStep
<1>5. ASSUME NEW k \in Keys, Served'[k] # Served[k] PROVE k \in Dirty
  <2>1. PICK j \in worker[w].batch : change[j].key = k
    BY <1>4, <1>5 DEF Projected, Served
  <2>2. j \in Undone
    BY WorkIsCommitted DEF InStep, SyncInv
  <2> QED BY <2>1, <2>2 DEF Dirty
<1>6. Served' \in [Keys -> Ids \cup {NoFact}]
  <2>1. IInv'
    BY DEF InStep
  <2>2. graph' \in [Databases -> Facts]
    BY <2>1 DEF IInv, TypeOK
  <2> QED BY <1>2, <1>3, <2>2 DEF Served, Facts
<1> QED BY <1>3, <1>5, <1>6 DEF Replica!Write, Source, Dirty, Served

LEMMA MarkProcessedIsClean ==
    ASSUME InStep, InStep', NEW w \in Workers, MarkProcessed(w)
    PROVE  Replica!Clean
<1>1. /\ \A i \in Ids : /\ i \in worker[w].batch => delivery'[i].status = "PROCESSED"
                        /\ i \notin worker[w].batch => delivery'[i] = delivery[i]
      /\ deployment'.database = deployment.database /\ UNCHANGED <<store, graph>>
  BY MarkEffect DEF InStep, SyncInv
<1>2. Undone' \subseteq Undone
  BY <1>1 DEF Undone
<1>3. Source' = Source /\ Served' = Served /\ current' = current
  BY <1>1 DEF Source, Served, store
<1>4. Dirty' \subseteq Dirty
  BY <1>1, <1>2 DEF Dirty, store
<1>5. ASSUME NEW k \in Dirty \ Dirty' PROVE Replica!InSync(k)
  <2>1. k \in Keys
    BY DirtyAreKeys
  <2>2. Clean(k, {})'
    BY DEF Clean, Dirty
  <2>3. graph'[deployment'.database][k] = current'[k]
    BY <2>1, <2>2 DEF InStep, SyncInv, ServedFollows, CleanIsCurrent, ShowsCurrent
  <2>4. Served[k] = current[k]
    BY <1>3, <2>3 DEF Served
  <2> QED BY <2>1, <2>4, InSyncOfServed
<1> QED BY <1>3, <1>4, <1>5 DEF Replica!Clean, Source, Dirty, Served

\* The switch: a key owed nothing is current in both databases, one cleaned by it in the new one.
LEMMA ActivateIsSwitch ==
    ASSUME InStep, InStep', NEW r \in Rebuilders, Activate(r), "straggle" \notin Adversity
    PROVE  Replica!Switch
<1>1. /\ \A i \in Ids : IF delivery[i].status # "NONE" /\ i <= rebuild[r].mark
                        THEN delivery'[i].status = "PROCESSED" ELSE delivery'[i] = delivery[i]
      /\ UNCHANGED <<store, graph>>
  BY ActivateEffect DEF InStep
<1>2. Undone' \subseteq Undone
  BY <1>1 DEF Undone
<1>3. Source' = Source /\ current' = current /\ change' = change
  BY <1>1 DEF Source, store
<1>4. Dirty' \subseteq Dirty
  BY <1>2, <1>3 DEF Dirty
<1>5. ASSUME NEW k \in Keys \ Dirty' PROVE Served'[k] = current[k]
  <2>1. Clean(k, {})'
    BY <1>5 DEF Clean, Dirty
  <2>2. graph'[deployment'.database][k] = current'[k]
    BY <2>1 DEF InStep, SyncInv, ServedFollows, CleanIsCurrent, ShowsCurrent
  <2> QED BY <1>3, <2>2 DEF Served
<1>6. ASSUME NEW k \in Keys, Served'[k] # Served[k] PROVE k \in Dirty
  BY <1>4, <1>5, <1>6, CleanKeys
<1>7. ASSUME NEW k \in Dirty \ Dirty' PROVE Replica!InSync(k)'
  <2>1. k \in Keys /\ Served'[k] = current'[k]
    BY <1>3, <1>5, <1>7, DirtyAreKeys
  <2> QED BY <2>1 DEF Replica!InSync, Served
<1>8. Served' \in [Keys -> Ids \cup {NoFact}]
  <2>1. IInv'
    BY DEF InStep
  <2>2. graph' \in [Databases -> Facts] /\ deployment'.database \in Databases
    BY <2>1 DEF IInv, TypeOK, Deployment
  <2> QED BY <2>2 DEF Served, Facts
<1> QED BY <1>3, <1>4, <1>6, <1>7, <1>8 DEF Replica!Switch, Source, Dirty, Served

LEMMA StepRefines ==
    ASSUME InStep, InStep', [Next]_vars, Adversity = {}
    PROVE  [Replica!Next]_(Replica!rvars)
<1>1. CASE Aside
  BY <1>1, AsideIsStutter
<1>2. ASSUME NEW k \in Keys, NEW asserts \in BOOLEAN, BeginPublish(k, asserts)
      PROVE  UNCHANGED Replica!rvars
  BY <1>2, BeginPublishIsStutter
<1>3. ASSUME NEW i \in Ids, CommitPublish(i) PROVE Replica!Next
  BY <1>3, CommitIsChange DEF Replica!Next
<1>4. ASSUME NEW w \in Workers, Claim(w) \/ Work(w) \/ WorkerCrash(w)
      PROVE  Replica!Next \/ UNCHANGED Replica!rvars
  <2>1. CASE Claim(w)
    <3>1. PICK batch \in SUBSET Undone :
             /\ \A i \in Ids : /\ i \in batch => delivery'[i].status = "PROCESSING"
                               /\ i \notin batch => delivery'[i] = delivery[i]
             /\ deployment'.database = deployment.database
             /\ UNCHANGED <<store, graph>>
      BY <2>1, ClaimEffect DEF InStep
    <3>2. Undone' = Undone
      BY <3>1 DEF Undone
    <3> QED BY <3>1, <3>2 DEF Replica!rvars, store
  <2>2. CASE EndRun(w) \/ Load(w) \/ WorkerCrash(w)
    <3>1. UNCHANGED <<store, control, graph>>
      BY <2>2 DEF EndRun, Load, WorkerCrash
    <3> QED BY <3>1 DEF Replica!rvars, Undone, store, control
  <2>3. CASE Apply(w)
    BY <2>3, ApplyIsWrite DEF Replica!Next
  <2>4. CASE MarkProcessed(w)
    BY <2>4, MarkProcessedIsClean DEF Replica!Next
  <2> QED BY <1>4, <2>1, <2>2, <2>3, <2>4 DEF Work
<1>5. ASSUME NEW r \in Rebuilders, NEW db \in Databases, Begin(r, db) PROVE Aside
  BY <1>5, RebuildIsAside DEF InStep
<1>6. ASSUME NEW r \in Rebuilders, Step(r) \/ RebuildBreaks(r) \/ RebuildCrash(r)
      PROVE  Replica!Next \/ Aside
  <2>1. CASE Activate(r)
    BY <2>1, ActivateIsSwitch DEF Replica!Next
  <2>2. CASE ~Activate(r)
    BY <1>6, <2>2, RebuildIsAside DEF Step, InStep
  <2> QED BY <2>1, <2>2
<1>7. CASE LeaseExpires
  BY <1>1, <1>7, ExpiryIsAside DEF InStep
<1>8. CASE UNCHANGED vars
  BY <1>1, <1>8, StutterIsAside
<1> QED BY <1>1, <1>2, <1>3, <1>4, <1>5, <1>6, <1>7, <1>8 DEF Next

\* Refines (neo4j_rebuild.py, neo4j_project.py): through every rebuild and switch, readers of the
\* deployment's database see one replica that lags only on keys with a delivery to come.
THEOREM RebuildRefinement ==
    ASSUME Adversity = {}
    PROVE  Spec => Refines
<1>1. Init => Replica!Init
  <2> SUFFICES ASSUME Init PROVE Replica!Init
    OBVIOUS
  <2>1. /\ current = [k \in Keys |-> NoFact] /\ deployment.database \in Databases
        /\ graph = [db \in Databases |-> [k \in Keys |-> NoFact]]
        /\ delivery = [i \in Ids |-> [status |-> "NONE", owner |-> Nobody]]
    BY NamesAssumption DEF Init
  <2>2. Undone = {}
    BY <2>1 DEF Undone
  <2> QED BY <2>1, <2>2 DEF Replica!Init
<1>2. IInv /\ SyncInv => InStep
  BY DEF InStep
<1>3. InStep /\ InStep' /\ [Next]_vars => [Replica!Next]_(Replica!rvars)
  BY StepRefines
<1>4. Spec => []IInv /\ []SyncInv
  BY RebuildInvariance, RebuildSynchrony, PTL
<1> QED BY <1>1, <1>2, <1>3, <1>4, PTL DEF Spec, Refines, Replica!Spec
=============================================================================
