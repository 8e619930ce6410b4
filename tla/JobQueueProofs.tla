--------------------------- MODULE JobQueueProofs ---------------------------
(***************************************************************************)
(* The queues of MCJobQueues, one after the other, and then all of them as *)
(* they are run there: for any number of rows, attempts, mishaps, people   *)
(* and versions.                                                           *)
(***************************************************************************)
EXTENDS MCJobQueues, Extrema
-----------------------------------------------------------------------------
(* Advisory runs, for any number of workers, runs, bundles, attempts and mishaps. *)

\* A run that no worker is going to finish, and that waits for its lease or for being taken over.
Lost(i) ==
    run[i].status = "RUNNING" /\ \A w \in AdvisoryWorkers : run[i].holder = w => i \notin enricher[w].todo

\* A run is taken over only after a mishap that no other takeover of it is owed to.
AttemptsAreAccounted ==
    \A i \in AdvisoryRows :
        /\ run[i].attempt <= MaxAdvisoryAttempts + advisoryMishaps
        /\ Lost(i) => run[i].attempt < MaxAdvisoryAttempts + advisoryMishaps

\* Only running runs are leased, and a worker without a batch holds none.
LeasesAreOfRuns ==
    /\ \A i \in AdvisoryRows : run[i].holder # NoWorker => run[i].status = "RUNNING"
    /\ \A w \in AdvisoryWorkers :
           /\ enricher[w].pc \in {"resting", "scheduling"} => enricher[w].todo = {}
           /\ enricher[w].pc = "fetched" => enricher[w].got \in Bundles

\* Whoever is about to insert a row finds one.
RoomIsKept == Cardinality(Scheduling) <= Cardinality(FreeRows)

AdvisoryIInv == AdvisoryTypeOK /\ AttemptsAreAccounted /\ LeasesAreOfRuns /\ RoomIsKept

Advisory == [status : {"NONE"} \cup AdvisoryActive \cup AdvisoryEnded,
             holder : AdvisoryWorkers \cup {NoWorker},
             attempt : 1 .. MaxAdvisoryAttempts + MaxAdvisoryMishaps]
EnricherState == [pc : {"resting", "scheduling", "claimed", "fetched"},
                  todo : SUBSET AdvisoryRows, got : Bundles \cup {NoBundle}]

LEMMA AdvisoryTypes ==
    ASSUME AdvisoryIInv
    PROVE  /\ MaxAdvisoryAttempts \in Nat /\ 0 < MaxAdvisoryAttempts /\ MaxAdvisoryMishaps \in Nat
           /\ advisoryMishaps \in 0 .. MaxAdvisoryMishaps
           /\ run \in [AdvisoryRows -> Advisory] /\ enricher \in [AdvisoryWorkers -> EnricherState]
           /\ NoWorker \notin AdvisoryWorkers
BY AdvisoryAssumption DEF AdvisoryIInv, AdvisoryTypeOK, Advisory, EnricherState

LEMMA AdvisoryFacts ==
    ASSUME AdvisoryIInv, NEW i \in AdvisoryRows
    PROVE  /\ run[i] \in Advisory
           /\ run[i].attempt \in Nat /\ 1 <= run[i].attempt
           /\ run[i].attempt <= MaxAdvisoryAttempts + advisoryMishaps
           /\ Lost(i) => run[i].attempt < MaxAdvisoryAttempts + advisoryMishaps
BY AdvisoryTypes DEF AdvisoryIInv, AttemptsAreAccounted, Advisory

LEMMA RestingType == Resting \in EnricherState /\ Resting.pc = "resting" /\ Resting.todo = {}
BY DEF Resting, EnricherState

LEMMA WaitingType ==
    /\ NoAdvisory \in Advisory /\ NoAdvisory.status = "NONE" /\ NoAdvisory.holder = NoWorker
    /\ NoAdvisory.attempt = 1
    /\ Waiting \in Advisory /\ Waiting.status = "PENDING" /\ Waiting.holder = NoWorker
    /\ Waiting.attempt = 1
BY AdvisoryAssumption DEF NoAdvisory, Waiting, Advisory, AdvisoryActive

LEMMA RowsAreFinite ==
    /\ IsFiniteSet(FreeRows) /\ IsFiniteSet(Scheduling)
    /\ IsFiniteSet(FreeRows') /\ IsFiniteSet(Scheduling')
    /\ Cardinality(FreeRows) \in Nat /\ Cardinality(Scheduling) \in Nat
    /\ Cardinality(FreeRows') \in Nat /\ Cardinality(Scheduling') \in Nat
<1>1. IsFiniteSet(AdvisoryRows) /\ IsFiniteSet(AdvisoryWorkers)
  BY FS_Interval, AdvisoryAssumption DEF AdvisoryRows
<1>2. /\ FreeRows \subseteq AdvisoryRows /\ FreeRows' \subseteq AdvisoryRows
      /\ Scheduling \subseteq AdvisoryWorkers /\ Scheduling' \subseteq AdvisoryWorkers
  BY DEF FreeRows, Scheduling
<1>3. /\ IsFiniteSet(FreeRows) /\ IsFiniteSet(Scheduling)
      /\ IsFiniteSet(FreeRows') /\ IsFiniteSet(Scheduling')
  BY <1>1, <1>2, FS_Subset
<1> QED BY <1>3, FS_CardinalityType

\* Rows are not freed, and nobody starts to schedule.
LEMMA RoomStays ==
    ASSUME AdvisoryIInv, FreeRows' = FreeRows, Scheduling' \subseteq Scheduling
    PROVE  RoomIsKept'
<1>1. Cardinality(Scheduling') <= Cardinality(Scheduling)
  BY RowsAreFinite, FS_Subset
<1>2. Cardinality(FreeRows') = Cardinality(FreeRows)
  OBVIOUS
<1> QED BY <1>1, <1>2, RowsAreFinite DEF AdvisoryIInv, RoomIsKept

LEMMA QueuedEffect ==
    ASSUME AdvisoryIInv, FreeRows # {}, run' = Queued(run)
    PROVE  \E i \in FreeRows :
               /\ i \in AdvisoryRows /\ run[i].status = "NONE"
               /\ run' = [run EXCEPT ![i] = Waiting]
               /\ FreeRows' = FreeRows \ {i}
               /\ Cardinality(FreeRows') = Cardinality(FreeRows) - 1
<1> DEFINE i == Min(FreeRows)
<1>1. i \in FreeRows
  BY MinOfRows, AdvisoryAssumption DEF FreeRows, AdvisoryRows
<1>2. i \in AdvisoryRows /\ run[i].status = "NONE"
  BY <1>1 DEF FreeRows
<1>3. run' = [run EXCEPT ![i] = Waiting]
  BY DEF Queued
<1> HIDE DEF i
<1>4. FreeRows' = FreeRows \ {i}
  <2>1. \A j \in AdvisoryRows : run'[j] = IF j = i THEN Waiting ELSE run[j]
    BY <1>3, <1>2, AdvisoryTypes
  <2> QED BY <2>1, WaitingType DEF FreeRows
<1>5. Cardinality(FreeRows') = Cardinality(FreeRows) - 1
  BY <1>1, <1>4, RowsAreFinite, FS_RemoveElement
<1> QED BY <1>1, <1>2, <1>3, <1>4, <1>5

LEMMA NonemptyFree ==
    ASSUME NEW n \in Nat, n < Cardinality(FreeRows) PROVE FreeRows # {}
BY FS_EmptySet, RowsAreFinite

-----------------------------------------------------------------------------
LEMMA AdvisoryInitHolds == ASSUME AdvisoryInit PROVE AdvisoryIInv
<1>1. /\ run = [i \in AdvisoryRows |-> NoAdvisory] /\ enricher = [w \in AdvisoryWorkers |-> Resting]
      /\ advisoryMishaps = 0
  BY DEF AdvisoryInit
<1>2. AdvisoryTypeOK
  <2>1. /\ run \in [AdvisoryRows -> Advisory] /\ enricher \in [AdvisoryWorkers -> EnricherState]
        /\ advisoryMishaps \in 0 .. MaxAdvisoryMishaps
    BY <1>1, WaitingType, RestingType, AdvisoryAssumption
  <2>2. /\ osv \in Bundles /\ due \in BOOLEAN /\ bundles \subseteq Bundles /\ shown \subseteq bundles
        /\ freshness \in [status : {"NONE", "FRESH", "ERROR"}, rev : Bundles \cup {NoBundle}]
    <3>1. /\ osv = 1 /\ due = FALSE /\ bundles = {} /\ shown = {}
          /\ freshness = [status |-> "NONE", rev |-> NoBundle]
      BY DEF AdvisoryInit
    <3>2. 1 \in Bundles
      BY AdvisoryAssumption DEF Bundles
    <3> QED BY <3>1, <3>2
  <2> QED BY <2>1, <2>2 DEF AdvisoryTypeOK, Advisory, EnricherState
<1>3. AttemptsAreAccounted
  BY <1>1, WaitingType, AdvisoryAssumption DEF AttemptsAreAccounted, Lost
<1>4. LeasesAreOfRuns
  BY <1>1, WaitingType, RestingType DEF LeasesAreOfRuns
<1>5. RoomIsKept
  <2>1. Scheduling = {}
    BY <1>1, RestingType DEF Scheduling
  <2> QED BY <2>1, FS_EmptySet, RowsAreFinite DEF RoomIsKept
<1> QED BY <1>2, <1>3, <1>4, <1>5 DEF AdvisoryIInv


\* What the types have to say of the rest of the state
AdvisoryColumnsOK ==
    /\ osv \in Bundles /\ due \in BOOLEAN
    /\ bundles \subseteq Bundles /\ shown \subseteq bundles
    /\ freshness \in [status : {"NONE", "FRESH", "ERROR"}, rev : Bundles \cup {NoBundle}]
    /\ advisoryMishaps \in 0 .. MaxAdvisoryMishaps

LEMMA AdvisoryTypeSplit ==
    AdvisoryTypeOK <=> /\ run \in [AdvisoryRows -> Advisory]
                       /\ enricher \in [AdvisoryWorkers -> EnricherState]
                       /\ AdvisoryColumnsOK
BY DEF AdvisoryTypeOK, AdvisoryColumnsOK, Advisory, EnricherState

LEMMA AdvisoryTypeSplitNext ==
    ASSUME run' \in [AdvisoryRows -> Advisory], enricher' \in [AdvisoryWorkers -> EnricherState],
           AdvisoryColumnsOK'
    PROVE  AdvisoryTypeOK'
BY DEF AdvisoryTypeOK, AdvisoryColumnsOK, Advisory, EnricherState

\* Nothing happens to the runs, or one is queued; no worker takes or gives up a run.
LEMMA QueueKeeps ==
    ASSUME AdvisoryIInv,
           \/ run' = run
           \/ \E i \in AdvisoryRows : run' = [run EXCEPT ![i] = Waiting],
           enricher' \in [AdvisoryWorkers -> EnricherState],
           \A w \in AdvisoryWorkers :
               /\ enricher'[w].todo = enricher[w].todo
               /\ enricher'[w].pc \in {"resting", "scheduling"} => enricher[w].todo = {}
               /\ enricher'[w].pc = "fetched" => enricher'[w].got \in Bundles,
           advisoryMishaps' = advisoryMishaps
    PROVE  AttemptsAreAccounted' /\ LeasesAreOfRuns' /\ run' \in [AdvisoryRows -> Advisory]
<1>1. run' \in [AdvisoryRows -> Advisory]
  BY AdvisoryTypes, WaitingType
<1>2. \A j \in AdvisoryRows : run'[j] = run[j] \/ run'[j] = Waiting
  BY AdvisoryTypes
<1>3. AttemptsAreAccounted'
  BY <1>2, AdvisoryTypes, AdvisoryFacts, WaitingType DEF AttemptsAreAccounted, Lost
<1>4. LeasesAreOfRuns'
  BY <1>2, WaitingType DEF AdvisoryIInv, LeasesAreOfRuns
<1> QED BY <1>1, <1>3, <1>4

\* The enricher of a worker is set to a state that has the same batch.
LEMMA EnricherSet ==
    ASSUME AdvisoryIInv, NEW w \in AdvisoryWorkers, NEW new \in EnricherState,
           enricher' = [enricher EXCEPT ![w] = new], new.todo = enricher[w].todo,
           new.pc \in {"resting", "scheduling"} => enricher[w].todo = {},
           new.pc = "fetched" => new.got \in Bundles
    PROVE  /\ enricher' \in [AdvisoryWorkers -> EnricherState]
           /\ \A v \in AdvisoryWorkers :
               /\ enricher'[v].todo = enricher[v].todo
               /\ enricher'[v].pc \in {"resting", "scheduling"} => enricher[v].todo = {}
               /\ enricher'[v].pc = "fetched" => enricher'[v].got \in Bundles
           /\ Scheduling' = (Scheduling \ {w}) \cup (IF new.pc = "scheduling" THEN {w} ELSE {})
<1>1. enricher \in [AdvisoryWorkers -> EnricherState]
  BY AdvisoryTypes
<1>2. \A v \in AdvisoryWorkers : enricher'[v] = IF v = w THEN new ELSE enricher[v]
  BY <1>1
<1> QED BY <1>1, <1>2 DEF AdvisoryIInv, LeasesAreOfRuns, Scheduling

-----------------------------------------------------------------------------
LEMMA OutsideStep ==
    ASSUME AdvisoryIInv, UNCHANGED <<run, enricher>>, AdvisoryColumnsOK',
           advisoryMishaps' = advisoryMishaps
    PROVE  AdvisoryIInv'
<1>1. /\ enricher' \in [AdvisoryWorkers -> EnricherState]
      /\ \A w \in AdvisoryWorkers :
               /\ enricher'[w].todo = enricher[w].todo
               /\ enricher'[w].pc \in {"resting", "scheduling"} => enricher[w].todo = {}
               /\ enricher'[w].pc = "fetched" => enricher'[w].got \in Bundles
  BY AdvisoryTypes DEF AdvisoryIInv, LeasesAreOfRuns
<1>2. AttemptsAreAccounted' /\ LeasesAreOfRuns' /\ run' \in [AdvisoryRows -> Advisory]
  BY <1>1, QueueKeeps
<1>3. RoomIsKept'
  BY RoomStays DEF FreeRows, Scheduling
<1> QED BY <1>1, <1>2, <1>3, AdvisoryTypeSplitNext DEF AdvisoryIInv

LEMMA EnqueuePackageStep == ASSUME AdvisoryIInv, EnqueuePackage PROVE AdvisoryIInv'
<1>1. /\ HasRow /\ UNCHANGED <<osv, enricher, bundles, shown, freshness, advisoryMishaps>>
      /\ due' = TRUE /\ run' = IF NoneActive THEN Queued(run) ELSE run
  BY DEF EnqueuePackage
<1>2. AdvisoryColumnsOK'
  BY <1>1, AdvisoryTypeSplit DEF AdvisoryIInv, AdvisoryColumnsOK
<1>3. CASE run' = run
  BY <1>1, <1>2, <1>3, OutsideStep
<1>4. CASE run' = Queued(run)
  <2>1. Cardinality(Scheduling) < Cardinality(FreeRows)
    BY <1>1, RowsAreFinite DEF HasRow
  <2>2. PICK i \in FreeRows : /\ i \in AdvisoryRows /\ run' = [run EXCEPT ![i] = Waiting]
                              /\ Cardinality(FreeRows') = Cardinality(FreeRows) - 1
    BY <1>4, <2>1, NonemptyFree, RowsAreFinite, QueuedEffect
  <2>3. /\ enricher' \in [AdvisoryWorkers -> EnricherState]
        /\ \A w \in AdvisoryWorkers :
               /\ enricher'[w].todo = enricher[w].todo
               /\ enricher'[w].pc \in {"resting", "scheduling"} => enricher[w].todo = {}
               /\ enricher'[w].pc = "fetched" => enricher'[w].got \in Bundles
    BY <1>1, AdvisoryTypes DEF AdvisoryIInv, LeasesAreOfRuns
  <2>4. AttemptsAreAccounted' /\ LeasesAreOfRuns' /\ run' \in [AdvisoryRows -> Advisory]
    BY <1>1, <2>2, <2>3, QueueKeeps
  <2>5. Scheduling' = Scheduling
    BY <1>1 DEF Scheduling
  <2>6. RoomIsKept'
    BY <2>1, <2>2, <2>5, RowsAreFinite DEF RoomIsKept
  <2> QED BY <1>2, <2>3, <2>4, <2>6, AdvisoryTypeSplitNext DEF AdvisoryIInv
<1> QED BY <1>1, <1>3, <1>4

LEMMA ScheduleReadsStep ==
    ASSUME AdvisoryIInv, NEW w \in AdvisoryWorkers, AdvisoryScheduleReads(w) PROVE AdvisoryIInv'
<1> DEFINE new == [enricher[w] EXCEPT !.pc = "scheduling"]
<1>1. /\ HasRow /\ enricher[w].pc = "resting" /\ enricher' = [enricher EXCEPT ![w] = new]
      /\ UNCHANGED <<osv, due, run, bundles, shown, freshness, advisoryMishaps>>
  BY DEF AdvisoryScheduleReads, At
<1>2. /\ new \in EnricherState /\ new.todo = enricher[w].todo /\ new.pc = "scheduling"
      /\ enricher[w].todo = {}
  BY <1>1, AdvisoryTypes DEF EnricherState, AdvisoryIInv, LeasesAreOfRuns
<1> HIDE DEF new
<1>3. /\ enricher' \in [AdvisoryWorkers -> EnricherState]
      /\ \A v \in AdvisoryWorkers :
               /\ enricher'[v].todo = enricher[v].todo
               /\ enricher'[v].pc \in {"resting", "scheduling"} => enricher[v].todo = {}
               /\ enricher'[v].pc = "fetched" => enricher'[v].got \in Bundles
      /\ Scheduling' = (Scheduling \ {w}) \cup (IF new.pc = "scheduling" THEN {w} ELSE {})
  BY <1>1, <1>2, EnricherSet
<1>4. AttemptsAreAccounted' /\ LeasesAreOfRuns' /\ run' \in [AdvisoryRows -> Advisory]
  BY <1>1, <1>3, QueueKeeps
<1>5. Scheduling' = Scheduling \cup {w} /\ w \notin Scheduling
  BY <1>1, <1>2, <1>3 DEF Scheduling
<1>6. Cardinality(Scheduling') = Cardinality(Scheduling) + 1
  BY <1>5, RowsAreFinite, FS_AddElement
<1>7. Cardinality(FreeRows') = Cardinality(FreeRows)
  BY <1>1 DEF FreeRows
<1>8. RoomIsKept'
  BY <1>1, <1>6, <1>7, RowsAreFinite DEF RoomIsKept, HasRow
<1>9. AdvisoryColumnsOK'
  BY <1>1, AdvisoryTypeSplit DEF AdvisoryIInv, AdvisoryColumnsOK
<1> QED BY <1>3, <1>4, <1>8, <1>9, AdvisoryTypeSplitNext DEF AdvisoryIInv

LEMMA ScheduleInsertsStep ==
    ASSUME AdvisoryIInv, NEW w \in AdvisoryWorkers, AdvisoryScheduleInserts(w) PROVE AdvisoryIInv'
<1>1. /\ enricher[w].pc = "scheduling" /\ enricher' = [enricher EXCEPT ![w] = Resting]
      /\ UNCHANGED <<osv, due, bundles, shown, freshness, advisoryMishaps>>
      /\ run' = IF due THEN Queued(run) ELSE run
  BY DEF AdvisoryScheduleInserts, Rests, At
<1>2. enricher[w].todo = {}
  BY <1>1 DEF AdvisoryIInv, LeasesAreOfRuns
<1>3. /\ enricher' \in [AdvisoryWorkers -> EnricherState]
      /\ \A v \in AdvisoryWorkers :
               /\ enricher'[v].todo = enricher[v].todo
               /\ enricher'[v].pc \in {"resting", "scheduling"} => enricher[v].todo = {}
               /\ enricher'[v].pc = "fetched" => enricher'[v].got \in Bundles
      /\ Scheduling' = (Scheduling \ {w}) \cup (IF Resting.pc = "scheduling" THEN {w} ELSE {})
  BY <1>1, <1>2, RestingType, EnricherSet
<1>4. w \in Scheduling /\ Scheduling' = Scheduling \ {w}
  BY <1>1, <1>3, RestingType DEF Scheduling
<1>5. Cardinality(Scheduling') = Cardinality(Scheduling) - 1
  BY <1>4, RowsAreFinite, FS_RemoveElement
<1>6. AdvisoryColumnsOK'
  BY <1>1, AdvisoryTypeSplit DEF AdvisoryIInv, AdvisoryColumnsOK
<1>7. /\ \/ run' = run
         \/ \E i \in AdvisoryRows : run' = [run EXCEPT ![i] = Waiting]
      /\ Cardinality(FreeRows') >= Cardinality(FreeRows) - 1
  <2>1. CASE run' = run
    BY <2>1, RowsAreFinite DEF FreeRows
  <2>2. CASE run' = Queued(run)
    <3>1. 0 < Cardinality(FreeRows)
      BY <1>5, RowsAreFinite DEF AdvisoryIInv, RoomIsKept
    <3> QED BY <2>2, <3>1, NonemptyFree, RowsAreFinite, QueuedEffect
  <2> QED BY <1>1, <2>1, <2>2
<1>8. AttemptsAreAccounted' /\ LeasesAreOfRuns' /\ run' \in [AdvisoryRows -> Advisory]
  BY <1>1, <1>3, <1>7, QueueKeeps
<1>9. RoomIsKept'
  BY <1>5, <1>7, RowsAreFinite DEF AdvisoryIInv, RoomIsKept
<1> QED BY <1>3, <1>6, <1>8, <1>9, AdvisoryTypeSplitNext DEF AdvisoryIInv

LEMMA QueryStep ==
    ASSUME AdvisoryIInv, NEW w \in AdvisoryWorkers, Query(w) PROVE AdvisoryIInv'
<1> DEFINE new == [enricher[w] EXCEPT !.pc = "fetched", !.got = osv]
<1>1. /\ enricher[w].pc = "claimed" /\ enricher' = [enricher EXCEPT ![w] = new]
      /\ UNCHANGED <<osv, due, run, bundles, shown, freshness, advisoryMishaps>>
  BY DEF Query, At
<1>2. /\ new \in EnricherState /\ new.todo = enricher[w].todo /\ new.pc = "fetched"
      /\ new.got \in Bundles
  BY <1>1, AdvisoryTypes, AdvisoryTypeSplit DEF EnricherState, AdvisoryIInv, AdvisoryColumnsOK
<1> HIDE DEF new
<1>3. /\ enricher' \in [AdvisoryWorkers -> EnricherState]
      /\ \A v \in AdvisoryWorkers :
               /\ enricher'[v].todo = enricher[v].todo
               /\ enricher'[v].pc \in {"resting", "scheduling"} => enricher[v].todo = {}
               /\ enricher'[v].pc = "fetched" => enricher'[v].got \in Bundles
      /\ Scheduling' = (Scheduling \ {w}) \cup (IF new.pc = "scheduling" THEN {w} ELSE {})
  BY <1>1, <1>2, EnricherSet
<1>4. AttemptsAreAccounted' /\ LeasesAreOfRuns' /\ run' \in [AdvisoryRows -> Advisory]
  BY <1>1, <1>3, QueueKeeps
<1>5. RoomIsKept'
  BY <1>1, <1>2, <1>3, RoomStays DEF FreeRows
<1>6. AdvisoryColumnsOK'
  BY <1>1, AdvisoryTypeSplit DEF AdvisoryIInv, AdvisoryColumnsOK
<1> QED BY <1>3, <1>4, <1>5, <1>6, AdvisoryTypeSplitNext DEF AdvisoryIInv
LEMMA ClaimBatchStep ==
    ASSUME AdvisoryIInv, NEW w \in AdvisoryWorkers, NEW batch \in SUBSET AdvisoryRows,
           ClaimBatch(w, batch)
    PROVE  AdvisoryIInv'
<1> DEFINE new == [Resting EXCEPT !.pc = "claimed", !.todo = batch]
<1>1. /\ enricher[w].pc = "resting" /\ enricher' = [enricher EXCEPT ![w] = new]
      /\ \A i \in batch : Enrichable(i)
      /\ UNCHANGED <<osv, due, bundles, shown, freshness, advisoryMishaps>>
      /\ run' = [i \in AdvisoryRows |->
                   IF i \notin batch THEN run[i]
                   ELSE [status |-> "RUNNING", holder |-> w,
                         attempt |-> run[i].attempt + (IF Abandoned(i) THEN 1 ELSE 0)]]
  BY DEF ClaimBatch, At
<1>2. new \in EnricherState /\ new.todo = batch /\ new.pc = "claimed"
  BY DEF EnricherState, Resting
<1> HIDE DEF new
<1>3. /\ enricher' \in [AdvisoryWorkers -> EnricherState]
      /\ \A v \in AdvisoryWorkers : enricher'[v] = IF v = w THEN new ELSE enricher[v]
      /\ enricher[w].todo = {}
  BY <1>1, <1>2, AdvisoryTypes DEF AdvisoryIInv, LeasesAreOfRuns
<1>4. ASSUME NEW i \in batch
      PROVE  /\ run[i].status # "NONE" /\ run'[i] \in Advisory
             /\ run'[i].status = "RUNNING" /\ run'[i].holder = w
             /\ run'[i].attempt <= MaxAdvisoryAttempts + advisoryMishaps
  <2>1. i \in AdvisoryRows /\ Enrichable(i)
    BY <1>1
  <2>2. run'[i] = [status |-> "RUNNING", holder |-> w,
                   attempt |-> run[i].attempt + (IF Abandoned(i) THEN 1 ELSE 0)]
    BY <1>1, <2>1
  <2>3. Abandoned(i) => Lost(i)
    BY AdvisoryTypes DEF Abandoned, Lost
  <2>4. /\ run[i].attempt + (IF Abandoned(i) THEN 1 ELSE 0) \in Nat
        /\ 1 <= run[i].attempt + (IF Abandoned(i) THEN 1 ELSE 0)
        /\ run[i].attempt + (IF Abandoned(i) THEN 1 ELSE 0) <= MaxAdvisoryAttempts + advisoryMishaps
    <3>1. /\ run[i].attempt \in Nat /\ 1 <= run[i].attempt
          /\ run[i].attempt <= MaxAdvisoryAttempts + advisoryMishaps
          /\ Abandoned(i) => run[i].attempt < MaxAdvisoryAttempts + advisoryMishaps
      BY <2>1, <2>3, AdvisoryFacts
    <3> QED BY <3>1, AdvisoryTypes
  <2>5. run[i].status # "NONE"
    BY <2>1 DEF Enrichable, Abandoned
  <2>6. run'[i] \in Advisory
    BY <2>2, <2>4, AdvisoryTypes DEF Advisory, AdvisoryActive
  <2> QED BY <2>2, <2>4, <2>5, <2>6
<1>5. \A i \in AdvisoryRows \ batch : run'[i] = run[i]
  BY <1>1
<1>6. run' \in [AdvisoryRows -> Advisory]
  <2>1. \A i \in AdvisoryRows : run'[i] \in Advisory
    BY <1>4, <1>5, AdvisoryTypes
  <2> QED BY <1>1, <2>1
<1>7. AttemptsAreAccounted'
  <2>1. \A i \in batch : ~Lost(i)'
    BY <1>2, <1>3, <1>4 DEF Lost
  <2>2. \A i \in AdvisoryRows \ batch : Lost(i)' => Lost(i)
    BY <1>2, <1>3, <1>5 DEF Lost
  <2>3. \A i \in AdvisoryRows :
            /\ run'[i].attempt <= MaxAdvisoryAttempts + advisoryMishaps
            /\ Lost(i)' => run'[i].attempt < MaxAdvisoryAttempts + advisoryMishaps
    BY <1>4, <1>5, <2>1, <2>2, AdvisoryFacts
  <2> QED BY <1>1, <2>3 DEF AttemptsAreAccounted
<1>8. LeasesAreOfRuns'
  <2>1. \A j \in AdvisoryRows : run'[j].holder # NoWorker => run'[j].status = "RUNNING"
    <3> SUFFICES ASSUME NEW j \in AdvisoryRows, run'[j].holder # NoWorker
                 PROVE  run'[j].status = "RUNNING"
      OBVIOUS
    <3>1. CASE j \in batch
      BY <1>4, <3>1
    <3>2. CASE j \notin batch
      BY <1>5, <3>2 DEF AdvisoryIInv, LeasesAreOfRuns
    <3> QED BY <3>1, <3>2
  <2>2. \A v \in AdvisoryWorkers :
            /\ enricher'[v].pc \in {"resting", "scheduling"} => enricher'[v].todo = {}
            /\ enricher'[v].pc = "fetched" => enricher'[v].got \in Bundles
    BY <1>2, <1>3 DEF AdvisoryIInv, LeasesAreOfRuns
  <2> QED BY <2>1, <2>2 DEF LeasesAreOfRuns
<1>9. FreeRows' = FreeRows /\ Scheduling' \subseteq Scheduling
  BY <1>2, <1>3, <1>4, <1>5 DEF FreeRows, Scheduling
<1>10. AdvisoryColumnsOK'
  BY <1>1, AdvisoryTypeSplit DEF AdvisoryIInv, AdvisoryColumnsOK
<1> QED BY <1>3, <1>6, <1>7, <1>8, <1>9, <1>10, RoomStays, AdvisoryTypeSplitNext DEF AdvisoryIInv

LEMMA DoneEffect ==
    ASSUME AdvisoryIInv, NEW w \in AdvisoryWorkers, NEW i \in enricher[w].todo, Done(w, i)
    PROVE  /\ enricher' \in [AdvisoryWorkers -> EnricherState]
           /\ \A v \in AdvisoryWorkers \ {w} : enricher'[v] = enricher[v]
           /\ enricher'[w].todo = enricher[w].todo \ {i}
           /\ \/ enricher'[w].pc = "resting" /\ enricher'[w].todo = {}
              \/ enricher'[w].pc = enricher[w].pc /\ enricher'[w].got = enricher[w].got
<1> DEFINE new == IF enricher[w].todo \ {i} = {} THEN Resting
                  ELSE [enricher[w] EXCEPT !.todo = enricher[w].todo \ {i}]
<1>1. enricher' = [enricher EXCEPT ![w] = new]
  BY DEF Done
<1>2. /\ new \in EnricherState /\ new.todo = enricher[w].todo \ {i}
      /\ \/ new.pc = "resting" /\ new.todo = {}
         \/ new.pc = enricher[w].pc /\ new.got = enricher[w].got
  BY AdvisoryTypes, RestingType DEF EnricherState
<1> HIDE DEF new
<1> QED BY <1>1, <1>2, AdvisoryTypes

\* A worker is done with a run of its batch: the run is not its own any more, or it becomes
\* one that is not running.
LEMMA DoneKeeps ==
    ASSUME AdvisoryIInv, NEW w \in AdvisoryWorkers, NEW i \in enricher[w].todo,
           enricher[w].pc \in {"claimed", "fetched"}, Done(w, i), NEW new \in Advisory,
           \/ run' = run /\ ~Owns(w, i)
           \/ /\ run[i].status = "RUNNING" /\ run' = [run EXCEPT ![i] = new]
              /\ new.status \in {"PENDING"} \cup AdvisoryEnded /\ new.holder = NoWorker
              /\ new.attempt <= MaxAdvisoryAttempts,
           advisoryMishaps' = advisoryMishaps, AdvisoryColumnsOK'
    PROVE  AdvisoryIInv'
<1>1. i \in AdvisoryRows
  BY AdvisoryTypes DEF EnricherState
<1>2. /\ enricher' \in [AdvisoryWorkers -> EnricherState]
      /\ \A v \in AdvisoryWorkers \ {w} : enricher'[v] = enricher[v]
      /\ enricher'[w].todo = enricher[w].todo \ {i}
      /\ \/ enricher'[w].pc = "resting" /\ enricher'[w].todo = {}
         \/ enricher'[w].pc = enricher[w].pc /\ enricher'[w].got = enricher[w].got
  BY DoneEffect
<1>3. /\ run' \in [AdvisoryRows -> Advisory]
      /\ \A j \in AdvisoryRows \ {i} : run'[j] = run[j]
      /\ \/ run'[i] = run[i] /\ ~Owns(w, i)
         \/ /\ run[i].status = "RUNNING"
            /\ run'[i].status \in {"PENDING"} \cup AdvisoryEnded /\ run'[i].holder = NoWorker
            /\ run'[i].attempt <= MaxAdvisoryAttempts /\ run'[i].attempt \in Nat
  BY <1>1, AdvisoryTypes DEF Advisory
<1>4. AttemptsAreAccounted'
  <2>1. ASSUME NEW j \in AdvisoryRows, j # i, Lost(j)' PROVE Lost(j)
    BY <1>2, <1>3, <2>1 DEF Lost
  <2>2. ASSUME Lost(i)' PROVE Lost(i) /\ run'[i] = run[i]
    <3>1. run'[i].status = "RUNNING"
      BY <2>2 DEF Lost
    <3>2. run'[i] = run[i] /\ ~Owns(w, i)
      BY <1>3, <3>1 DEF AdvisoryEnded
    <3> QED BY <1>2, <2>2, <3>1, <3>2 DEF Lost, Owns
  <2>3. ASSUME NEW j \in AdvisoryRows
        PROVE  /\ run'[j].attempt <= MaxAdvisoryAttempts + advisoryMishaps
               /\ Lost(j)' => run'[j].attempt < MaxAdvisoryAttempts + advisoryMishaps
    <3>1. CASE run'[j] = run[j]
      BY <2>1, <2>2, <3>1, AdvisoryFacts
    <3>2. CASE run'[j] # run[j]
      <4>1. j = i /\ ~Lost(i)' /\ run'[i].attempt \in Nat /\ run'[i].attempt <= MaxAdvisoryAttempts
        BY <1>3, <2>2, <3>2
      <4> QED BY <4>1, AdvisoryTypes
    <3> QED BY <3>1, <3>2
  <2> QED BY <2>3 DEF AttemptsAreAccounted
<1>5. LeasesAreOfRuns'
  <2>1. \A j \in AdvisoryRows : run'[j].holder # NoWorker => run'[j].status = "RUNNING"
    BY <1>3 DEF AdvisoryIInv, LeasesAreOfRuns
  <2>2. \A v \in AdvisoryWorkers :
            /\ enricher'[v].pc \in {"resting", "scheduling"} => enricher'[v].todo = {}
            /\ enricher'[v].pc = "fetched" => enricher'[v].got \in Bundles
    BY <1>2 DEF AdvisoryIInv, LeasesAreOfRuns
  <2> QED BY <2>1, <2>2 DEF LeasesAreOfRuns
<1>6. FreeRows' = FreeRows /\ Scheduling' \subseteq Scheduling
  <2>1. FreeRows' = FreeRows
    BY <1>1, <1>3 DEF FreeRows, AdvisoryEnded
  <2> QED BY <1>2, <2>1 DEF Scheduling
<1> QED BY <1>2, <1>3, <1>4, <1>5, <1>6, RoomStays, AdvisoryTypeSplitNext DEF AdvisoryIInv

LEMMA EndedAsEffect ==
    ASSUME AdvisoryIInv, NEW i \in AdvisoryRows, NEW status \in AdvisoryEnded, EndedAs(i, status)
    PROVE  \E new \in Advisory :
               /\ run' = [run EXCEPT ![i] = new]
               /\ new.status \in AdvisoryEnded /\ new.holder = NoWorker
               /\ new.attempt <= MaxAdvisoryAttempts
<1> DEFINE new == [NoAdvisory EXCEPT !.status = status]
<1>1. run' = [run EXCEPT ![i] = new]
  BY DEF EndedAs
<1>2. 1 <= MaxAdvisoryAttempts
  BY AdvisoryTypes
<1>3. new \in Advisory /\ new.status = status /\ new.holder = NoWorker /\ new.attempt = 1
  BY WaitingType DEF Advisory
<1> HIDE DEF new
<1> QED BY <1>1, <1>2, <1>3

LEMMA PersistStep ==
    ASSUME AdvisoryIInv, NEW w \in AdvisoryWorkers, NEW i \in AdvisoryRows, Persist(w, i)
    PROVE  AdvisoryIInv'
<1> DEFINE b == enricher[w].got
           status == IF b \in Truncated THEN "PARTIAL" ELSE "SUCCEEDED"
<1>1. /\ enricher[w].pc = "fetched" /\ i \in enricher[w].todo /\ Done(w, i)
      /\ osv' = osv /\ advisoryMishaps' = advisoryMishaps
  BY DEF Persist, At
<1>2. b \in Bundles
  BY <1>1 DEF AdvisoryIInv, LeasesAreOfRuns
<1>3. CASE ~Owns(w, i)
  <2>1. UNCHANGED <<due, run, bundles, shown, freshness>>
    BY <1>3 DEF Persist
  <2>2. AdvisoryColumnsOK'
    BY <1>1, <2>1, AdvisoryTypeSplit DEF AdvisoryIInv, AdvisoryColumnsOK
  <2> QED BY <1>1, <1>3, <2>1, <2>2, WaitingType, DoneKeeps
<1>4. CASE Owns(w, i)
  <2>1. /\ EndedAs(i, status) /\ due' = FALSE
        /\ freshness' = [status |-> "FRESH", rev |-> b]
        /\ bundles' = bundles \cup {b}
        /\ shown' = CASE b \in bundles -> shown
                      [] b \in Truncated -> shown \cup {b}
                      [] OTHER -> {b}
    BY <1>4 DEF Persist
  <2>2. status \in AdvisoryEnded
    BY DEF AdvisoryEnded
  <2>3. AdvisoryColumnsOK'
    <3>1. shown' \subseteq bundles'
      BY <2>1, AdvisoryTypeSplit DEF AdvisoryIInv, AdvisoryColumnsOK
    <3>2. freshness' \in [status : {"NONE", "FRESH", "ERROR"}, rev : Bundles \cup {NoBundle}]
      BY <1>2, <2>1
    <3>3. /\ osv \in Bundles /\ bundles \subseteq Bundles /\ advisoryMishaps \in 0 .. MaxAdvisoryMishaps
      BY AdvisoryTypeSplit DEF AdvisoryIInv, AdvisoryColumnsOK
    <3>4. osv' \in Bundles /\ bundles' \subseteq Bundles /\ advisoryMishaps' \in 0 .. MaxAdvisoryMishaps
      BY <1>1, <1>2, <2>1, <3>3
    <3>5. due' \in BOOLEAN
      BY <2>1
    <3> QED BY <3>1, <3>2, <3>4, <3>5 DEF AdvisoryColumnsOK
  <2> HIDE DEF status
  <2>4. run[i].status = "RUNNING"
    BY <1>4 DEF Owns
  <2>5. PICK new \in Advisory :
            /\ run' = [run EXCEPT ![i] = new]
            /\ new.status \in AdvisoryEnded /\ new.holder = NoWorker
            /\ new.attempt <= MaxAdvisoryAttempts
    BY <2>1, <2>2, EndedAsEffect
  <2> QED BY <1>1, <2>3, <2>4, <2>5, DoneKeeps
<1> QED BY <1>3, <1>4
LEMMA RecordFailureStep ==
    ASSUME AdvisoryIInv, NEW w \in AdvisoryWorkers, NEW i \in AdvisoryRows,
           NEW retriable \in BOOLEAN, RecordFailure(w, i, retriable)
    PROVE  AdvisoryIInv'
<1>1. /\ enricher[w].pc \in {"claimed", "fetched"} /\ i \in enricher[w].todo /\ Done(w, i)
      /\ UNCHANGED <<osv, bundles, shown, advisoryMishaps>>
  BY DEF RecordFailure
<1>2. CASE ~Owns(w, i)
  <2>1. UNCHANGED <<due, run, freshness>>
    BY <1>2 DEF RecordFailure
  <2>2. AdvisoryColumnsOK'
    BY <1>1, <2>1, AdvisoryTypeSplit DEF AdvisoryIInv, AdvisoryColumnsOK
  <2> QED BY <1>1, <1>2, <2>1, <2>2, WaitingType, DoneKeeps
<1>3. CASE Owns(w, i) /\ retriable /\ run[i].attempt < MaxAdvisoryAttempts
  <2> DEFINE new == [Waiting EXCEPT !.attempt = run[i].attempt + 1]
  <2>1. run' = [run EXCEPT ![i] = new] /\ UNCHANGED <<due, freshness>>
    BY <1>3 DEF RecordFailure
  <2>3. run[i].attempt \in Nat /\ 1 <= run[i].attempt
    BY AdvisoryFacts
  <2>4. run[i].attempt + 1 \in 1 .. MaxAdvisoryAttempts + MaxAdvisoryMishaps
        /\ run[i].attempt + 1 <= MaxAdvisoryAttempts
    BY <1>3, <2>3, AdvisoryTypes
  <2>5. /\ new \in Advisory /\ new.status = "PENDING" /\ new.holder = NoWorker
        /\ new.attempt = run[i].attempt + 1
    BY <2>4, WaitingType DEF Advisory
  <2> HIDE DEF new
  <2>6. AdvisoryColumnsOK'
    BY <1>1, <2>1, AdvisoryTypeSplit DEF AdvisoryIInv, AdvisoryColumnsOK
  <2>7. run[i].status = "RUNNING"
    BY <1>3 DEF Owns
  <2> QED BY <1>1, <2>1, <2>4, <2>5, <2>6, <2>7, DoneKeeps
<1>4. CASE Owns(w, i) /\ ~(retriable /\ run[i].attempt < MaxAdvisoryAttempts)
  <2>1. EndedAs(i, "FAILED") /\ due' = FALSE /\ freshness' = [freshness EXCEPT !.status = "ERROR"]
    BY <1>4 DEF RecordFailure
  <2>2. "FAILED" \in AdvisoryEnded /\ run[i].status = "RUNNING"
    BY <1>4 DEF AdvisoryEnded, Owns
  <2>3. freshness' \in [status : {"NONE", "FRESH", "ERROR"}, rev : Bundles \cup {NoBundle}]
    BY <2>1, AdvisoryTypeSplit DEF AdvisoryIInv, AdvisoryColumnsOK
  <2>4. AdvisoryColumnsOK'
    BY <1>1, <2>1, <2>3, AdvisoryTypeSplit DEF AdvisoryIInv, AdvisoryColumnsOK
  <2>5. PICK new \in Advisory :
            /\ run' = [run EXCEPT ![i] = new]
            /\ new.status \in AdvisoryEnded /\ new.holder = NoWorker
            /\ new.attempt <= MaxAdvisoryAttempts
    BY <2>1, <2>2, EndedAsEffect
  <2> QED BY <1>1, <2>2, <2>4, <2>5, DoneKeeps
<1> QED BY <1>2, <1>3, <1>4

LEMMA MishapCounts ==
    ASSUME AdvisoryIInv, AdvisoryMishap
    PROVE  /\ advisoryMishaps' = advisoryMishaps + 1 /\ advisoryMishaps' \in 0 .. MaxAdvisoryMishaps
           /\ \A i \in AdvisoryRows : run[i].attempt < MaxAdvisoryAttempts + advisoryMishaps'
<1>1. advisoryMishaps < MaxAdvisoryMishaps /\ advisoryMishaps' = advisoryMishaps + 1
  BY DEF AdvisoryMishap
<1>2. advisoryMishaps \in Nat /\ MaxAdvisoryMishaps \in Nat /\ MaxAdvisoryAttempts \in Nat
  BY AdvisoryTypes
<1>3. \A i \in AdvisoryRows :
          run[i].attempt \in Nat /\ run[i].attempt <= MaxAdvisoryAttempts + advisoryMishaps
  BY AdvisoryFacts
<1> QED BY <1>1, <1>2, <1>3

LEMMA EnricherCrashStep ==
    ASSUME AdvisoryIInv, NEW w \in AdvisoryWorkers, EnricherCrash(w) PROVE AdvisoryIInv'
<1>1. /\ AdvisoryMishap /\ enricher' = [enricher EXCEPT ![w] = Resting]
      /\ UNCHANGED <<osv, due, run, bundles, shown, freshness>>
  BY DEF EnricherCrash, Rests
<1>2. /\ enricher' \in [AdvisoryWorkers -> EnricherState]
      /\ \A v \in AdvisoryWorkers : enricher'[v] = IF v = w THEN Resting ELSE enricher[v]
  BY <1>1, RestingType, AdvisoryTypes
<1>3. AttemptsAreAccounted'
  <2>1. \A i \in AdvisoryRows : /\ run'[i].attempt \in Nat
                                /\ run'[i].attempt < MaxAdvisoryAttempts + advisoryMishaps'
    BY <1>1, MishapCounts, AdvisoryFacts
  <2>2. advisoryMishaps' \in Nat /\ MaxAdvisoryAttempts \in Nat
    BY <1>1, MishapCounts, AdvisoryTypes
  <2> QED BY <2>1, <2>2 DEF AttemptsAreAccounted
<1>4. LeasesAreOfRuns'
  BY <1>1, <1>2, RestingType DEF AdvisoryIInv, LeasesAreOfRuns
<1>5. RoomIsKept'
  <2>1. FreeRows' = FreeRows /\ Scheduling' \subseteq Scheduling
    BY <1>1, <1>2, RestingType DEF FreeRows, Scheduling
  <2> QED BY <2>1, RoomStays
<1>6. AdvisoryColumnsOK'
  BY <1>1, MishapCounts, AdvisoryTypeSplit DEF AdvisoryIInv, AdvisoryColumnsOK
<1>7. run' \in [AdvisoryRows -> Advisory]
  BY <1>1, AdvisoryTypes
<1> QED BY <1>2, <1>3, <1>4, <1>5, <1>6, <1>7, AdvisoryTypeSplitNext DEF AdvisoryIInv

LEMMA AdvisoryLeaseExpiresStep ==
    ASSUME AdvisoryIInv, NEW i \in AdvisoryRows, AdvisoryLeaseExpires(i) PROVE AdvisoryIInv'
<1>1. /\ run[i].holder # NoWorker
      /\ IF i \in enricher[run[i].holder].todo THEN AdvisoryMishap ELSE UNCHANGED advisoryMishaps
      /\ run' = [run EXCEPT ![i].holder = NoWorker]
      /\ UNCHANGED <<osv, due, enricher, bundles, shown, freshness>>
  BY DEF AdvisoryLeaseExpires
<1>2. /\ run' \in [AdvisoryRows -> Advisory]
      /\ \A j \in AdvisoryRows : /\ run'[j].status = run[j].status /\ run'[j].attempt = run[j].attempt
                                 /\ run'[j].holder = IF j = i THEN NoWorker ELSE run[j].holder
  BY <1>1, AdvisoryTypes DEF Advisory
<1>3. advisoryMishaps' \in 0 .. MaxAdvisoryMishaps
  BY <1>1, MishapCounts, AdvisoryTypes
<1>4. AttemptsAreAccounted'
  <2>1. CASE i \in enricher[run[i].holder].todo
    <3>1. \A j \in AdvisoryRows : /\ run'[j].attempt \in Nat
                                  /\ run'[j].attempt < MaxAdvisoryAttempts + advisoryMishaps'
      BY <1>1, <1>2, <2>1, MishapCounts, AdvisoryFacts
    <3>2. advisoryMishaps' \in Nat /\ MaxAdvisoryAttempts \in Nat
      BY <1>3, AdvisoryTypes
    <3> QED BY <3>1, <3>2 DEF AttemptsAreAccounted
  <2>2. CASE i \notin enricher[run[i].holder].todo
    <3>1. \A j \in AdvisoryRows : Lost(j)' => Lost(j)
      BY <1>1, <1>2, <2>2 DEF Lost
    <3>2. \A j \in AdvisoryRows :
              /\ run'[j].attempt <= MaxAdvisoryAttempts + advisoryMishaps
              /\ Lost(j)' => run'[j].attempt < MaxAdvisoryAttempts + advisoryMishaps
      BY <1>2, <3>1, AdvisoryFacts
    <3> QED BY <1>1, <2>2, <3>2 DEF AttemptsAreAccounted
  <2> QED BY <2>1, <2>2
<1>5. LeasesAreOfRuns'
  BY <1>1, <1>2 DEF AdvisoryIInv, LeasesAreOfRuns
<1>6. RoomIsKept'
  <2>1. FreeRows' = FreeRows /\ Scheduling' = Scheduling
    BY <1>1, <1>2 DEF FreeRows, Scheduling
  <2> QED BY <2>1, RoomStays
<1>7. AdvisoryColumnsOK'
  BY <1>1, <1>3, AdvisoryTypeSplit DEF AdvisoryIInv, AdvisoryColumnsOK
<1>8. enricher' \in [AdvisoryWorkers -> EnricherState]
  BY <1>1, AdvisoryTypes
<1> QED BY <1>2, <1>4, <1>5, <1>6, <1>7, <1>8, AdvisoryTypeSplitNext DEF AdvisoryIInv

LEMMA AdvisoryStepHolds ==
    ASSUME AdvisoryIInv, [AdvisoryNext]_advisoryVars PROVE AdvisoryIInv'
<1>1. ASSUME NEW b \in Bundles, Republish(b) PROVE AdvisoryIInv'
  <2>1. AdvisoryColumnsOK'
    BY <1>1, AdvisoryTypeSplit DEF Republish, AdvisoryIInv, AdvisoryColumnsOK
  <2> QED BY <1>1, <2>1, OutsideStep DEF Republish
<1>2. CASE EnqueuePackage
  BY <1>2, EnqueuePackageStep
<1>3. CASE RefreshElapses
  <2>1. AdvisoryColumnsOK'
    BY <1>3, AdvisoryTypeSplit DEF RefreshElapses, AdvisoryIInv, AdvisoryColumnsOK
  <2> QED BY <1>3, <2>1, OutsideStep DEF RefreshElapses
<1>4. ASSUME NEW w \in AdvisoryWorkers, AdvisoryScheduleReads(w) PROVE AdvisoryIInv'
  BY <1>4, ScheduleReadsStep
<1>5. ASSUME NEW w \in AdvisoryWorkers, AdvisoryWork(w) PROVE AdvisoryIInv'
  BY <1>5, ScheduleInsertsStep, QueryStep, PersistStep DEF AdvisoryWork
<1>6. ASSUME NEW w \in AdvisoryWorkers, EnricherCrash(w) PROVE AdvisoryIInv'
  BY <1>6, EnricherCrashStep
<1>7. ASSUME NEW w \in AdvisoryWorkers, NEW batch \in SUBSET AdvisoryRows, ClaimBatch(w, batch)
      PROVE  AdvisoryIInv'
  BY <1>7, ClaimBatchStep
<1>8. ASSUME NEW w \in AdvisoryWorkers, NEW i \in AdvisoryRows, NEW retriable \in BOOLEAN,
             RecordFailure(w, i, retriable)
      PROVE  AdvisoryIInv'
  BY <1>8, RecordFailureStep
<1>9. ASSUME NEW i \in AdvisoryRows, AdvisoryLeaseExpires(i) PROVE AdvisoryIInv'
  BY <1>9, AdvisoryLeaseExpiresStep
<1>10. CASE UNCHANGED advisoryVars
  <2>1. AdvisoryColumnsOK'
    BY <1>10, AdvisoryTypeSplit DEF advisoryVars, AdvisoryIInv, AdvisoryColumnsOK
  <2> QED BY <1>10, <2>1, OutsideStep DEF advisoryVars
<1> QED BY <1>1, <1>2, <1>3, <1>4, <1>5, <1>6, <1>7, <1>8, <1>9, <1>10 DEF AdvisoryNext

\* Runs are leased, retried and taken over within the attempts that the policy and the
\* mishaps so far account for.
THEOREM AdvisoryInvariance == AdvisorySpec => []AdvisoryIInv
<1>1. AdvisoryIInv /\ [AdvisoryNext]_advisoryVars => AdvisoryIInv'
  BY AdvisoryStepHolds
<1> QED BY <1>1, AdvisoryInitHolds, PTL DEF AdvisorySpec

\* A run that has ended is not published for, failed or queued again.
LEMMA EndedAdvisoriesKept ==
    ASSUME AdvisoryIInv, AdvisoryNext, NEW i \in AdvisoryRows, run[i].status \in AdvisoryEnded
    PROVE  run'[i].status = run[i].status
<1> USE AdvisoryTypes
<1>1. run[i].status \notin {"NONE", "PENDING", "RUNNING"} /\ i \notin FreeRows
  BY DEF AdvisoryEnded, FreeRows
<1>2. CASE run' = run
  BY <1>2
<1>3. ASSUME FreeRows # {}, run' = Queued(run) PROVE run'[i].status = run[i].status
  BY <1>1, <1>3, QueuedEffect
<1>4. CASE EnqueuePackage
  <2>1. FreeRows # {}
    BY <1>4, NonemptyFree, RowsAreFinite DEF EnqueuePackage, HasRow
  <2> QED BY <1>2, <1>3, <1>4, <2>1 DEF EnqueuePackage
<1>5. ASSUME NEW w \in AdvisoryWorkers, AdvisoryScheduleInserts(w)
      PROVE  run'[i].status = run[i].status
  <2>1. w \in Scheduling
    BY <1>5 DEF AdvisoryScheduleInserts, At, Scheduling
  <2>2. 0 < Cardinality(Scheduling)
    BY <2>1, FS_EmptySet, RowsAreFinite
  <2>3. FreeRows # {}
    BY <2>2, NonemptyFree, RowsAreFinite DEF AdvisoryIInv, RoomIsKept
  <2> QED BY <1>2, <1>3, <1>5, <2>3 DEF AdvisoryScheduleInserts
<1>6. ASSUME NEW w \in AdvisoryWorkers, NEW batch \in SUBSET AdvisoryRows, ClaimBatch(w, batch)
      PROVE  run'[i].status = run[i].status
  <2>1. i \notin batch
    BY <1>1, <1>6 DEF ClaimBatch, Enrichable, Abandoned
  <2> QED BY <1>6, <2>1 DEF ClaimBatch
<1>7. ASSUME NEW w \in AdvisoryWorkers, NEW j \in AdvisoryRows, Persist(w, j)
      PROVE  run'[i].status = run[i].status
  <2>1. CASE ~Owns(w, j)
    BY <1>2, <1>7, <2>1 DEF Persist
  <2>2. CASE Owns(w, j)
    <3>1. i # j
      BY <1>1, <2>2 DEF Owns
    <3> QED BY <1>7, <2>2, <3>1 DEF Persist, EndedAs
  <2> QED BY <2>1, <2>2
<1>8. ASSUME NEW w \in AdvisoryWorkers, NEW j \in AdvisoryRows, NEW retriable \in BOOLEAN,
             RecordFailure(w, j, retriable)
      PROVE  run'[i].status = run[i].status
  <2>1. CASE ~Owns(w, j)
    BY <1>2, <1>8, <2>1 DEF RecordFailure
  <2>2. CASE Owns(w, j)
    <3>1. i # j
      BY <1>1, <2>2 DEF Owns
    <3> QED BY <1>8, <2>2, <3>1 DEF RecordFailure, EndedAs
  <2> QED BY <2>1, <2>2
<1>9. ASSUME NEW j \in AdvisoryRows, AdvisoryLeaseExpires(j) PROVE run'[i].status = run[i].status
  BY <1>9 DEF AdvisoryLeaseExpires, Advisory
<1>10. ASSUME NEW w \in AdvisoryWorkers,
              AdvisoryScheduleReads(w) \/ Query(w) \/ EnricherCrash(w)
       PROVE  run'[i].status = run[i].status
  BY <1>2, <1>10 DEF AdvisoryScheduleReads, Query, EnricherCrash
<1>11. ASSUME NEW b \in Bundles, Republish(b) \/ RefreshElapses PROVE run'[i].status = run[i].status
  BY <1>2, <1>11 DEF Republish, RefreshElapses
<1>12. CASE RefreshElapses
  BY <1>2, <1>12 DEF RefreshElapses
<1> QED BY <1>4, <1>5, <1>6, <1>7, <1>8, <1>9, <1>10, <1>11, <1>12 DEF AdvisoryNext, AdvisoryWork

\* A worker that lost its lease in the middle of a batch neither publishes for a run that has
\* ended, nor fails it, nor queues it again.
THEOREM EndedAdvisoriesAreFinal == AdvisorySpec => EndedAdvisoriesStayEnded
<1>1. AdvisoryIInv /\ [AdvisoryNext]_advisoryVars =>
        [\A i \in AdvisoryRows :
           run[i].status \in AdvisoryEnded => run'[i].status = run[i].status]_advisoryVars
  BY EndedAdvisoriesKept
<1> QED BY <1>1, AdvisoryInvariance, PTL DEF AdvisorySpec, EndedAdvisoriesStayEnded
-----------------------------------------------------------------------------
(* What one embedding worker leaves behind is never older than a job that  *)
(* has succeeded, for any number of texts, changes, jobs, attempts and     *)
(* mishaps.                                                                *)

\* One worker process is deployed.
OneEmbedder == \A v, w \in Embedders : v = w

\* A job is enqueued for the document of then; one that waits has an attempt left.
JobsAreOfThePast ==
    \A i \in EmbeddingRows :
        /\ embedding[i].status # "NONE" => embedding[i].since <= changes
        /\ embedding[i].status \in {"PENDING", "RETRY_WAIT"} => embedding[i].attempt < MaxEmbeddingAttempts

\* The worker has a document no older than its job, and none older than the one stored.
ReadsAreRecent ==
    \A w \in Embedders : ~Works(w, "resting") =>
        /\ embedder[w].job \in EmbeddingRows
        /\ embedding[embedder[w].job].status # "NONE"
        /\ embedding[embedder[w].job].attempt = embedder[w].attempt
        /\ Works(w, "rendered") => /\ embedding[embedder[w].job].since <= embedder[w].read
                                   /\ vector <= embedder[w].read /\ embedder[w].read <= changes

EmbeddingIInv ==
    /\ EmbeddingTypeOK /\ JobsAreOfThePast /\ ReadsAreRecent
    /\ vector <= changes /\ SucceededJobsAreStored

-----------------------------------------------------------------------------
EmbeddingRow == [status : {"NONE"} \cup InFlight \cup EmbeddingEnded,
                 hash : Texts \cup {NoText, FactToken}, since : Documents,
                 attempt : 0 .. MaxEmbeddingAttempts, leased : BOOLEAN]
EmbedderState == [pc : {"resting", "claimed", "rendered"}, job : EmbeddingRows \cup {NoEmbedding},
                  attempt : 0 .. MaxEmbeddingAttempts, read : Documents]

LEMMA EmbeddingTypes ==
    ASSUME EmbeddingIInv
    PROVE  /\ text \in Texts \cup {NoText} /\ changes \in Documents /\ vector \in Documents
           /\ Documents = 0 .. MaxDocumentChanges /\ MaxDocumentChanges \in Nat
           /\ MaxEmbeddingAttempts \in Nat /\ 0 < MaxEmbeddingAttempts
           /\ embedding \in [EmbeddingRows -> EmbeddingRow] /\ embedder \in [Embedders -> EmbedderState]
           /\ embeddingMishaps \in 0 .. MaxEmbeddingMishaps /\ MaxEmbeddingMishaps \in Nat
           /\ JobsAreOfThePast /\ ReadsAreRecent /\ vector <= changes /\ SucceededJobsAreStored
BY EmbeddingAssumption DEF EmbeddingIInv, EmbeddingTypeOK, EmbeddingRow, EmbedderState, Documents

LEMMA RowFields ==
    ASSUME NEW row \in EmbeddingRow
    PROVE  row.since \in Documents /\ row.attempt \in 0 .. MaxEmbeddingAttempts
BY DEF EmbeddingRow

LEMMA EmbedderAtRestType == AtRest \in EmbedderState /\ AtRest.pc = "resting"
BY EmbeddingAssumption DEF AtRest, EmbedderState, Documents, NoDocument

\* Rows are taken that are free.
LEMMA FreeRow ==
    ASSUME FreeJobs # {}
    PROVE  Min(FreeJobs) \in EmbeddingRows /\ embedding[Min(FreeJobs)].status = "NONE"
<1>1. FreeJobs \in SUBSET (1 .. MaxEmbeddingJobs) /\ MaxEmbeddingJobs \in Nat
  BY EmbeddingAssumption DEF FreeJobs, EmbeddingRows
<1>2. Min(FreeJobs) \in FreeJobs
  BY <1>1, MinOfRows
<1> QED BY <1>2 DEF FreeJobs

\* A new row takes a free one and leaves the others, whether or not the hash is in flight.
NewJobIn(rows) ==
    /\ rows \in [EmbeddingRows -> EmbeddingRow]
    /\ \A i \in EmbeddingRows : rows[i] = embedding[i]
           \/ /\ embedding[i].status = "NONE" /\ rows[i].status = "PENDING"
              /\ rows[i].since = changes' /\ rows[i].attempt = 0

LEMMA EnqueueEmbeddingKeeps ==
    ASSUME EmbeddingIInv, NEW hash \in Texts \cup {NoText, FactToken}, changes' \in Documents
    PROVE  /\ FreeJobs # {} => NewJobIn(WithJob(hash))
           /\ RoomFor(hash) => NewJobIn(Enqueued(hash))
<1> DEFINE row == [NoJob EXCEPT !.status = "PENDING", !.hash = hash, !.since = changes']
           free == Min(FreeJobs)
<1>1. embedding \in [EmbeddingRows -> EmbeddingRow]
  BY EmbeddingTypes
<1>2. /\ row \in EmbeddingRow /\ row.status = "PENDING" /\ row.since = changes' /\ row.attempt = 0
  <2>1. /\ 0 \in 0 .. MaxEmbeddingAttempts /\ NoDocument \in Documents
        /\ "PENDING" \in {"NONE"} \cup InFlight \cup EmbeddingEnded
    BY EmbeddingAssumption DEF InFlight, NoDocument, Documents
  <2>2. NoJob \in EmbeddingRow /\ NoJob.attempt = 0
    BY <2>1 DEF NoJob, EmbeddingRow
  <2> QED BY <2>1, <2>2 DEF EmbeddingRow
<1>3. FreeJobs # {} => free \in EmbeddingRows /\ embedding[free].status = "NONE"
  BY FreeRow
<1>4. WithJob(hash) = [embedding EXCEPT ![free] = row]
  BY Zenon DEF WithJob
<1>5. RoomFor(hash) =>
          Enqueued(hash) = embedding \/ (FreeJobs # {} /\ Enqueued(hash) = WithJob(hash))
  BY Zenon DEF Enqueued, RoomFor
<1> HIDE DEF row, free
<1>6. FreeJobs # {} => NewJobIn(WithJob(hash))
  BY <1>1, <1>2, <1>3, <1>4 DEF NewJobIn
<1>7. NewJobIn(embedding)
  BY <1>1 DEF NewJobIn
<1> QED BY <1>5, <1>6, <1>7

-----------------------------------------------------------------------------
(* Changes and backfills.                                                  *)

LEMMA EnqueueStep ==
    ASSUME EmbeddingIInv, changes' \in Documents, changes <= changes',
           text' \in Texts \cup {NoText}, NewJobIn(embedding'),
           UNCHANGED <<vector, embedder, embeddingMishaps>>
    PROVE  EmbeddingIInv'
<1>1. /\ embedding' \in [EmbeddingRows -> EmbeddingRow]
      /\ \A i \in EmbeddingRows : embedding'[i] = embedding[i]
             \/ /\ embedding[i].status = "NONE" /\ embedding'[i].status = "PENDING"
                /\ embedding'[i].since = changes' /\ embedding'[i].attempt = 0
  BY DEF NewJobIn
<1>2. EmbeddingTypeOK'
  BY <1>1, EmbeddingTypes DEF EmbeddingTypeOK, EmbeddingRow, EmbedderState
<1>3. JobsAreOfThePast'
  <2>1. ASSUME NEW i \in EmbeddingRows
        PROVE  /\ embedding'[i].status # "NONE" => embedding'[i].since <= changes'
               /\ embedding'[i].status \in {"PENDING", "RETRY_WAIT"}
                      => embedding'[i].attempt < MaxEmbeddingAttempts
    <3>1. CASE embedding'[i] = embedding[i]
      <4>1. embedding[i].since \in Documents
        BY EmbeddingTypes, RowFields
      <4>2. /\ embedding[i].status # "NONE" => embedding[i].since <= changes
            /\ embedding[i].status \in {"PENDING", "RETRY_WAIT"}
                   => embedding[i].attempt < MaxEmbeddingAttempts
        BY EmbeddingTypes DEF JobsAreOfThePast
      <4> QED BY <3>1, <4>1, <4>2, EmbeddingTypes
    <3>2. CASE embedding'[i] # embedding[i]
      BY <1>1, <3>2, EmbeddingTypes
    <3> QED BY <3>1, <3>2
  <2> QED BY <2>1 DEF JobsAreOfThePast
<1>4. ReadsAreRecent'
  <2>1. ASSUME NEW w \in Embedders, ~Works(w, "resting")
        PROVE  /\ embedder[w].job \in EmbeddingRows
               /\ embedding'[embedder[w].job] = embedding[embedder[w].job]
               /\ embedding[embedder[w].job].status # "NONE"
               /\ embedding[embedder[w].job].attempt = embedder[w].attempt
               /\ Works(w, "rendered") => /\ embedding[embedder[w].job].since <= embedder[w].read
                                          /\ vector <= embedder[w].read /\ embedder[w].read <= changes'
    <3>1. /\ embedder[w].job \in EmbeddingRows
          /\ embedding[embedder[w].job].status # "NONE"
          /\ embedding[embedder[w].job].attempt = embedder[w].attempt
          /\ Works(w, "rendered") => /\ embedding[embedder[w].job].since <= embedder[w].read
                                     /\ vector <= embedder[w].read /\ embedder[w].read <= changes
      BY <2>1, EmbeddingTypes DEF ReadsAreRecent
    <3>2. embedder[w].read \in Documents
      BY EmbeddingTypes DEF EmbedderState
    <3> QED BY <1>1, <3>1, <3>2, EmbeddingTypes
  <2> QED BY <2>1 DEF ReadsAreRecent, Works
<1>5. SucceededJobsAreStored'
  BY <1>1, EmbeddingTypes DEF SucceededJobsAreStored
<1>6. vector' <= changes'
  BY EmbeddingTypes
<1> QED BY <1>2, <1>3, <1>4, <1>5, <1>6 DEF EmbeddingIInv

LEMMA ChangeStep ==
    ASSUME EmbeddingIInv,
           (\E t \in Texts : ChangeEntity(t)) \/ ChangeFact \/ RenameNeighbour \/ BackfillEntity
    PROVE  EmbeddingIInv'
<1>1. DocumentChanges => changes' \in Documents /\ changes <= changes'
  BY EmbeddingTypes DEF DocumentChanges
<1>2. ASSUME NEW t \in Texts, ChangeEntity(t) PROVE EmbeddingIInv'
  <2>1. /\ RoomFor(t) /\ changes' \in Documents /\ changes <= changes'
        /\ text' = t /\ embedding' = Enqueued(t) /\ UNCHANGED <<vector, embedder, embeddingMishaps>>
    BY <1>1, <1>2 DEF ChangeEntity
  <2>2. NewJobIn(embedding')
    BY <2>1, EnqueueEmbeddingKeeps
  <2> QED BY <2>1, <2>2, EnqueueStep
<1>3. CASE ChangeFact
  <2>1. /\ FreeJobs # {} /\ changes' \in Documents /\ changes <= changes'
        /\ embedding' = WithJob(FactToken) /\ UNCHANGED <<text, vector, embedder, embeddingMishaps>>
    BY <1>1, <1>3 DEF ChangeFact
  <2>2. NewJobIn(embedding')
    BY <2>1, EnqueueEmbeddingKeeps
  <2> QED BY <2>1, <2>2, EnqueueStep, EmbeddingTypes
<1>4. CASE RenameNeighbour
  <2>1. /\ changes' \in Documents /\ changes <= changes'
        /\ UNCHANGED <<text, vector, embedding, embedder, embeddingMishaps>>
    BY <1>1, <1>4 DEF RenameNeighbour
  <2>2. NewJobIn(embedding')
    BY <2>1, EmbeddingTypes DEF NewJobIn
  <2> QED BY <2>1, <2>2, EnqueueStep, EmbeddingTypes
<1>5. CASE BackfillEntity
  <2>1. /\ RoomFor(text) /\ changes' = changes /\ text \in Texts \cup {NoText}
        /\ embedding' = Enqueued(text) /\ UNCHANGED <<text, vector, embedder, embeddingMishaps>>
    BY <1>5, EmbeddingTypes DEF BackfillEntity
  <2>2. changes' \in Documents /\ changes <= changes'
    BY <2>1, EmbeddingTypes
  <2>3. NewJobIn(embedding')
    BY <2>1, <2>2, EnqueueEmbeddingKeeps
  <2> QED BY <2>1, <2>2, <2>3, EnqueueStep
<1> QED BY <1>2, <1>3, <1>4, <1>5

-----------------------------------------------------------------------------
(* The worker and the leases.                                              *)

\* The jobs stay those of their documents, and what is held and stored is no older than them.
LEMMA QueueMoves ==
    ASSUME EmbeddingIInv,
           embedding' \in [EmbeddingRows -> EmbeddingRow], embedder' \in [Embedders -> EmbedderState],
           \A i \in EmbeddingRows :
               /\ embedding'[i].status = "NONE" <=> embedding[i].status = "NONE"
               /\ embedding'[i].since = embedding[i].since
               /\ embedding'[i].status \in {"PENDING", "RETRY_WAIT"}
                      => embedding'[i].attempt < MaxEmbeddingAttempts
               /\ embedding'[i].status = "SUCCEEDED" => embedding[i].since <= vector',
           \A v \in Embedders : embedder'[v].pc # "resting" =>
               /\ embedder'[v].job \in EmbeddingRows
               /\ embedding'[embedder'[v].job].status # "NONE"
               /\ embedding'[embedder'[v].job].attempt = embedder'[v].attempt
               /\ embedder'[v].pc = "rendered" =>
                      /\ embedding[embedder'[v].job].since <= embedder'[v].read
                      /\ vector' <= embedder'[v].read /\ embedder'[v].read <= changes,
           vector' \in Documents, vector' <= changes,
           embeddingMishaps' \in 0 .. MaxEmbeddingMishaps, UNCHANGED <<text, changes>>
    PROVE  EmbeddingIInv'
<1>1. EmbeddingTypeOK'
  BY EmbeddingTypes DEF EmbeddingTypeOK, EmbeddingRow, EmbedderState
<1>2. JobsAreOfThePast'
  BY EmbeddingTypes DEF JobsAreOfThePast
<1>3. ReadsAreRecent'
  BY DEF ReadsAreRecent, Works
<1>4. SucceededJobsAreStored' /\ vector' <= changes'
  BY DEF SucceededJobsAreStored
<1> QED BY <1>1, <1>2, <1>3, <1>4 DEF EmbeddingIInv

LEMMA RecoverStep ==
    ASSUME EmbeddingIInv, OneEmbedder, NEW w \in Embedders, RecoverExpired(w)
    PROVE  EmbeddingIInv'
<1>1. \A v \in Embedders : embedder[v].pc = "resting"
  BY DEF RecoverExpired, Works, OneEmbedder
<1>2. UNCHANGED <<text, changes, vector, embedder, embeddingMishaps>>
  BY DEF RecoverExpired
<1>3. ASSUME NEW i \in EmbeddingRows
      PROVE  /\ embedding'[i] \in EmbeddingRow
             /\ embedding'[i].status = "NONE" <=> embedding[i].status = "NONE"
             /\ embedding'[i].since = embedding[i].since
             /\ embedding'[i].status \in {"PENDING", "RETRY_WAIT"}
                    => embedding'[i].attempt < MaxEmbeddingAttempts
             /\ embedding'[i].status = "SUCCEEDED" => embedding[i].since <= vector
  <2> DEFINE row == [embedding[i] EXCEPT !.status = Recovered(i)]
  <2>1. embedding'[i] = IF LeaseExpired(i) THEN row ELSE embedding[i]
    BY DEF RecoverExpired
  <2>2. embedding[i] \in EmbeddingRow /\ embedding[i].attempt \in 0 .. MaxEmbeddingAttempts
    BY EmbeddingTypes, RowFields
  <2>3. /\ Recovered(i) \in {"DEAD_LETTER", "RETRY_WAIT"}
        /\ Recovered(i) = "RETRY_WAIT" => embedding[i].attempt < MaxEmbeddingAttempts
    BY <2>2, EmbeddingTypes DEF Recovered
  <2>4. /\ row \in EmbeddingRow /\ row.status = Recovered(i) /\ row.since = embedding[i].since
        /\ row.attempt = embedding[i].attempt
    BY <2>2, <2>3 DEF EmbeddingRow, InFlight, EmbeddingEnded
  <2> HIDE DEF row
  <2>5. CASE LeaseExpired(i)
    BY <2>1, <2>3, <2>4, <2>5 DEF LeaseExpired
  <2>6. CASE ~LeaseExpired(i)
    BY <2>1, <2>2, <2>6, EmbeddingTypes DEF JobsAreOfThePast, SucceededJobsAreStored
  <2> QED BY <2>5, <2>6
<1>4. embedding' \in [EmbeddingRows -> EmbeddingRow]
  <2>1. embedding' = [i \in EmbeddingRows |->
            IF LeaseExpired(i) THEN [embedding[i] EXCEPT !.status = Recovered(i)] ELSE embedding[i]]
    BY DEF RecoverExpired
  <2>2. \A i \in EmbeddingRows : embedding'[i] \in EmbeddingRow
    BY <1>3
  <2> QED BY <2>1, <2>2
<1> QED BY <1>1, <1>2, <1>3, <1>4, EmbeddingTypes, QueueMoves

LEMMA ClaimEmbeddingStep ==
    ASSUME EmbeddingIInv, OneEmbedder, NEW w \in Embedders, NEW i \in EmbeddingRows, ClaimEmbedding(w, i)
    PROVE  EmbeddingIInv'
<1> DEFINE attempt == embedding[i].attempt + 1
           row == [embedding[i] EXCEPT !.status = "RUNNING", !.leased = TRUE, !.attempt = attempt]
           new == [AtRest EXCEPT !.pc = "claimed", !.job = i, !.attempt = attempt]
<1>1. /\ embedding[i].status \in {"PENDING", "RETRY_WAIT"}
      /\ embedder' = [embedder EXCEPT ![w] = new]
      /\ UNCHANGED <<text, changes, vector, embeddingMishaps>>
  BY DEF ClaimEmbedding, Embeddable
<1>2. embedding' = [embedding EXCEPT ![i] = row]
  BY EmbeddingTypes DEF ClaimEmbedding
<1>3. attempt \in 0 .. MaxEmbeddingAttempts
  <2>1. embedding[i].attempt \in 0 .. MaxEmbeddingAttempts
    BY EmbeddingTypes, RowFields
  <2> QED BY <1>1, <2>1, EmbeddingTypes DEF JobsAreOfThePast
<1> HIDE DEF attempt
<1>4. /\ row \in EmbeddingRow /\ row.status = "RUNNING" /\ row.since = embedding[i].since
      /\ row.attempt = attempt
  <2>1. embedding[i] \in EmbeddingRow /\ "RUNNING" \in {"NONE"} \cup InFlight \cup EmbeddingEnded
    BY EmbeddingTypes DEF InFlight
  <2> QED BY <1>3, <2>1 DEF EmbeddingRow
<1>5. new \in EmbedderState /\ new.pc = "claimed" /\ new.job = i /\ new.attempt = attempt
  BY <1>3, EmbedderAtRestType DEF EmbedderState
<1> HIDE DEF row, new
<1>6. embedder' \in [Embedders -> EmbedderState] /\ \A v \in Embedders : embedder'[v] = new
  BY <1>1, <1>5, EmbeddingTypes DEF OneEmbedder
<1>7. /\ embedding' \in [EmbeddingRows -> EmbeddingRow] /\ embedding'[i] = row
      /\ \A j \in EmbeddingRows \ {i} : embedding'[j] = embedding[j]
  BY <1>2, <1>4, EmbeddingTypes
<1>8. \A j \in EmbeddingRows :
          /\ embedding'[j].status = "NONE" <=> embedding[j].status = "NONE"
          /\ embedding'[j].since = embedding[j].since
          /\ embedding'[j].status \in {"PENDING", "RETRY_WAIT"}
                 => embedding'[j].attempt < MaxEmbeddingAttempts
          /\ embedding'[j].status = "SUCCEEDED" => embedding[j].since <= vector
  BY <1>1, <1>4, <1>7, EmbeddingTypes DEF JobsAreOfThePast, SucceededJobsAreStored
<1> QED BY <1>1, <1>4, <1>5, <1>6, <1>7, <1>8, EmbeddingTypes, QueueMoves

LEMMA EmbedderReadStep ==
    ASSUME EmbeddingIInv, OneEmbedder, NEW w \in Embedders, ReadDocument(w)
    PROVE  EmbeddingIInv'
<1> DEFINE new == [embedder[w] EXCEPT !.pc = "rendered", !.read = changes]
<1>1. /\ embedder[w].pc = "claimed" /\ UNCHANGED <<text, changes, vector, embedding, embeddingMishaps>>
  BY DEF ReadDocument, Works
<1>2. embedder' = [embedder EXCEPT ![w] = new]
  BY EmbeddingTypes DEF ReadDocument, RenderedDocument
<1>3. /\ new \in EmbedderState /\ new.pc = "rendered" /\ new.read = changes
      /\ new.job = embedder[w].job /\ new.attempt = embedder[w].attempt
  <2>1. embedder[w] \in EmbedderState /\ changes \in Documents
    BY EmbeddingTypes
  <2> QED BY <2>1 DEF EmbedderState
<1> HIDE DEF new
<1>4. embedder' \in [Embedders -> EmbedderState] /\ \A v \in Embedders : embedder'[v] = new
  BY <1>2, <1>3, EmbeddingTypes DEF OneEmbedder
<1>5. /\ embedder[w].job \in EmbeddingRows /\ embedding[embedder[w].job].status # "NONE"
      /\ embedding[embedder[w].job].attempt = embedder[w].attempt
      /\ embedding[embedder[w].job].since <= changes
  BY <1>1, EmbeddingTypes DEF ReadsAreRecent, JobsAreOfThePast, Works
<1>6. \A j \in EmbeddingRows :
          /\ embedding[j].status \in {"PENDING", "RETRY_WAIT"} => embedding[j].attempt < MaxEmbeddingAttempts
          /\ embedding[j].status = "SUCCEEDED" => embedding[j].since <= vector
  BY EmbeddingTypes DEF JobsAreOfThePast, SucceededJobsAreStored
<1>7. changes <= changes
  BY EmbeddingTypes
<1> QED BY <1>1, <1>3, <1>4, <1>5, <1>6, <1>7, EmbeddingTypes, QueueMoves

\* The worker ends its job, stores what it has read or leaves the vector, and rests.
LEMMA EndStep ==
    ASSUME EmbeddingIInv, OneEmbedder, NEW w \in Embedders, ~Works(w, "resting"),
           NEW status \in {"SUCCEEDED", "DEAD_LETTER", "RETRY_WAIT"},
           embedding' = [embedding EXCEPT ![embedder[w].job].status = status,
                                          ![embedder[w].job].leased = FALSE],
           embedder' = [embedder EXCEPT ![w] = AtRest],
           status = "RETRY_WAIT" => embedder[w].attempt < MaxEmbeddingAttempts,
           IF status = "SUCCEEDED" THEN Works(w, "rendered") /\ vector' = embedder[w].read
                                   ELSE vector' = vector,
           UNCHANGED <<text, changes, embeddingMishaps>>
    PROVE  EmbeddingIInv'
<1> DEFINE job == embedder[w].job
           row == [embedding[job] EXCEPT !.status = status, !.leased = FALSE]
<1>1. /\ job \in EmbeddingRows /\ embedding[job].status # "NONE"
      /\ embedding[job].attempt = embedder[w].attempt
      /\ Works(w, "rendered") => /\ embedding[job].since <= embedder[w].read
                                 /\ vector <= embedder[w].read /\ embedder[w].read <= changes
  BY EmbeddingTypes DEF ReadsAreRecent
<1>2. embedding' = [embedding EXCEPT ![job] = row]
  BY <1>1, EmbeddingTypes
<1>3. /\ row \in EmbeddingRow /\ row.status = status /\ row.since = embedding[job].since
      /\ row.attempt = embedding[job].attempt
  <2>1. embedding[job] \in EmbeddingRow /\ status \in {"NONE"} \cup InFlight \cup EmbeddingEnded
    BY <1>1, EmbeddingTypes DEF InFlight, EmbeddingEnded
  <2> QED BY <2>1 DEF EmbeddingRow
<1> HIDE DEF row
<1>4. /\ embedding' \in [EmbeddingRows -> EmbeddingRow] /\ embedding'[job] = row
      /\ \A j \in EmbeddingRows \ {job} : embedding'[j] = embedding[j]
  BY <1>1, <1>2, <1>3, EmbeddingTypes
<1>5. embedder[w].read \in Documents /\ \A j \in EmbeddingRows : embedding[j].since \in Documents
  BY <1>1, EmbeddingTypes, RowFields DEF EmbedderState
<1>6. embedder' \in [Embedders -> EmbedderState] /\ \A v \in Embedders : embedder'[v].pc = "resting"
  BY EmbedderAtRestType, EmbeddingTypes DEF OneEmbedder
<1>7. vector' \in Documents /\ vector <= vector' /\ vector' <= changes
  BY <1>1, <1>5, EmbeddingTypes
<1>8. ASSUME NEW j \in EmbeddingRows
      PROVE  /\ embedding'[j].status = "NONE" <=> embedding[j].status = "NONE"
             /\ embedding'[j].since = embedding[j].since
             /\ embedding'[j].status \in {"PENDING", "RETRY_WAIT"}
                    => embedding'[j].attempt < MaxEmbeddingAttempts
  BY <1>1, <1>3, <1>4, EmbeddingTypes DEF JobsAreOfThePast
<1>9. ASSUME NEW j \in EmbeddingRows, embedding'[j].status = "SUCCEEDED"
      PROVE  embedding[j].since <= vector'
  <2>1. CASE embedding[j].status = "SUCCEEDED"
    <3>1. embedding[j].since <= vector
      BY <2>1, EmbeddingTypes DEF SucceededJobsAreStored
    <3> QED BY <1>5, <1>7, <3>1, EmbeddingTypes
  <2>2. CASE embedding[j].status # "SUCCEEDED"
    <3>1. j = job /\ status = "SUCCEEDED"
      BY <1>3, <1>4, <1>9, <2>2
    <3> QED BY <1>1, <3>1
  <2> QED BY <2>1, <2>2
<1> HIDE DEF job
<1> QED BY <1>4, <1>6, <1>7, <1>8, <1>9, EmbeddingTypes, QueueMoves

LEMMA StoreStep ==
    ASSUME EmbeddingIInv, OneEmbedder, NEW w \in Embedders, StoreVector(w)
    PROVE  EmbeddingIInv'
<1>1. Works(w, "rendered") /\ ~Works(w, "resting")
  BY DEF StoreVector, Works
<1> QED BY <1>1, EndStep DEF StoreVector, Leave

LEMMA FailEmbeddingStep ==
    ASSUME EmbeddingIInv, OneEmbedder, NEW w \in Embedders, NEW retryable \in BOOLEAN,
           FailEmbedding(w, retryable)
    PROVE  EmbeddingIInv'
<1> DEFINE status == IF ~retryable \/ embedder[w].attempt >= MaxEmbeddingAttempts
                     THEN "DEAD_LETTER" ELSE "RETRY_WAIT"
<1>1. /\ ~Works(w, "resting") /\ embedder' = [embedder EXCEPT ![w] = AtRest]
      /\ embedding' = [embedding EXCEPT ![embedder[w].job].status = status,
                                        ![embedder[w].job].leased = FALSE]
      /\ UNCHANGED <<text, changes, vector, embeddingMishaps>>
  BY DEF FailEmbedding, Leave
<1>2. embedder[w].attempt \in 0 .. MaxEmbeddingAttempts
  BY EmbeddingTypes DEF EmbedderState
<1>3. /\ status \in {"DEAD_LETTER", "RETRY_WAIT"}
      /\ status = "RETRY_WAIT" => embedder[w].attempt < MaxEmbeddingAttempts
  BY <1>2, EmbeddingTypes
<1> HIDE DEF status
<1> QED BY <1>1, <1>3, EndStep

LEMMA MishapStep ==
    ASSUME EmbeddingIInv, EmbeddingMishap
    PROVE  embeddingMishaps' \in 0 .. MaxEmbeddingMishaps
BY EmbeddingTypes DEF EmbeddingMishap

LEMMA CrashStep ==
    ASSUME EmbeddingIInv, OneEmbedder, NEW w \in Embedders, EmbedderCrash(w)
    PROVE  EmbeddingIInv'
<1>1. /\ embedder' = [embedder EXCEPT ![w] = AtRest] /\ EmbeddingMishap
      /\ UNCHANGED <<text, changes, vector, embedding>>
  BY DEF EmbedderCrash, Leave
<1>2. embedder' \in [Embedders -> EmbedderState] /\ \A v \in Embedders : embedder'[v].pc = "resting"
  BY <1>1, EmbedderAtRestType, EmbeddingTypes DEF OneEmbedder
<1>3. \A j \in EmbeddingRows :
          /\ embedding[j].status \in {"PENDING", "RETRY_WAIT"} => embedding[j].attempt < MaxEmbeddingAttempts
          /\ embedding[j].status = "SUCCEEDED" => embedding[j].since <= vector
  BY EmbeddingTypes DEF JobsAreOfThePast, SucceededJobsAreStored
<1> QED BY <1>1, <1>2, <1>3, MishapStep, EmbeddingTypes, QueueMoves

LEMMA ExpiryStep ==
    ASSUME EmbeddingIInv, NEW i \in EmbeddingRows, EmbeddingLeaseExpires(i)
    PROVE  EmbeddingIInv'
<1> DEFINE row == [embedding[i] EXCEPT !.leased = FALSE]
<1>1. /\ embedding' = [embedding EXCEPT ![i] = row] /\ UNCHANGED <<text, changes, vector, embedder>>
  BY Zenon DEF EmbeddingLeaseExpires
<1>2. /\ row \in EmbeddingRow /\ row.status = embedding[i].status /\ row.since = embedding[i].since
      /\ row.attempt = embedding[i].attempt
  <2>1. embedding[i] \in EmbeddingRow
    BY EmbeddingTypes
  <2> QED BY <2>1 DEF EmbeddingRow
<1> HIDE DEF row
<1>3. /\ embedding' \in [EmbeddingRows -> EmbeddingRow]
      /\ \A j \in EmbeddingRows : /\ embedding'[j].status = embedding[j].status
                                  /\ embedding'[j].since = embedding[j].since
                                  /\ embedding'[j].attempt = embedding[j].attempt
  BY <1>1, <1>2, EmbeddingTypes
<1>4. embeddingMishaps' \in 0 .. MaxEmbeddingMishaps
  BY MishapStep, EmbeddingTypes DEF EmbeddingLeaseExpires
<1>5. \A v \in Embedders : embedder[v].pc # "resting" =>
          /\ embedder[v].job \in EmbeddingRows
          /\ embedding[embedder[v].job].status # "NONE"
          /\ embedding[embedder[v].job].attempt = embedder[v].attempt
          /\ embedder[v].pc = "rendered" => /\ embedding[embedder[v].job].since <= embedder[v].read
                                            /\ vector <= embedder[v].read /\ embedder[v].read <= changes
  BY EmbeddingTypes DEF ReadsAreRecent, Works
<1>6. \A j \in EmbeddingRows :
          /\ embedding[j].status \in {"PENDING", "RETRY_WAIT"} => embedding[j].attempt < MaxEmbeddingAttempts
          /\ embedding[j].status = "SUCCEEDED" => embedding[j].since <= vector
  BY EmbeddingTypes DEF JobsAreOfThePast, SucceededJobsAreStored
<1> QED BY <1>1, <1>3, <1>4, <1>5, <1>6, EmbeddingTypes, QueueMoves

-----------------------------------------------------------------------------
(* The theorem.                                                            *)

LEMMA EmbeddingInitHolds == EmbeddingInit => EmbeddingIInv
<1> SUFFICES ASSUME EmbeddingInit PROVE EmbeddingIInv
  OBVIOUS
<1>1. /\ text = NoText /\ changes = 0 /\ vector = 0 /\ embeddingMishaps = 0
      /\ embedding = [i \in EmbeddingRows |-> NoJob] /\ embedder = [w \in Embedders |-> AtRest]
  BY DEF EmbeddingInit, NoDocument
<1>2. NoJob \in EmbeddingRow /\ NoJob.status = "NONE"
  BY EmbeddingAssumption DEF NoJob, EmbeddingRow, Documents, NoDocument
<1>3. EmbeddingTypeOK
  BY <1>1, <1>2, EmbedderAtRestType, EmbeddingAssumption
     DEF EmbeddingTypeOK, EmbeddingRow, EmbedderState, Documents
<1> QED
  BY <1>1, <1>2, <1>3, EmbedderAtRestType
     DEF EmbeddingIInv, JobsAreOfThePast, ReadsAreRecent, SucceededJobsAreStored, Works

LEMMA EmbeddingStepHolds ==
    ASSUME EmbeddingIInv, OneEmbedder, [EmbeddingNext]_embeddingVars
    PROVE  EmbeddingIInv'
<1>1. CASE UNCHANGED embeddingVars
  BY <1>1 DEF embeddingVars, EmbeddingIInv, EmbeddingTypeOK, JobsAreOfThePast, ReadsAreRecent,
              SucceededJobsAreStored, Works
<1>2. CASE EmbeddingNext
  BY <1>2, ChangeStep, RecoverStep, ClaimEmbeddingStep, EmbedderReadStep, StoreStep, FailEmbeddingStep, CrashStep, ExpiryStep
     DEF EmbeddingNext, EmbeddingWork
<1> QED BY <1>1, <1>2

\* With one worker the jobs may be claimed in any order, fail, be recovered after a crash and
\* be ended by a holder whose lease has run out (embedding_worker.py), while the entity's text
\* changes and returns, its facts change and its neighbours are renamed: the vector is never
\* again older than a job that has succeeded.
THEOREM SucceededIsStored ==
    ASSUME OneEmbedder
    PROVE  EmbeddingSpec => []SucceededJobsAreStored
<1>1. EmbeddingIInv /\ [EmbeddingNext]_embeddingVars => EmbeddingIInv'
  BY EmbeddingStepHolds
<1>2. EmbeddingIInv => SucceededJobsAreStored
  BY DEF EmbeddingIInv
<1> QED BY <1>1, <1>2, EmbeddingInitHolds, PTL DEF EmbeddingSpec
-----------------------------------------------------------------------------
(* What one worker leaves behind is the analysis of the newest revision,   *)
(* for any number of revisions, configurations, attempts and crashes.      *)

\* One worker process is deployed.
OneAnalyser == \A v, w \in Analysers : v = w

InForce == <<newest, configuration>>

\* A job names what had been published and was in force when it was enqueued.
AnalysesAreOfThePast ==
    \A key \in Analyses : analysis[key].status # "NONE" => key[1] <= newest /\ key[2] <= configuration

\* A job has an attempt left as long as it waits, and the worker holds the one it claimed.
AttemptsAreCounted ==
    /\ \A key \in Analyses :
           analysis[key].status \in {"NONE", "PENDING"} => analysis[key].attempt < MaxAnalysisAttempts
    /\ \A w \in Analysers : ~Analyser(w, "out") =>
           /\ analyser[w].job \in Analyses
           /\ analysis[analyser[w].job].status = "RUNNING"
           /\ analysis[analyser[w].job].attempt = analyser[w].attempt
    /\ \A w \in Analysers : Analyser(w, "inferred") =>
           analyser[w].revision \in Published

\* A worker with the job in force, or one that might overwrite what that job has left,
\* analyses the newest revision: nothing was published since, or the job would not be in force.
NothingOlderComes ==
    \A w \in Analysers :
        /\ Analyser(w, "inferred")
           /\ (analyser[w].job = InForce \/ analysis[InForce].status = "SUCCEEDED")
               => analyser[w].revision = newest
        /\ Analyser(w, "analysed") /\ analyser[w].job = InForce /\ newest \notin Incomplete
               => analysed = InForce

IntelligenceIInv ==
    /\ IntelligenceTypeOK /\ AnalysesAreOfThePast /\ AttemptsAreCounted
    /\ NothingOlderComes /\ LatestIsAnalysed

-----------------------------------------------------------------------------
AnalysisRow == [status : {"NONE", "PENDING", "RUNNING", "SUCCEEDED", "FAILED"},
                attempt : 0 .. MaxAnalysisAttempts]
AnalyserState == [pc : {"out", "claimed", "inferred", "analysed"}, job : Analyses \cup {Nothing},
                  attempt : 0 .. MaxAnalysisAttempts, revision : 0 .. MaxRevision]

LEMMA IntelligenceTypes ==
    ASSUME IntelligenceTypeOK
    PROVE  /\ newest \in Nat /\ newest <= MaxRevision
           /\ configuration \in Nat /\ 1 <= configuration /\ configuration <= MaxConfiguration
           /\ MaxRevision \in Nat /\ MaxConfiguration \in Nat /\ MaxAnalysisAttempts \in Nat
           /\ 0 < MaxAnalysisAttempts /\ MaxAnalyserCrashes \in Nat
           /\ Published = 1 .. MaxRevision /\ Configurations = 1 .. MaxConfiguration
           /\ analysis \in [Analyses -> AnalysisRow] /\ analyser \in [Analysers -> AnalyserState]
           /\ analysed \in Analyses \cup {Nothing} /\ analyserCrashes \in 0 .. MaxAnalyserCrashes
BY IntelligenceAssumption
   DEF IntelligenceTypeOK, AnalysisRow, AnalyserState, Published, Configurations

\* The key of the job in force is there as soon as something is published.
LEMMA InForceIsKey ==
    ASSUME IntelligenceTypeOK, newest \in Published
    PROVE  InForce \in Analyses
BY IntelligenceTypes DEF InForce, Analyses

LEMMA UnoccupiedType == Unoccupied \in AnalyserState /\ Unoccupied.pc = "out"
BY IntelligenceAssumption DEF Unoccupied, AnalyserState

-----------------------------------------------------------------------------
(* Publishing and enqueueing.                                              *)

\* Enqueueing changes one row that did not exist, into a waiting one.
LEMMA EnqueueAnalysisKeeps ==
    ASSUME IntelligenceIInv, NEW key \in Analyses
    PROVE  /\ WithAnalysis(key) \in [Analyses -> AnalysisRow]
           /\ \A k \in Analyses : WithAnalysis(key)[k] = analysis[k]
                  \/ /\ k = key /\ analysis[k].status = "NONE"
                     /\ WithAnalysis(key)[k].status = "PENDING"
                     /\ WithAnalysis(key)[k].attempt = analysis[k].attempt
<1> DEFINE row == [analysis[key] EXCEPT !.status = "PENDING"]
<1>1. analysis \in [Analyses -> AnalysisRow]
  BY IntelligenceTypes DEF IntelligenceIInv
<1>2. row \in AnalysisRow /\ row.status = "PENDING" /\ row.attempt = analysis[key].attempt
  BY <1>1 DEF AnalysisRow
<1>3. WithAnalysis(key) = IF analysis[key].status = "NONE" THEN [analysis EXCEPT ![key] = row] ELSE analysis
  BY Zenon DEF WithAnalysis
<1> HIDE DEF row
<1> QED BY <1>1, <1>2, <1>3

\* A publication, a change of the configuration, an enqueueing: what is in force only moves
\* forward, and where it moves nobody works yet.
LEMMA ForwardKeeps ==
    ASSUME IntelligenceIInv,
           newest' \in 0 .. MaxRevision, configuration' \in Configurations,
           newest' >= newest, configuration' >= configuration,
           analysis' \in [Analyses -> AnalysisRow],
           \A k \in Analyses : analysis'[k] = analysis[k]
               \/ /\ analysis[k].status = "NONE" /\ analysis'[k].status = "PENDING"
                  /\ analysis'[k].attempt = analysis[k].attempt
                  /\ k[1] <= newest' /\ k[2] <= configuration',
           UNCHANGED <<analyser, analysed, analyserCrashes>>
    PROVE  IntelligenceIInv'
<1>0. /\ IntelligenceTypeOK /\ AnalysesAreOfThePast /\ AttemptsAreCounted
      /\ NothingOlderComes /\ LatestIsAnalysed
  BY DEF IntelligenceIInv
<1>1. IntelligenceTypeOK'
  BY <1>0 DEF IntelligenceTypeOK, AnalysisRow
<1>2. AnalysesAreOfThePast'
  <2>1. ASSUME NEW k \in Analyses, analysis'[k].status # "NONE"
        PROVE  k[1] <= newest' /\ k[2] <= configuration'
    <3>1. CASE analysis'[k] = analysis[k]
      <4>1. k[1] <= newest /\ k[2] <= configuration
        BY <1>0, <2>1, <3>1 DEF AnalysesAreOfThePast
      <4>2. k[1] \in Nat /\ k[2] \in Nat
        BY <1>0, IntelligenceTypes DEF Analyses
      <4> QED BY <1>0, <4>1, <4>2, IntelligenceTypes DEF Configurations
    <3> QED BY <3>1
  <2> QED BY <2>1 DEF AnalysesAreOfThePast
<1>3. AttemptsAreCounted'
  BY <1>0 DEF AttemptsAreCounted, Analyser
<1>4. ASSUME newest' # newest \/ configuration' # configuration, InForce' \in Analyses
      PROVE  analysis[InForce'].status = "NONE" /\ analysis'[InForce'].status \in {"NONE", "PENDING"}
  <2>1. ~ (newest' <= newest /\ configuration' <= configuration)
    BY <1>0, <1>4, IntelligenceTypes DEF Configurations
  <2>2. InForce'[1] = newest' /\ InForce'[2] = configuration'
    BY DEF InForce
  <2>3. analysis[InForce'].status = "NONE"
    BY <1>0, <1>4, <2>1, <2>2 DEF AnalysesAreOfThePast
  <2> QED BY <1>4, <2>3
<1>5. newest' = newest /\ configuration' = configuration => InForce' = InForce
  BY DEF InForce
<1>6. newest' \in Published => InForce' \in Analyses
  BY <1>1, IntelligenceTypes DEF InForce, Analyses
<1>7. \A w \in Analysers : ~Analyser(w, "out") =>
          /\ analyser[w].job \in Analyses /\ analysis[analyser[w].job].status = "RUNNING"
          /\ newest' \in Published
  <2>1. ASSUME NEW w \in Analysers, ~Analyser(w, "out")
        PROVE  /\ analyser[w].job \in Analyses /\ analysis[analyser[w].job].status = "RUNNING"
               /\ newest' \in Published
    <3>1. analyser[w].job \in Analyses /\ analysis[analyser[w].job].status = "RUNNING"
      BY <1>0, <2>1 DEF AttemptsAreCounted
    <3>2. analyser[w].job[1] <= newest /\ analyser[w].job[1] \in Published
      BY <1>0, <3>1 DEF AnalysesAreOfThePast, Analyses
    <3> QED BY <1>0, <3>1, <3>2, IntelligenceTypes
  <2> QED BY <2>1
<1>8. NothingOlderComes'
  <2>1. CASE newest' = newest /\ configuration' = configuration
    <3>1. InForce' = InForce
      BY <2>1, <1>5
    <3>2. \A w \in Analysers : ~Analyser(w, "out") =>
              (analysis'[InForce].status = "SUCCEEDED" => analysis[InForce].status = "SUCCEEDED")
      BY <1>6, <1>7, <3>1
    <3> QED BY <1>0, <2>1, <3>1, <3>2 DEF NothingOlderComes, Analyser
  <2>2. CASE newest' # newest \/ configuration' # configuration
    <3>1. \A w \in Analysers : ~Analyser(w, "out") =>
              analyser[w].job # InForce' /\ analysis'[InForce'].status # "SUCCEEDED"
      BY <1>4, <1>6, <1>7, <2>2
    <3> QED BY <3>1 DEF NothingOlderComes, Analyser
  <2> QED BY <2>1, <2>2
<1>9. LatestIsAnalysed'
  <2>1. SUFFICES ASSUME newest' \in Published, newest' \notin Incomplete,
                        analysis'[InForce'].status = "SUCCEEDED"
                 PROVE  analysed' = InForce'
    BY DEF LatestIsAnalysed, InForce
  <2>2. newest' = newest /\ configuration' = configuration
    BY <1>4, <1>6, <2>1
  <2>3. InForce' = InForce /\ analysis[InForce].status = "SUCCEEDED"
    BY <1>5, <1>6, <2>1, <2>2
  <2> QED BY <1>0, <2>1, <2>2, <2>3 DEF LatestIsAnalysed, InForce
<1> QED BY <1>1, <1>2, <1>3, <1>8, <1>9 DEF IntelligenceIInv

LEMMA PublishStep ==
    ASSUME IntelligenceIInv, PublishRevision
    PROVE  IntelligenceIInv'
<1> DEFINE key == <<newest + 1, configuration>>
<1>1. /\ newest < MaxRevision /\ newest' = newest + 1
      /\ analysis' = IF newest + 1 \in Incomplete THEN analysis ELSE WithAnalysis(key)
      /\ UNCHANGED <<configuration, analyser, analysed, analyserCrashes>>
  BY DEF PublishRevision
<1>2. IntelligenceTypeOK
  BY DEF IntelligenceIInv
<1>3. key \in Analyses /\ newest' \in 0 .. MaxRevision /\ newest' >= newest
  BY <1>1, <1>2, IntelligenceTypes DEF Analyses
<1>4. key[1] <= newest' /\ key[2] <= configuration'
  BY <1>1, <1>2, IntelligenceTypes
<1> HIDE DEF key
<1>5. configuration' \in Configurations /\ configuration' >= configuration
  BY <1>1, <1>2, IntelligenceTypes DEF IntelligenceTypeOK
<1> QED
  BY <1>1, <1>2, <1>3, <1>4, <1>5, EnqueueAnalysisKeeps, IntelligenceTypes, ForwardKeeps

LEMMA ConfigurationStep ==
    ASSUME IntelligenceIInv, ChangeConfiguration
    PROVE  IntelligenceIInv'
<1>1. IntelligenceTypeOK
  BY DEF IntelligenceIInv
<1>2. /\ configuration' \in Configurations /\ configuration' >= configuration
      /\ newest' = newest /\ newest' \in 0 .. MaxRevision /\ newest' >= newest
  BY <1>1, IntelligenceTypes DEF ChangeConfiguration
<1> QED BY <1>1, <1>2, IntelligenceTypes, ForwardKeeps DEF ChangeConfiguration

LEMMA ReanalyseStep ==
    ASSUME IntelligenceIInv, NEW r \in Published, Reanalyse(r)
    PROVE  IntelligenceIInv'
<1> DEFINE key == <<r, configuration>>
<1>1. /\ r \in 1 .. newest /\ analysis' = WithAnalysis(key)
      /\ UNCHANGED <<newest, configuration, analyser, analysed, analyserCrashes>>
  BY DEF Reanalyse, LatestComplete
<1>2. IntelligenceTypeOK
  BY DEF IntelligenceIInv
<1>3. key \in Analyses /\ key[1] <= newest' /\ key[2] <= configuration'
  BY <1>1, <1>2, IntelligenceTypes DEF Analyses
<1> HIDE DEF key
<1>4. /\ configuration' \in Configurations /\ configuration' >= configuration
      /\ newest' \in 0 .. MaxRevision /\ newest' >= newest
  BY <1>1, <1>2, IntelligenceTypes DEF IntelligenceTypeOK
<1> QED BY <1>1, <1>3, <1>4, EnqueueAnalysisKeeps, ForwardKeeps

-----------------------------------------------------------------------------
(* The worker.                                                             *)

\* The only worker moves, and with it at most the row of its job.
LEMMA AnalyserMoves ==
    ASSUME IntelligenceIInv, OneAnalyser, NEW w \in Analysers, NEW new \in AnalyserState,
           analyser' = [analyser EXCEPT ![w] = new],
           analysis' \in [Analyses -> AnalysisRow],
           \A k \in Analyses : analysis'[k].status = "NONE" => analysis[k] = analysis'[k],
           \A k \in Analyses : analysis'[k].status # "NONE" => analysis[k].status # "NONE",
           \A k \in Analyses : analysis'[k].status = "PENDING" => analysis'[k].attempt < MaxAnalysisAttempts,
           new.pc # "out" => /\ new.job \in Analyses /\ analysis'[new.job].status = "RUNNING"
                             /\ analysis'[new.job].attempt = new.attempt,
           new.pc = "inferred" => new.revision \in Published,
           new.pc = "inferred" /\ (new.job = InForce \/ analysis'[InForce].status = "SUCCEEDED")
               => new.revision = newest,
           new.pc = "analysed" /\ new.job = InForce /\ newest \notin Incomplete => analysed' = InForce,
           newest \in Published \ Incomplete /\ analysis'[InForce].status = "SUCCEEDED"
               => analysed' = InForce,
           analysed' \in Analyses \cup {Nothing}, analyserCrashes' \in 0 .. MaxAnalyserCrashes,
           UNCHANGED <<newest, configuration>>
    PROVE  IntelligenceIInv'
<1>0. /\ IntelligenceTypeOK /\ AnalysesAreOfThePast /\ AttemptsAreCounted
  BY DEF IntelligenceIInv
<1>1. analyser' \in [Analysers -> AnalyserState] /\ \A v \in Analysers : analyser'[v] = new
  BY <1>0, IntelligenceTypes DEF OneAnalyser
<1>2. IntelligenceTypeOK'
  BY <1>0, <1>1 DEF IntelligenceTypeOK, AnalysisRow, AnalyserState
<1>3. AnalysesAreOfThePast'
  BY <1>0 DEF AnalysesAreOfThePast
<1>4. AttemptsAreCounted'
  BY <1>0, <1>1 DEF AttemptsAreCounted, Analyser
<1>5. InForce' = InForce
  BY DEF InForce
<1>6. NothingOlderComes'
  BY <1>1, <1>5 DEF NothingOlderComes, Analyser
<1>7. LatestIsAnalysed'
  BY <1>5 DEF LatestIsAnalysed, InForce
<1> QED BY <1>2, <1>3, <1>4, <1>6, <1>7 DEF IntelligenceIInv

LEMMA ClaimAnalysisStep ==
    ASSUME IntelligenceIInv, OneAnalyser, NEW w \in Analysers, NEW key \in Analyses, ClaimAnalysis(w, key)
    PROVE  IntelligenceIInv'
<1> DEFINE attempt == analysis[key].attempt + 1
           row == [status |-> "RUNNING", attempt |-> attempt]
           new == [pc |-> "claimed", job |-> key, attempt |-> attempt, revision |-> 0]
<1>1. /\ analysis[key].status = "PENDING" /\ analysis' = [analysis EXCEPT ![key] = row]
      /\ analyser' = [analyser EXCEPT ![w] = new]
      /\ UNCHANGED <<newest, configuration, analysed, analyserCrashes>>
  BY DEF ClaimAnalysis
<1>2. IntelligenceTypeOK /\ AttemptsAreCounted /\ LatestIsAnalysed
  BY DEF IntelligenceIInv
<1>3. attempt \in 0 .. MaxAnalysisAttempts
  BY <1>1, <1>2, IntelligenceTypes DEF AttemptsAreCounted, AnalysisRow
<1> HIDE DEF attempt
<1>4. /\ row \in AnalysisRow /\ row.status = "RUNNING" /\ row.attempt = attempt
      /\ new \in AnalyserState /\ new.pc = "claimed" /\ new.job = key /\ new.attempt = attempt
  BY <1>2, <1>3, IntelligenceTypes DEF AnalysisRow, AnalyserState
<1> HIDE DEF row, new
<1>5. /\ analysis' \in [Analyses -> AnalysisRow] /\ analysis'[key] = row
      /\ \A k \in Analyses \ {key} : analysis'[k] = analysis[k]
  BY <1>1, <1>2, <1>4, IntelligenceTypes
<1>6. newest \in Published \ Incomplete /\ analysis'[InForce].status = "SUCCEEDED" => analysed' = InForce
  BY <1>1, <1>2, <1>4, <1>5, InForceIsKey DEF LatestIsAnalysed, InForce
<1> QED
  BY <1>1, <1>2, <1>4, <1>5, <1>6, IntelligenceTypes, AnalyserMoves DEF AttemptsAreCounted

\* A step of the worker that leaves the queue alone.
LEMMA AnalyserWorks ==
    ASSUME IntelligenceIInv, OneAnalyser, NEW w \in Analysers, ~Analyser(w, "out"),
           NEW new \in AnalyserState, analyser' = [analyser EXCEPT ![w] = new],
           new.pc # "out" => new.job = analyser[w].job /\ new.attempt = analyser[w].attempt,
           new.pc = "inferred" => new.revision = newest,
           new.pc = "analysed" /\ new.job = InForce /\ newest \notin Incomplete => analysed' = InForce,
           newest \in Published \ Incomplete /\ analysis[InForce].status = "SUCCEEDED"
               => analysed' = InForce,
           analysed' \in Analyses \cup {Nothing}, analyserCrashes' \in 0 .. MaxAnalyserCrashes,
           UNCHANGED <<newest, configuration, analysis>>
    PROVE  IntelligenceIInv'
<1>1. IntelligenceTypeOK /\ AttemptsAreCounted /\ AnalysesAreOfThePast
  BY DEF IntelligenceIInv
<1>2. /\ analyser[w].job \in Analyses /\ analysis[analyser[w].job].status = "RUNNING"
      /\ analysis[analyser[w].job].attempt = analyser[w].attempt
  BY <1>1 DEF AttemptsAreCounted
<1>3. newest \in Published
  <2>1. analyser[w].job[1] \in Published /\ analyser[w].job[1] <= newest
    BY <1>1, <1>2 DEF AnalysesAreOfThePast, Analyses
  <2> QED BY <1>1, <2>1, IntelligenceTypes
<1> QED BY <1>1, <1>2, <1>3, IntelligenceTypes, AnalyserMoves DEF AttemptsAreCounted

LEMMA AnalyserReadStep ==
    ASSUME IntelligenceIInv, OneAnalyser, NEW w \in Analysers, ReadRevision(w)
    PROVE  IntelligenceIInv'
<1> DEFINE new == [analyser[w] EXCEPT !.pc = "inferred", !.revision = newest]
<1>1. IntelligenceTypeOK /\ LatestIsAnalysed
  BY DEF IntelligenceIInv
<1>2. /\ ~Analyser(w, "out") /\ UNCHANGED <<newest, configuration, analysis, analysed, analyserCrashes>>
  BY DEF ReadRevision, Analyser
<1>3. analyser' = [analyser EXCEPT ![w] = new]
  <2>1. analyser' = [analyser EXCEPT ![w].pc = "inferred", ![w].revision = newest]
    BY DEF ReadRevision, RevisionRead
  <2>2. analyser \in [Analysers -> AnalyserState]
    BY <1>1, IntelligenceTypes
  <2> QED BY <2>1, <2>2 DEF AnalyserState
<1>4. /\ new \in AnalyserState /\ new.pc = "inferred" /\ new.revision = newest
      /\ new.job = analyser[w].job /\ new.attempt = analyser[w].attempt
  <2>1. newest \in 0 .. MaxRevision /\ analyser[w] \in AnalyserState
    BY <1>1, IntelligenceTypes
  <2> QED BY <2>1 DEF AnalyserState
<1> HIDE DEF new
<1>5. newest \in Published \ Incomplete /\ analysis[InForce].status = "SUCCEEDED" => analysed' = InForce
  BY <1>1, <1>2 DEF LatestIsAnalysed, InForce
<1> QED BY <1>1, <1>2, <1>3, <1>4, <1>5, IntelligenceTypes, AnalyserWorks

\* The candidates are replaced: by those of the newest revision, if the job in force has
\* succeeded or is the worker's.
LEMMA AnalyseStep ==
    ASSUME IntelligenceIInv, OneAnalyser, NEW w \in Analysers, AnalyseModernization(w)
    PROVE  IntelligenceIInv'
<1> DEFINE new == [analyser[w] EXCEPT !.pc = "analysed"]
<1>1. /\ IntelligenceTypeOK /\ LatestIsAnalysed /\ NothingOlderComes /\ AttemptsAreCounted
  BY DEF IntelligenceIInv
<1>2. /\ Analyser(w, "inferred") /\ ~Analyser(w, "out")
      /\ analysed' = IF analyser[w].revision \in Incomplete THEN analysed
                     ELSE <<analyser[w].revision, configuration>>
      /\ UNCHANGED <<newest, configuration, analysis, analyserCrashes>>
  BY DEF AnalyseModernization, Analyser
<1>3. analyser' = [analyser EXCEPT ![w] = new]
  BY Zenon DEF AnalyseModernization, Goes
<1>4. /\ new \in AnalyserState /\ new.pc = "analysed"
      /\ new.job = analyser[w].job /\ new.attempt = analyser[w].attempt
  BY <1>1, IntelligenceTypes DEF AnalyserState
<1> HIDE DEF new
<1>5. analysed' \in Analyses \cup {Nothing}
  BY <1>1, <1>2, IntelligenceTypes DEF AttemptsAreCounted, Analyses, IntelligenceTypeOK
<1>6. ASSUME newest \notin Incomplete, analyser[w].job = InForce \/ analysis[InForce].status = "SUCCEEDED"
      PROVE  analysed' = InForce
  BY <1>1, <1>2, <1>6 DEF NothingOlderComes, InForce
<1> QED BY <1>1, <1>2, <1>3, <1>4, <1>5, <1>6, IntelligenceTypes, AnalyserWorks

LEMMA AnalyserCrashStep ==
    ASSUME IntelligenceIInv, OneAnalyser, NEW w \in Analysers, AnalyserCrash(w)
    PROVE  IntelligenceIInv'
<1>1. IntelligenceTypeOK /\ LatestIsAnalysed
  BY DEF IntelligenceIInv
<1>2. /\ ~Analyser(w, "out") /\ analyser' = [analyser EXCEPT ![w] = Unoccupied]
      /\ analyserCrashes < MaxAnalyserCrashes /\ analyserCrashes' = analyserCrashes + 1
      /\ UNCHANGED <<newest, configuration, analysis, analysed>>
  BY DEF AnalyserCrash
<1>3. analyserCrashes' \in 0 .. MaxAnalyserCrashes
  BY <1>1, <1>2, IntelligenceTypes
<1>4. newest \in Published \ Incomplete /\ analysis[InForce].status = "SUCCEEDED" => analysed' = InForce
  BY <1>1, <1>2 DEF LatestIsAnalysed, InForce
<1> QED BY <1>1, <1>2, <1>3, <1>4, UnoccupiedType, IntelligenceTypes, AnalyserWorks

\* The job ends: its row takes the status.
LEMMA EndOfJobStep ==
    ASSUME IntelligenceIInv, OneAnalyser, NEW w \in Analysers, ~Analyser(w, "out"),
           NEW status \in {"SUCCEEDED", "FAILED", "PENDING"},
           analysis' = [analysis EXCEPT ![analyser[w].job].status = status],
           analyser' = [analyser EXCEPT ![w] = Unoccupied],
           status = "PENDING" => analyser[w].attempt < MaxAnalysisAttempts,
           status = "SUCCEEDED" => Analyser(w, "analysed"),
           UNCHANGED <<newest, configuration, analysed, analyserCrashes>>
    PROVE  IntelligenceIInv'
<1> DEFINE key == analyser[w].job
           row == [analysis[key] EXCEPT !.status = status]
<1>1. /\ IntelligenceTypeOK /\ LatestIsAnalysed /\ NothingOlderComes /\ AttemptsAreCounted
  BY DEF IntelligenceIInv
<1>2. /\ key \in Analyses /\ analysis[key].status = "RUNNING"
      /\ analysis[key].attempt = analyser[w].attempt
  BY <1>1 DEF AttemptsAreCounted
<1>3. analysis' = [analysis EXCEPT ![key] = row]
  BY Zenon
<1>4. row \in AnalysisRow /\ row.status = status /\ row.attempt = analyser[w].attempt
  BY <1>1, <1>2, IntelligenceTypes DEF AnalysisRow
<1> HIDE DEF row
<1>5. /\ analysis' \in [Analyses -> AnalysisRow] /\ analysis'[key] = row
      /\ \A k \in Analyses \ {key} : analysis'[k] = analysis[k]
  BY <1>1, <1>2, <1>3, <1>4, IntelligenceTypes
<1>6. ASSUME newest \in Published \ Incomplete, analysis'[InForce].status = "SUCCEEDED"
      PROVE  analysed' = InForce
  <2>1. InForce \in Analyses
    BY <1>1, <1>6, InForceIsKey
  <2>2. CASE InForce = key
    BY <1>1, <1>4, <1>5, <1>6, <2>2 DEF NothingOlderComes
  <2>3. CASE InForce # key
    BY <1>1, <1>5, <1>6, <2>1, <2>3 DEF LatestIsAnalysed, InForce
  <2> QED BY <2>2, <2>3
<1> HIDE DEF key
<1> QED
  BY <1>1, <1>2, <1>4, <1>5, <1>6, UnoccupiedType, IntelligenceTypes, AnalyserMoves
     DEF AttemptsAreCounted

LEMMA CompleteStep ==
    ASSUME IntelligenceIInv, OneAnalyser, NEW w \in Analysers, CompleteAnalysis(w)
    PROVE  IntelligenceIInv'
<1>1. /\ Analyser(w, "analysed") /\ ~Analyser(w, "out")
      /\ analysis' = [analysis EXCEPT ![analyser[w].job].status = "SUCCEEDED"]
      /\ analyser' = [analyser EXCEPT ![w] = Unoccupied]
      /\ UNCHANGED <<newest, configuration, analysed, analyserCrashes>>
  BY DEF CompleteAnalysis, Analyser
<1> QED BY <1>1, EndOfJobStep

LEMMA FailAnalysisStep ==
    ASSUME IntelligenceIInv, OneAnalyser, NEW w \in Analysers, NEW retryable \in BOOLEAN,
           FailAnalysis(w, retryable)
    PROVE  IntelligenceIInv'
<1> DEFINE status == IF ~retryable \/ analyser[w].attempt >= MaxAnalysisAttempts THEN "FAILED" ELSE "PENDING"
<1>1. /\ ~Analyser(w, "out")
      /\ analysis' = [analysis EXCEPT ![analyser[w].job].status = status]
      /\ analyser' = [analyser EXCEPT ![w] = Unoccupied]
      /\ UNCHANGED <<newest, configuration, analysed, analyserCrashes>>
  BY DEF FailAnalysis, Analyser
<1>2. analyser[w].attempt \in Nat /\ MaxAnalysisAttempts \in Nat
  BY IntelligenceTypes DEF IntelligenceIInv, AnalyserState
<1>3. status \in {"FAILED", "PENDING"} /\ (status = "PENDING" => analyser[w].attempt < MaxAnalysisAttempts)
  BY <1>2
<1> HIDE DEF status
<1> QED BY <1>1, <1>3, EndOfJobStep

-----------------------------------------------------------------------------
(* The theorem.                                                            *)

LEMMA IntelligenceInitHolds == IntelligenceInit => IntelligenceIInv
<1> SUFFICES ASSUME IntelligenceInit PROVE IntelligenceIInv
  OBVIOUS
<1>1. /\ newest = 0 /\ configuration = 1 /\ analysed = Nothing /\ analyserCrashes = 0
      /\ analysis = [key \in Analyses |-> NotEnqueued]
      /\ analyser = [w \in Analysers |-> Unoccupied]
  BY DEF IntelligenceInit
<1>2. /\ NotEnqueued \in AnalysisRow /\ NotEnqueued.status = "NONE"
      /\ NotEnqueued.attempt < MaxAnalysisAttempts
  BY IntelligenceAssumption DEF NotEnqueued, AnalysisRow
<1>3. IntelligenceTypeOK
  BY <1>1, <1>2, UnoccupiedType, IntelligenceAssumption
     DEF IntelligenceTypeOK, AnalysisRow, AnalyserState, Configurations
<1>4. newest \notin Published
  BY <1>1 DEF Published
<1> QED
  BY <1>1, <1>2, <1>3, <1>4, UnoccupiedType
     DEF IntelligenceIInv, AnalysesAreOfThePast, AttemptsAreCounted, NothingOlderComes,
         LatestIsAnalysed, Analyser

LEMMA IntelligenceStepHolds ==
    ASSUME IntelligenceIInv, OneAnalyser, [IntelligenceNext]_intelligenceVars
    PROVE  IntelligenceIInv'
<1>1. CASE UNCHANGED intelligenceVars
  BY <1>1 DEF intelligenceVars, IntelligenceIInv, IntelligenceTypeOK, AnalysesAreOfThePast,
              AttemptsAreCounted, NothingOlderComes, LatestIsAnalysed, InForce, Analyser
<1>2. CASE IntelligenceNext
  BY <1>2, PublishStep, ConfigurationStep, ReanalyseStep, AnalyserReadStep, AnalyseStep, CompleteStep,
     AnalyserCrashStep, ClaimAnalysisStep, FailAnalysisStep DEF IntelligenceNext
<1> QED BY <1>1, <1>2

\* With one worker the jobs may be claimed in any order, fail, be retried and be lost with a
\* crash (modernization_worker.py): once the job in force has succeeded, the candidates are
\* of the newest revision under the configuration in force.
THEOREM NewestIsAnalysed ==
    ASSUME OneAnalyser
    PROVE  IntelligenceSpec => []LatestIsAnalysed
<1>1. IntelligenceIInv /\ [IntelligenceNext]_intelligenceVars => IntelligenceIInv'
  BY IntelligenceStepHolds
<1>2. IntelligenceIInv => LatestIsAnalysed
  BY DEF IntelligenceIInv
<1> QED BY <1>1, <1>2, IntelligenceInitHolds, PTL DEF IntelligenceSpec
-----------------------------------------------------------------------------
(* The safety of simulation runs, for any number of runs, workers, kills   *)
(* and attempts.                                                           *)

Busy(w) == simulator[w].pc \in {"simulating", "interpreting", "raised"}

\* A queued run has attempts left.  A worker at work on a run that has not ended is the
\* only one, and is at the run's attempt: the run is RUNNING and nobody else claims it.
WorkersHoldTheirRun ==
    /\ \A i \in SimulationRows :
           simulation[i].status \in {"NONE", "QUEUED"} => simulation[i].attempt < MaxSimulationAttempts
    /\ \A w \in Simulators : Busy(w) =>
           /\ simulator[w].run \in SimulationRows
           /\ \/ simulation[simulator[w].run].status \in SimulationEnded
              \/ /\ simulator[w].pc # "interpreting"
                 /\ simulation[simulator[w].run].status = "RUNNING"
                 /\ simulation[simulator[w].run].attempt = simulator[w].attempt
    /\ \A v, w \in Simulators :
           Busy(v) /\ Busy(w) /\ simulator[v].run = simulator[w].run
               => v = w \/ simulation[simulator[v].run].status \in SimulationEnded

SimulationIInv == SimulationTypeOK /\ FindingsMeanResult /\ WorkersHoldTheirRun

SimulationRun == [status : {"NONE"} \cup SimulationActive \cup SimulationEnded,
                  attempt : 0 .. MaxSimulationAttempts, findings : BOOLEAN, interpreted : BOOLEAN]
SimulatorState == [pc : {"polling", "simulating", "interpreting", "raised", "ended"},
                   run : SimulationRows \cup {NoSimulation}, attempt : 0 .. MaxSimulationAttempts]

-----------------------------------------------------------------------------
(* Constants and types.                                                    *)

LEMMA SimulationConstants ==
    /\ MaxSimulationAttempts \in Nat /\ MaxSimulationAttempts > 0 /\ MaxSimulatorKills \in Nat
    /\ SimulationRows \subseteq Nat /\ NoSimulation \notin SimulationRows
BY SimulationAssumption DEF SimulationRows, NoSimulation

LEMMA InitHolds == SimulationInit => SimulationIInv
BY SimulationConstants
   DEF SimulationInit, SimulationIInv, SimulationTypeOK, FindingsMeanResult, WorkersHoldTheirRun,
       Busy, NoRunYet, Polling, SimulationActive, SimulationEnded, Results

\* What the API does: runs are inserted, cancelled, and otherwise left to their workers.
LEMMA RequestStep ==
    ASSUME SimulationIInv, NEW i \in SimulationRows,
           SubmitSimulation(i) \/ CancelReads(i) \/ CancelWrites(i)
    PROVE  SimulationIInv'
BY SimulationConstants
   DEF SimulationIInv, SimulationTypeOK, FindingsMeanResult, WorkersHoldTheirRun, Busy,
       SubmitSimulation, CancelReads, CancelWrites, Immutable,
       SimulationActive, SimulationEnded, Results

\* A claim starts the next attempt of a queued run, in the hands of a worker that had none.
LEMMA ClaimSimulationStep ==
    ASSUME SimulationIInv, NEW w \in Simulators, NEW i \in SimulationRows, ClaimSimulation(w, i)
    PROVE  SimulationIInv'
BY SimulationConstants
   DEF SimulationIInv, SimulationTypeOK, FindingsMeanResult, WorkersHoldTheirRun, Busy,
       ClaimSimulation, NextAttempt, Simulator, SimulationActive, SimulationEnded, Results

\* A worker moves and leaves the runs alone: it works on the run it worked on, or on none.
LEMMA WorkerMoves ==
    ASSUME SimulationIInv, NEW w \in Simulators, NEW new \in SimulatorState,
           simulator' = [simulator EXCEPT ![w] = new],
           new.pc \in {"simulating", "interpreting", "raised"} =>
               /\ Busy(w) /\ new.run = simulator[w].run /\ new.attempt = simulator[w].attempt
               /\ new.pc = "interpreting" => simulation[simulator[w].run].status \in SimulationEnded,
           simulatorKills' \in 0 .. MaxSimulatorKills, UNCHANGED <<simulation, cancelling>>
    PROVE  SimulationIInv'
<1>1. SimulationTypeOK /\ FindingsMeanResult /\ WorkersHoldTheirRun
  BY DEF SimulationIInv
<1>2. /\ simulator' \in [Simulators -> SimulatorState] /\ simulator'[w] = new
      /\ \A v \in Simulators \ {w} : simulator'[v] = simulator[v]
  BY <1>1 DEF SimulationTypeOK, SimulatorState
<1>3. SimulationTypeOK'
  BY <1>1, <1>2 DEF SimulationTypeOK, SimulatorState
<1>4. FindingsMeanResult'
  BY <1>1 DEF FindingsMeanResult
<1>5. \A v \in Simulators : Busy(v)' =>
          /\ Busy(v) /\ simulator'[v].run = simulator[v].run
          /\ simulator'[v].attempt = simulator[v].attempt
          /\ \/ simulator'[v].pc # "interpreting" \/ simulator'[v].pc = simulator[v].pc
             \/ simulation[simulator[v].run].status \in SimulationEnded
  BY <1>2 DEF Busy
<1>6. WorkersHoldTheirRun'
  BY <1>1, <1>5 DEF WorkersHoldTheirRun
<1> QED BY <1>3, <1>4, <1>6 DEF SimulationIInv

\* The state of a worker after a move.
LEMMA MovesTo ==
    ASSUME SimulationTypeOK, NEW w \in Simulators,
           NEW pc \in {"polling", "simulating", "interpreting", "raised", "ended"}, Moves(w, pc)
    PROVE  \E new \in SimulatorState :
               /\ simulator' = [simulator EXCEPT ![w] = new] /\ new.pc = pc
               /\ new.run = simulator[w].run /\ new.attempt = simulator[w].attempt
<1> DEFINE new == [simulator[w] EXCEPT !.pc = pc]
<1>1. simulator[w] \in SimulatorState
  BY DEF SimulationTypeOK, SimulatorState
<1>2. /\ new \in SimulatorState /\ new.pc = pc
      /\ new.run = simulator[w].run /\ new.attempt = simulator[w].attempt
  BY <1>1 DEF SimulatorState
<1>3. simulator' = [simulator EXCEPT ![w] = new]
  BY Zenon DEF Moves
<1> HIDE DEF new
<1> QED BY <1>2, <1>3

\* A worker whose work is over, or whose process is.
LEMMA SimulatorAtRestType ==
    /\ Polling \in SimulatorState /\ Polling.pc = "polling"
    /\ [Polling EXCEPT !.pc = "ended"] \in SimulatorState /\ [Polling EXCEPT !.pc = "ended"].pc = "ended"
BY SimulationConstants DEF Polling, SimulatorState

\* An update of the run at hand, which has not ended: by a result, or by the handler.
LEMMA RunUpdated ==
    ASSUME SimulationIInv, NEW w \in Simulators, Busy(w),
           NEW i, i = simulator[w].run, ~Immutable(i),
           NEW row \in SimulationRun, NEW new \in SimulatorState,
           simulation' = [simulation EXCEPT ![i] = row],
           simulator' = [simulator EXCEPT ![w] = new],
           row.findings <=> row.status \in Results,
           \/ row.status \in SimulationEnded
           \/ row.status = "QUEUED" /\ row.attempt < MaxSimulationAttempts,
           \/ new.pc = "polling"
           \/ new.pc = "interpreting" /\ new.run = i /\ row.status \in SimulationEnded,
           UNCHANGED <<cancelling, simulatorKills>>
    PROVE  SimulationIInv'
<1>1. SimulationTypeOK /\ FindingsMeanResult /\ WorkersHoldTheirRun
  BY DEF SimulationIInv
<1>2. i \in SimulationRows /\ \A v \in Simulators \ {w} : Busy(v) => simulator[v].run # i
  BY <1>1 DEF WorkersHoldTheirRun, Immutable
<1>3. /\ simulation' \in [SimulationRows -> SimulationRun] /\ simulation'[i] = row
      /\ \A j \in SimulationRows \ {i} : simulation'[j] = simulation[j]
  BY <1>1, <1>2 DEF SimulationTypeOK, SimulationRun
<1>4. /\ simulator' \in [Simulators -> SimulatorState] /\ simulator'[w] = new
      /\ \A v \in Simulators \ {w} : simulator'[v] = simulator[v]
  BY <1>1 DEF SimulationTypeOK, SimulatorState
<1>5. SimulationTypeOK'
  BY <1>1, <1>3, <1>4 DEF SimulationTypeOK, SimulatorState, SimulationRun
<1>6. FindingsMeanResult'
  BY <1>1, <1>3 DEF FindingsMeanResult
<1>7. \A j \in SimulationRows :
          simulation'[j].status \in {"NONE", "QUEUED"} => simulation'[j].attempt < MaxSimulationAttempts
  BY <1>1, <1>3 DEF WorkersHoldTheirRun, SimulationEnded, Results
<1>8. \A v \in Simulators : Busy(v)' =>
          \/ v = w /\ simulator'[v].run = i
          \/ /\ v # w /\ Busy(v) /\ simulator'[v] = simulator[v] /\ simulator[v].run \in SimulationRows
             /\ simulation'[simulator[v].run] = simulation[simulator[v].run]
  BY <1>1, <1>2, <1>3, <1>4 DEF Busy, WorkersHoldTheirRun
<1>9. \A v \in Simulators : Busy(v)' =>
          /\ simulator'[v].run \in SimulationRows
          /\ \/ simulation'[simulator'[v].run].status \in SimulationEnded
             \/ /\ simulator'[v].pc # "interpreting"
                /\ simulation'[simulator'[v].run].status = "RUNNING"
                /\ simulation'[simulator'[v].run].attempt = simulator'[v].attempt
  <2>1. ASSUME NEW v \in Simulators, Busy(v)', v # w
        PROVE  /\ simulator[v].run \in SimulationRows
               /\ \/ simulation[simulator[v].run].status \in SimulationEnded
                  \/ /\ simulator[v].pc # "interpreting"
                     /\ simulation[simulator[v].run].status = "RUNNING"
                     /\ simulation[simulator[v].run].attempt = simulator[v].attempt
    BY <1>1, <1>8, <2>1 DEF WorkersHoldTheirRun
  <2>2. ASSUME Busy(w)' PROVE simulator'[w].run = i /\ row.status \in SimulationEnded
    BY <1>4, <2>2 DEF Busy
  <2> QED BY <1>2, <1>3, <1>8, <2>1, <2>2
<1>10. \A u, v \in Simulators :
           Busy(u)' /\ Busy(v)' /\ simulator'[u].run = simulator'[v].run
               => u = v \/ simulation'[simulator'[u].run].status \in SimulationEnded
  <2>1. SUFFICES ASSUME NEW u \in Simulators, NEW v \in Simulators, u # v, Busy(u)', Busy(v)',
                        simulator'[u].run = simulator'[v].run
                 PROVE  simulation'[simulator'[u].run].status \in SimulationEnded
    OBVIOUS
  <2>2. CASE u # w /\ v # w
    BY <1>1, <1>8, <2>1, <2>2 DEF WorkersHoldTheirRun
  <2>3. CASE u = w \/ v = w
    BY <1>2, <1>8, <2>1, <2>3
  <2> QED BY <2>2, <2>3
<1>11. WorkersHoldTheirRun'
  BY <1>7, <1>9, <1>10 DEF WorkersHoldTheirRun
<1> QED BY <1>5, <1>6, <1>11 DEF SimulationIInv

\* What a worker knows of its run as long as it has not ended.
LEMMA RunAtHand ==
    ASSUME SimulationIInv, NEW w \in Simulators, Busy(w)
    PROVE  /\ simulator[w].run \in SimulationRows /\ simulation[simulator[w].run] \in SimulationRun
           /\ simulator[w] \in SimulatorState
           /\ Immutable(simulator[w].run)
              \/ /\ simulation[simulator[w].run].attempt = simulator[w].attempt
                 /\ ~(simulation[simulator[w].run].status \in Results)
           /\ simulation[simulator[w].run].findings <=> simulation[simulator[w].run].status \in Results
<1>1. simulator[w].run \in SimulationRows
  BY DEF SimulationIInv, WorkersHoldTheirRun
<1>2. simulation[simulator[w].run] \in SimulationRun /\ simulator[w] \in SimulatorState
  BY <1>1 DEF SimulationIInv, SimulationTypeOK, SimulationRun, SimulatorState
<1>3. \/ Immutable(simulator[w].run)
      \/ /\ simulation[simulator[w].run].attempt = simulator[w].attempt
         /\ ~(simulation[simulator[w].run].status \in Results)
  BY DEF SimulationIInv, WorkersHoldTheirRun, Immutable, SimulationEnded
<1>4. simulation[simulator[w].run].findings <=> simulation[simulator[w].run].status \in Results
  BY <1>1 DEF SimulationIInv, FindingsMeanResult
<1> QED BY <1>1, <1>2, <1>3, <1>4

\* A result ends a run that has not ended, with its findings; a run that has is left alone.
LEMMA SimulationResultStep ==
    ASSUME SimulationIInv, NEW w \in Simulators, NEW result \in Results, StoreResult(w, result)
    PROVE  SimulationIInv'
<1> DEFINE i == simulator[w].run
           row == [simulation[i] EXCEPT !.status = result, !.findings = TRUE]
<1>1. Busy(w) /\ SimulationTypeOK /\ simulatorKills' \in 0 .. MaxSimulatorKills
      /\ UNCHANGED <<cancelling, simulatorKills>>
  BY DEF StoreResult, Simulator, Busy, SimulationIInv, SimulationTypeOK
<1>2. CASE Immutable(i)
  <2>1. Moves(w, "raised") /\ UNCHANGED simulation
    BY <1>2 DEF StoreResult
  <2> QED BY <1>1, <2>1, MovesTo, WorkerMoves
<1>3. CASE ~Immutable(i)
  <2>1. /\ simulation' = [simulation EXCEPT ![i].status = result, ![i].findings = TRUE]
        /\ Moves(w, "interpreting")
    BY <1>3 DEF StoreResult
  <2>2. simulation[i] \in SimulationRun /\ i \in SimulationRows
    BY <1>1, RunAtHand
  <2>3. row \in SimulationRun /\ row.status = result /\ row.findings = TRUE
    <3>1. result \in {"NONE"} \cup SimulationActive \cup SimulationEnded
      BY DEF SimulationEnded
    <3>2. row \in SimulationRun
      BY <2>2, <3>1 DEF SimulationRun
    <3>3. row.status = result /\ row.findings = TRUE
      BY <2>2 DEF SimulationRun
    <3> QED BY <3>2, <3>3
  <2>4. simulation' = [simulation EXCEPT ![i] = row]
    BY <1>1, <2>1, <2>2 DEF SimulationTypeOK
  <2> HIDE DEF row, i
  <2>5. row.status \in SimulationEnded /\ (row.findings <=> row.status \in Results)
    BY <2>3 DEF SimulationEnded
  <2>6. PICK new \in SimulatorState : /\ simulator' = [simulator EXCEPT ![w] = new]
                                      /\ new.pc = "interpreting" /\ new.run = i
    BY <1>1, <2>1, MovesTo DEF i
  <2>7. i = simulator[w].run
    BY DEF i
  <2> QED BY <1>1, <1>3, <2>3, <2>4, <2>5, <2>6, <2>7, RunUpdated
<1> QED BY <1>2, <1>3

\* The interpretation comes when the run has ended, and changes nothing.
LEMMA InterpretationStep ==
    ASSUME SimulationIInv, NEW w \in Simulators, RecordInterpretation(w)
    PROVE  SimulationIInv'
<1>1. Busy(w) /\ SimulationTypeOK /\ simulatorKills' \in 0 .. MaxSimulatorKills
      /\ UNCHANGED <<cancelling, simulatorKills>>
  BY DEF RecordInterpretation, Simulator, Busy, SimulationIInv, SimulationTypeOK
<1>2. Immutable(simulator[w].run)
  BY <1>1 DEF SimulationIInv, WorkersHoldTheirRun, RecordInterpretation, Simulator, Immutable
<1>3. Moves(w, "raised") /\ UNCHANGED simulation
  BY <1>2 DEF RecordInterpretation
<1> QED BY <1>1, <1>3, MovesTo, WorkerMoves

\* The handler queues a run again only below its last attempt, or leaves one that has ended.
LEMMA ExceptionStep ==
    ASSUME SimulationIInv, NEW w \in Simulators, HandleException(w)
    PROVE  SimulationIInv'
<1> DEFINE i == simulator[w].run
           status == IF simulator[w].attempt >= MaxSimulationAttempts THEN "FAILED" ELSE "QUEUED"
           row == [simulation[i] EXCEPT !.status = status]
<1>1. Busy(w) /\ SimulationTypeOK /\ simulatorKills' \in 0 .. MaxSimulatorKills
      /\ UNCHANGED <<cancelling, simulatorKills>>
  BY DEF HandleException, Simulator, Busy, SimulationIInv, SimulationTypeOK
<1>2. CASE Immutable(i)
  <2>1. simulator' = [simulator EXCEPT ![w] = [Polling EXCEPT !.pc = "ended"]] /\ UNCHANGED simulation
    BY <1>2 DEF HandleException
  <2> DEFINE new == [Polling EXCEPT !.pc = "ended"]
  <2>2. new \in SimulatorState /\ new.pc = "ended" /\ simulator' = [simulator EXCEPT ![w] = new]
    BY <2>1, SimulatorAtRestType
  <2> HIDE DEF new
  <2> QED BY <1>1, <2>1, <2>2, WorkerMoves
<1>3. CASE ~Immutable(i)
  <2>1. /\ simulation' = [simulation EXCEPT ![i].status = status]
        /\ simulator' = [simulator EXCEPT ![w] = Polling]
    BY <1>3 DEF HandleException
  <2>2. /\ i \in SimulationRows /\ simulation[i] \in SimulationRun /\ simulator[w] \in SimulatorState
        /\ simulation[i].attempt = simulator[w].attempt
        /\ ~(simulation[i].status \in Results) /\ ~simulation[i].findings
    BY <1>1, <1>3, RunAtHand
  <2>3. /\ status \in {"FAILED", "QUEUED"}
        /\ status = "QUEUED" => simulation[i].attempt < MaxSimulationAttempts
    BY <2>2, SimulationConstants DEF SimulatorState
  <2> HIDE DEF status
  <2>4. /\ row \in SimulationRun /\ row.status = status /\ row.findings = simulation[i].findings
        /\ row.attempt = simulation[i].attempt
    BY <2>2, <2>3 DEF SimulationRun, SimulationEnded, SimulationActive
  <2>5. simulation' = [simulation EXCEPT ![i] = row]
    BY Zenon, <2>1
  <2> HIDE DEF row
  <2>6. /\ row.findings <=> row.status \in Results
        /\ \/ row.status \in SimulationEnded
           \/ row.status = "QUEUED" /\ row.attempt < MaxSimulationAttempts
    BY <2>2, <2>3, <2>4 DEF Results, SimulationEnded
  <2> HIDE DEF i
  <2> QED BY <1>1, <1>3, <2>1, <2>4, <2>5, <2>6, SimulatorAtRestType, RunUpdated DEF i
<1> QED BY <1>2, <1>3

\* Raising, being killed and being restarted leave the runs as they are.
LEMMA ProcessStep ==
    ASSUME SimulationIInv, NEW w \in Simulators, SimulationRaises(w) \/ Kill(w) \/ Restart(w)
    PROVE  SimulationIInv'
<1>0. SimulationTypeOK /\ simulatorKills \in 0 .. MaxSimulatorKills
  BY DEF SimulationIInv, SimulationTypeOK
<1>1. CASE SimulationRaises(w)
  <2>1. Busy(w) /\ Moves(w, "raised") /\ UNCHANGED <<simulation, cancelling, simulatorKills>>
    BY <1>1 DEF SimulationRaises, Simulator, Busy
  <2> QED BY <1>0, <2>1, MovesTo, WorkerMoves
<1>2. CASE Kill(w)
  <2> DEFINE new == [Polling EXCEPT !.pc = "ended"]
  <2>1. /\ new \in SimulatorState /\ new.pc = "ended" /\ simulator' = [simulator EXCEPT ![w] = new]
        /\ UNCHANGED <<simulation, cancelling>>
    BY <1>2, SimulatorAtRestType DEF Kill
  <2>2. simulatorKills' \in 0 .. MaxSimulatorKills
    BY <1>0, <1>2, SimulationConstants DEF Kill
  <2> HIDE DEF new
  <2> QED BY <2>1, <2>2, WorkerMoves
<1>3. CASE Restart(w)
  <2>1. Moves(w, "polling") /\ UNCHANGED <<simulation, cancelling, simulatorKills>>
    BY <1>3 DEF Restart
  <2> QED BY <1>0, <2>1, MovesTo, WorkerMoves
<1> QED BY <1>1, <1>2, <1>3

LEMMA StutterStep ==
    ASSUME SimulationIInv, UNCHANGED simulationVars PROVE SimulationIInv'
BY DEF SimulationIInv, SimulationTypeOK, FindingsMeanResult, WorkersHoldTheirRun, Busy,
       simulationVars

\* The inductive invariant of simulations: a busy worker's run is RUNNING without findings or
\* has ended (change_simulation_worker.py and the triggers of migration 047).
THEOREM SimulationInvariance == SimulationSpec => []SimulationIInv
<1>1. SimulationInit => SimulationIInv
  BY InitHolds
<1>2. SimulationIInv /\ [SimulationNext]_simulationVars => SimulationIInv'
  <2> SUFFICES ASSUME SimulationIInv, [SimulationNext]_simulationVars PROVE SimulationIInv'
    OBVIOUS
  <2>1. ASSUME NEW i \in SimulationRows, SubmitSimulation(i) \/ CancelReads(i) \/ CancelWrites(i)
        PROVE  SimulationIInv'
    BY <2>1, RequestStep
  <2>2. ASSUME NEW w \in Simulators, NEW i \in SimulationRows, ClaimSimulation(w, i)
        PROVE  SimulationIInv'
    BY <2>2, ClaimSimulationStep
  <2>3. ASSUME NEW w \in Simulators, NEW result \in Results, StoreResult(w, result)
        PROVE  SimulationIInv'
    BY <2>3, SimulationResultStep
  <2>4. ASSUME NEW w \in Simulators, RecordInterpretation(w) PROVE SimulationIInv'
    BY <2>4, InterpretationStep
  <2>5. ASSUME NEW w \in Simulators, HandleException(w) PROVE SimulationIInv'
    BY <2>5, ExceptionStep
  <2>6. ASSUME NEW w \in Simulators, SimulationRaises(w) \/ Kill(w) \/ Restart(w)
        PROVE  SimulationIInv'
    BY <2>6, ProcessStep
  <2>7. CASE UNCHANGED simulationVars
    BY <2>7, StutterStep
  <2> QED BY <2>1, <2>2, <2>3, <2>4, <2>5, <2>6, <2>7 DEF SimulationNext
<1> QED BY <1>1, <1>2, PTL DEF SimulationSpec

\* Findings are stored exactly for the runs that report a result, whatever cancellations,
\* failures, retries and kills come in between.
THEOREM FindingsAndResults == SimulationSpec => []FindingsMeanResult
<1>1. SimulationIInv => FindingsMeanResult
  BY DEF SimulationIInv
<1> QED BY <1>1, SimulationInvariance, PTL

-----------------------------------------------------------------------------
(* What has ended stays as it ended.                                       *)

EndedKept ==
    \A i \in SimulationRows : simulation[i].status \in SimulationEnded => simulation'[i] = simulation[i]

LEMMA EndedStep ==
    ASSUME SimulationIInv, [SimulationNext]_simulationVars PROVE EndedKept
<1>1. ASSUME NEW i \in SimulationRows, SubmitSimulation(i) \/ CancelReads(i) \/ CancelWrites(i)
      PROVE  EndedKept
  BY <1>1 DEF EndedKept, SubmitSimulation, CancelReads, CancelWrites, Immutable,
      SimulationIInv, SimulationTypeOK, SimulationEnded, Results
<1>2. ASSUME NEW w \in Simulators, NEW i \in SimulationRows, ClaimSimulation(w, i)
      PROVE  EndedKept
  BY <1>2 DEF EndedKept, ClaimSimulation, SimulationIInv, SimulationTypeOK, SimulationEnded, Results
<1>3. ASSUME NEW w \in Simulators, NEW result \in Results, StoreResult(w, result)
      PROVE  EndedKept
  BY <1>3 DEF EndedKept, StoreResult, Immutable, SimulationIInv, SimulationTypeOK
<1>4. ASSUME NEW w \in Simulators, RecordInterpretation(w) \/ HandleException(w)
      PROVE  EndedKept
  BY <1>4 DEF EndedKept, RecordInterpretation, HandleException, Immutable, SimulationIInv, SimulationTypeOK
<1>5. ASSUME NEW w \in Simulators, SimulationRaises(w) \/ Kill(w) \/ Restart(w)
      PROVE  EndedKept
  BY <1>5 DEF EndedKept, SimulationRaises, Kill, Restart
<1>6. CASE UNCHANGED simulationVars
  BY <1>6 DEF EndedKept, simulationVars
<1> QED BY <1>1, <1>2, <1>3, <1>4, <1>5, <1>6 DEF SimulationNext

\* A run that has ended keeps its status, findings and interpretation, against every update
\* by id that was decided while it was still active.
THEOREM EndedAreFinal == SimulationSpec => EndedSimulationsAreFinal
<1>1. SimulationIInv /\ [SimulationNext]_simulationVars =>
        [\A i \in SimulationRows : simulation[i].status \in SimulationEnded
             => simulation'[i] = simulation[i]]_simulationVars
  BY EndedStep DEF EndedKept
<1> QED BY <1>1, SimulationInvariance, PTL DEF SimulationSpec, EndedSimulationsAreFinal
-----------------------------------------------------------------------------
(* Only proven versions run, for any number of people, versions,           *)
(* scenarios, evaluations and promotions.                                  *)

\* The evaluation passed everything it selected, and a drill vouches for it.
Proves(e) ==
    /\ e \in vouched
    /\ evaluation[e].status = "COMPLETED" /\ evaluation[e].passed = evaluation[e].selected

Proven(v) == \E e \in EvaluationRows : Proves(e) /\ evaluation[e].version = v

\* Nobody looks at the gate again when a proposal is decided or rolled back, so that what
\* it found has to stay true in the hands of the proposer, in the promotion and in its
\* incumbent, and so does the champion that a proposal has read.
EverythingProven ==
    /\ \A e \in vouched : evaluation[e].status # "NONE"
    /\ desk.clear => desk.evaluation \in EvaluationRows /\ Proves(desk.evaluation)
    /\ desk.incumbent # NoVersion => Proven(desk.incumbent)
    /\ \A i \in PromotionRows :
           /\ promotion[i].status \in {"PENDING", "PROMOTED"} => Proven(promotion[i].version)
           /\ promotion[i].incumbent # NoVersion => Proven(promotion[i].incumbent)
    /\ champion # NoChampion => Proven(champion.version)

HarnessIInv == HarnessTypeOK /\ EverythingProven

-----------------------------------------------------------------------------
LEMMA HarnessConstants ==
    /\ NoVersion \notin Versions /\ Nobody \notin Actors
    /\ NoEvaluation \notin EvaluationRows /\ NoPromotion \notin PromotionRows
BY HarnessAssumption DEF EvaluationRows, PromotionRows, NoEvaluation, NoPromotion

LEMMA HarnessInitHolds == HarnessInit => HarnessIInv
BY HarnessConstants, HarnessAssumption
   DEF HarnessInit, HarnessIInv, HarnessTypeOK, EverythingProven, NotBegun, NotProposed,
       NoProposal, NoChampion, NotDerived

\* An evaluation that proves its version goes on doing so: it is completed, and what is
\* vouched for stays vouched for.
LEMMA ProofsLast ==
    ASSUME HarnessIInv,
           vouched \subseteq vouched',
           \A e \in EvaluationRows : evaluation[e].status = "COMPLETED" => evaluation'[e] = evaluation[e]
    PROVE  /\ \A e \in EvaluationRows : Proves(e) => Proves(e)'
           /\ \A v : Proven(v) => Proven(v)'
BY DEF Proves, Proven

\* Scenarios, evaluations and drills leave proposals, promotions and the champion alone.
LEMMA EvidenceKeeps ==
    ASSUME HarnessIInv, HarnessTypeOK',
           vouched \subseteq vouched',
           \A e \in EvaluationRows : evaluation[e].status = "COMPLETED" => evaluation'[e] = evaluation[e],
           \A e \in vouched' : evaluation'[e].status # "NONE",
           UNCHANGED <<desk, promotion, champion>>
    PROVE  HarnessIInv'
BY ProofsLast DEF HarnessIInv, EverythingProven, NoChampion

LEMMA ScenarioStep ==
    ASSUME HarnessIInv, NEW s \in Scenarios, NEW mark \in 1 .. MaxWatermark, DeriveScenario(s, mark)
    PROVE  HarnessIInv'
<1>1. HarnessTypeOK'
  BY HarnessAssumption DEF HarnessIInv, HarnessTypeOK, DeriveScenario
<1> QED BY <1>1, EvidenceKeeps DEF DeriveScenario, HarnessIInv, EverythingProven

Evaluation ==
    [status : {"NONE", "RUNNING", "COMPLETED", "ABANDONED"}, version : Versions \cup {NoVersion},
     selected : SUBSET Scenarios, passed : SUBSET Scenarios, failed : SUBSET Scenarios]

\* One evaluation changes, into another one.
LEMMA EvaluationType ==
    ASSUME HarnessTypeOK, NEW e \in EvaluationRows, NEW new \in Evaluation,
           evaluation' = [evaluation EXCEPT ![e] = new],
           UNCHANGED <<derived, vouched, desk, promotion, champion>>
    PROVE  HarnessTypeOK'
<1>1. evaluation \in [EvaluationRows -> Evaluation]
  BY DEF HarnessTypeOK, Evaluation
<1>2. evaluation' \in [EvaluationRows -> Evaluation]
  BY <1>1
<1> QED BY <1>2 DEF HarnessTypeOK, Evaluation

LEMMA StartStep ==
    ASSUME HarnessIInv, NEW e \in EvaluationRows, NEW v \in Versions, NEW selected \in SUBSET Scenarios,
           StartEvaluation(e, v, selected)
    PROVE  HarnessIInv'
<1>1. HarnessTypeOK'
  BY DEF HarnessIInv, HarnessTypeOK, StartEvaluation, NotBegun
<1>2. evaluation[e].status = "NONE"
  BY DEF StartEvaluation, NextEvaluation, EvaluationRows
<1> QED BY <1>1, <1>2, EvidenceKeeps
     DEF StartEvaluation, NotBegun, HarnessIInv, HarnessTypeOK, EverythingProven

LEMMA RecordResultStep ==
    ASSUME HarnessIInv, NEW e \in EvaluationRows, NEW s \in Scenarios, NEW passed \in BOOLEAN,
           RecordResult(e, s, passed)
    PROVE  HarnessIInv'
<1> DEFINE old == evaluation[e]
           withPassed == [old EXCEPT !.passed = old.passed \cup {s}]
           withFailed == [old EXCEPT !.failed = old.failed \cup {s}]
<1>1. /\ old \in Evaluation /\ old.status = "RUNNING"
      /\ UNCHANGED <<derived, vouched, desk, promotion, champion>>
  BY DEF HarnessIInv, HarnessTypeOK, Evaluation, RecordResult
<1>2. withPassed \in Evaluation /\ withFailed \in Evaluation
  BY <1>1 DEF Evaluation
<1>3. withPassed.status = "RUNNING" /\ withFailed.status = "RUNNING"
  BY <1>1 DEF Evaluation
<1>4. PICK new \in {withPassed, withFailed} : evaluation' = [evaluation EXCEPT ![e] = new]
  BY Zenon DEF RecordResult
<1> HIDE DEF withPassed, withFailed, old
<1>5. HarnessTypeOK'
  BY <1>1, <1>2, <1>4, EvaluationType DEF HarnessIInv
<1> QED
  BY <1>1, <1>3, <1>4, <1>5, EvidenceKeeps DEF old, HarnessIInv, HarnessTypeOK, EverythingProven

LEMMA FinishStep ==
    ASSUME HarnessIInv, NEW e \in EvaluationRows, NEW status \in {"COMPLETED", "ABANDONED"},
           FinishEvaluation(e, status)
    PROVE  HarnessIInv'
<1> DEFINE new == [evaluation[e] EXCEPT !.status = status]
<1>1. new \in Evaluation /\ new.status = status /\ evaluation[e].status = "RUNNING"
  BY DEF HarnessIInv, HarnessTypeOK, Evaluation, FinishEvaluation
<1>2. /\ evaluation' = [evaluation EXCEPT ![e] = new]
      /\ UNCHANGED <<derived, vouched, desk, promotion, champion>>
  BY Zenon DEF FinishEvaluation
<1> HIDE DEF new
<1>3. HarnessTypeOK'
  BY <1>1, <1>2, EvaluationType DEF HarnessIInv
<1> QED
  BY <1>1, <1>2, <1>3, EvidenceKeeps DEF HarnessIInv, HarnessTypeOK, EverythingProven

LEMMA DrillStep ==
    ASSUME HarnessIInv, PassRollbackDrill
    PROVE  HarnessIInv'
<1>1. HarnessTypeOK'
  BY DEF HarnessIInv, HarnessTypeOK, PassRollbackDrill
<1> QED BY <1>1, EvidenceKeeps DEF PassRollbackDrill, HarnessIInv, HarnessTypeOK, EverythingProven

-----------------------------------------------------------------------------
(* Proposals, decisions and rollbacks leave the evidence alone.            *)

LEMMA EvidenceUnchanged ==
    ASSUME UNCHANGED <<evaluation, vouched>>
    PROVE  /\ \A e : Proves(e)' <=> Proves(e)
           /\ \A v : Proven(v)' <=> Proven(v)
BY DEF Proves, Proven

Promotion ==
    [status : {"NONE", "PENDING", "PROMOTED", "REJECTED", "ROLLED_BACK", "REFUSED"},
     version : Versions \cup {NoVersion}, incumbent : Versions \cup {NoVersion},
     evaluation : EvaluationRows \cup {NoEvaluation}, by : Actors \cup {Nobody}]

LEMMA PromotionType == HarnessTypeOK => promotion \in [PromotionRows -> Promotion]
BY DEF HarnessTypeOK, Promotion

\* The gate is clear only for an evaluation that proves its version.
LEMMA GateMeansProven ==
    ASSUME HarnessIInv, NEW e \in EvaluationRows, GateClear(e)
    PROVE  Proves(e)
<1>1. evaluation[e].passed = evaluation[e].selected
  BY DEF GateClear, Recorded, HarnessIInv, HarnessTypeOK
<1> QED BY <1>1 DEF GateClear, Proves

LEMMA GatesStep ==
    ASSUME HarnessIInv, NEW a \in Actors, NEW e \in EvaluationRows, ProposeGates(a, e)
    PROVE  HarnessIInv'
<1>1. GateClear(e) \in BOOLEAN
  BY DEF GateClear
<1>2. /\ desk' = [pc |-> "gated", by |-> a, evaluation |-> e, clear |-> GateClear(e),
                  incumbent |-> NoVersion]
      /\ UNCHANGED <<derived, evaluation, vouched, promotion, champion>>
  BY DEF ProposeGates, NoProposal
<1>3. HarnessTypeOK'
  BY <1>1, <1>2 DEF HarnessIInv, HarnessTypeOK
<1>4. /\ desk'.clear => desk'.evaluation \in EvaluationRows /\ Proves(desk'.evaluation)
      /\ desk'.incumbent = NoVersion
  BY <1>2, GateMeansProven
<1> QED
  BY <1>2, <1>3, <1>4, EvidenceUnchanged DEF HarnessIInv, EverythingProven, NoChampion

\* No champion has no version, so that what is read of one is proven.
LEMMA ReadsStep ==
    ASSUME HarnessIInv, ProposeReads
    PROVE  HarnessIInv'
<1> DEFINE new == [desk EXCEPT !.pc = "read", !.incumbent = champion.version]
<1>1. /\ desk' = new /\ UNCHANGED <<derived, evaluation, vouched, promotion, champion>>
  BY DEF ProposeReads
<1>2. /\ new.clear = desk.clear /\ new.evaluation = desk.evaluation
      /\ new.incumbent = champion.version
      /\ new \in [pc : {"none", "gated", "read"}, by : Actors \cup {Nobody},
                  evaluation : EvaluationRows \cup {NoEvaluation}, clear : BOOLEAN,
                  incumbent : Versions \cup {NoVersion}]
  BY DEF HarnessIInv, HarnessTypeOK
<1>3. champion.version # NoVersion => Proven(champion.version)
  BY DEF HarnessIInv, EverythingProven, NoChampion
<1> HIDE DEF new
<1>4. HarnessTypeOK'
  BY <1>1, <1>2 DEF HarnessIInv, HarnessTypeOK
<1> QED
  BY <1>1, <1>2, <1>3, <1>4, EvidenceUnchanged DEF HarnessIInv, EverythingProven, NoChampion

LEMMA InsertsStep ==
    ASSUME HarnessIInv, NEW i \in PromotionRows, ProposeInserts(i)
    PROVE  HarnessIInv'
<1> DEFINE pending ==
        [status |-> "PENDING", version |-> evaluation[desk.evaluation].version,
         incumbent |-> desk.incumbent, evaluation |-> desk.evaluation, by |-> desk.by]
           new == IF desk.clear THEN pending ELSE Refusal
<1>1. /\ desk' = NoProposal /\ promotion' = [promotion EXCEPT ![i] = new]
      /\ UNCHANGED <<derived, evaluation, vouched, champion>>
  BY DEF ProposeInserts
<1>2. /\ new.status \in {"PENDING", "REFUSED"}
      /\ new.status = "PENDING" => desk.clear /\ new.version = evaluation[desk.evaluation].version
      /\ new.incumbent \in {NoVersion, desk.incumbent}
      /\ desk.clear => Proven(evaluation[desk.evaluation].version)
  BY DEF Refusal, NotProposed, HarnessIInv, EverythingProven, Proven
<1>3. new \in Promotion
  <2>1. CASE desk.clear
    BY <2>1 DEF HarnessIInv, HarnessTypeOK, EverythingProven, Promotion
  <2>2. CASE ~desk.clear
    BY <2>2 DEF Refusal, NotProposed, Promotion
  <2> QED BY <2>1, <2>2
<1> HIDE DEF new
<1>4. HarnessTypeOK'
  BY <1>1, <1>3 DEF HarnessIInv, HarnessTypeOK, NoProposal, Promotion
<1>5. EverythingProven'
  BY <1>1, <1>2, EvidenceUnchanged
     DEF HarnessIInv, HarnessTypeOK, EverythingProven, NoProposal, NoChampion
<1> QED BY <1>4, <1>5 DEF HarnessIInv

LEMMA DecideStep ==
    ASSUME HarnessIInv, NEW a \in Actors, NEW i \in PromotionRows,
           NEW decision \in {"PROMOTED", "REJECTED"}, Decide(a, i, decision)
    PROVE  HarnessIInv'
<1> DEFINE new == [promotion[i] EXCEPT !.status = decision, !.by = Nobody]
<1>1. /\ promotion[i].status = "PENDING" /\ promotion' = [promotion EXCEPT ![i] = new]
      /\ UNCHANGED <<derived, evaluation, vouched, desk>>
      /\ champion' = champion \/ champion' = Installed(i)
  BY Zenon DEF Decide
<1>2. /\ new.status = decision /\ new.version = promotion[i].version
      /\ new.incumbent = promotion[i].incumbent
      /\ new \in Promotion
  BY PromotionType DEF HarnessIInv, Promotion
<1>3. /\ Installed(i).version = promotion[i].version
      /\ Installed(i) \in [version : Versions \cup {NoVersion}, previous : Versions \cup {NoVersion},
                            promotion : PromotionRows \cup {NoPromotion}]
  BY DEF Installed, HarnessIInv, HarnessTypeOK
<1>4. Proven(promotion[i].version)
  BY <1>1 DEF HarnessIInv, EverythingProven
<1> HIDE DEF new
<1>5. HarnessTypeOK'
  BY <1>1, <1>2, <1>3 DEF HarnessIInv, HarnessTypeOK, Promotion
<1>6. EverythingProven'
  BY <1>1, <1>2, <1>3, <1>4, EvidenceUnchanged
     DEF HarnessIInv, HarnessTypeOK, EverythingProven, NoChampion
<1> QED BY <1>5, <1>6 DEF HarnessIInv

LEMMA RollBackStep ==
    ASSUME HarnessIInv, NEW i \in PromotionRows, RollBack(i)
    PROVE  HarnessIInv'
<1> DEFINE new == [promotion[i] EXCEPT !.status = "ROLLED_BACK"]
<1>1. /\ promotion' = [promotion EXCEPT ![i] = new]
      /\ UNCHANGED <<derived, evaluation, vouched, desk>>
      /\ champion' = IF promotion[i].incumbent = NoVersion THEN NoChampion
                     ELSE [champion EXCEPT !.version = promotion[i].incumbent, !.previous = NoVersion]
  BY Zenon DEF RollBack
<1>2. /\ new.status = "ROLLED_BACK" /\ new.incumbent = promotion[i].incumbent
      /\ new \in Promotion
  BY PromotionType DEF HarnessIInv, Promotion
<1> HIDE DEF new
<1>3. HarnessTypeOK'
  BY <1>1, <1>2 DEF HarnessIInv, HarnessTypeOK, Promotion, NoChampion
<1>4. EverythingProven'
  BY <1>1, <1>2, EvidenceUnchanged
     DEF HarnessIInv, HarnessTypeOK, EverythingProven, NoChampion
<1> QED BY <1>3, <1>4 DEF HarnessIInv

LEMMA HarnessStutter ==
    ASSUME HarnessIInv, UNCHANGED harnessVars PROVE HarnessIInv'
BY EvidenceUnchanged DEF HarnessIInv, HarnessTypeOK, EverythingProven, NoChampion, harnessVars

\* The inductive invariant of promotions: whatever might become champion has been proven
\* (immune_system.py).
THEOREM HarnessInvariance == HarnessSpec => []HarnessIInv
<1>1. HarnessInit => HarnessIInv
  BY HarnessInitHolds
<1>2. HarnessIInv /\ [HarnessNext]_harnessVars => HarnessIInv'
  <2> SUFFICES ASSUME HarnessIInv, [HarnessNext]_harnessVars PROVE HarnessIInv'
    OBVIOUS
  <2>1. ASSUME NEW s \in Scenarios, NEW mark \in 1 .. MaxWatermark, DeriveScenario(s, mark)
        PROVE  HarnessIInv'
    BY <2>1, ScenarioStep
  <2>2. ASSUME NEW e \in EvaluationRows, NEW v \in Versions, NEW selected \in SUBSET Scenarios,
               StartEvaluation(e, v, selected)
        PROVE  HarnessIInv'
    BY <2>2, StartStep
  <2>3. ASSUME NEW e \in EvaluationRows, NEW s \in Scenarios, NEW passed \in BOOLEAN,
               RecordResult(e, s, passed)
        PROVE  HarnessIInv'
    BY <2>3, RecordResultStep
  <2>4. ASSUME NEW e \in EvaluationRows, NEW status \in {"COMPLETED", "ABANDONED"},
               FinishEvaluation(e, status)
        PROVE  HarnessIInv'
    BY <2>4, FinishStep
  <2>5. CASE PassRollbackDrill
    BY <2>5, DrillStep
  <2>6. ASSUME NEW a \in Actors, NEW e \in EvaluationRows, ProposeGates(a, e) PROVE HarnessIInv'
    BY <2>6, GatesStep
  <2>7. ASSUME NEW i \in PromotionRows, ProposeInserts(i) PROVE HarnessIInv'
    BY <2>7, InsertsStep
  <2>8. ASSUME NEW a \in Actors, NEW i \in PromotionRows, NEW decision \in {"PROMOTED", "REJECTED"},
               Decide(a, i, decision)
        PROVE  HarnessIInv'
    BY <2>8, DecideStep
  <2>9. ASSUME NEW i \in PromotionRows, RollBack(i) PROVE HarnessIInv'
    BY <2>9, RollBackStep
  <2>10. CASE ProposeReads
    BY <2>10, ReadsStep
  <2>11. CASE UNCHANGED harnessVars
    BY <2>11, HarnessStutter
  <2> QED BY <2>1, <2>2, <2>3, <2>4, <2>5, <2>6, <2>7, <2>8, <2>9, <2>10, <2>11 DEF HarnessNext
<1> QED BY <1>1, <1>2, PTL DEF HarnessSpec

\* Whatever version runs has passed every scenario of a completed evaluation that a rollback
\* drill vouches for, although its gate is computed once and may be long out of date.
THEOREM OnlyProvenRuns == HarnessSpec => []ChampionIsProven
<1>1. HarnessIInv => ChampionIsProven
  BY DEF HarnessIInv, HarnessTypeOK, EverythingProven, Proven, Proves, ChampionIsProven, NoChampion
<1> QED BY <1>1, HarnessInvariance, PTL
-----------------------------------------------------------------------------
(* The queues side by side: each is run by its own workers, and what was shown of one of   *)
(* them holds of it next to the others.                                                    *)

LEMMA OneQueueMoves ==
    ASSUME [JobNext]_jobVars
    PROVE  /\ [AdvisoryNext]_advisoryVars /\ [EmbeddingNext]_embeddingVars
           /\ [IntelligenceNext]_intelligenceVars /\ [SimulationNext]_simulationVars
           /\ [HarnessNext]_harnessVars
           /\ UNCHANGED queue
<1>1. CASE AdvisoryStep
  BY <1>1 DEF JobNext, jobVars, AdvisoryStep
<1>2. CASE EmbeddingStep
  BY <1>2 DEF JobNext, jobVars, EmbeddingStep
<1>3. CASE IntelligenceStep
  BY <1>3 DEF JobNext, jobVars, IntelligenceStep
<1>4. CASE SimulationStep
  BY <1>4 DEF JobNext, jobVars, SimulationStep
<1>5. CASE HarnessStep
  BY <1>5 DEF JobNext, jobVars, HarnessStep
<1>6. CASE UNCHANGED jobVars
  BY <1>6 DEF jobVars
<1> QED BY <1>1, <1>2, <1>3, <1>4, <1>5, <1>6 DEF JobNext

\* A behaviour of the queues is a behaviour of each of them.
THEOREM EachQueueIsItself ==
    JobSpec => AdvisorySpec /\ EmbeddingSpec /\ IntelligenceSpec /\ SimulationSpec /\ HarnessSpec
<1>1. [JobNext]_jobVars =>
        /\ [AdvisoryNext]_advisoryVars /\ [EmbeddingNext]_embeddingVars
        /\ [IntelligenceNext]_intelligenceVars /\ [SimulationNext]_simulationVars
        /\ [HarnessNext]_harnessVars
  BY OneQueueMoves
<1>2. JobInit => AdvisoryInit /\ EmbeddingInit /\ IntelligenceInit /\ SimulationInit /\ HarnessInit
  BY DEF JobInit
<1> QED BY <1>1, <1>2, PTL
        DEF JobSpec, AdvisorySpec, EmbeddingSpec, IntelligenceSpec, SimulationSpec, HarnessSpec

\* The columns of every queue stay within their types.  It takes one embedding worker: a late
\* failure of a second one puts a job back that had its last attempt.
THEOREM QueuesAreTyped ==
    ASSUME OneEmbedder, OneAnalyser
    PROVE  JobSpec => []QueuesTypeOK
<1>1. AdvisorySpec => []AdvisoryTypeOK
  <2>1. AdvisoryIInv => AdvisoryTypeOK
    BY DEF AdvisoryIInv
  <2> QED BY <2>1, AdvisoryInvariance, PTL
<1>2. EmbeddingSpec => []EmbeddingTypeOK
  <2>1. EmbeddingIInv /\ [EmbeddingNext]_embeddingVars => EmbeddingIInv'
    BY EmbeddingStepHolds
  <2>2. EmbeddingIInv => EmbeddingTypeOK
    BY DEF EmbeddingIInv
  <2> QED BY <2>1, <2>2, EmbeddingInitHolds, PTL DEF EmbeddingSpec
<1>3. IntelligenceSpec => []IntelligenceTypeOK
  <2>1. IntelligenceIInv /\ [IntelligenceNext]_intelligenceVars => IntelligenceIInv'
    BY IntelligenceStepHolds
  <2>2. IntelligenceIInv => IntelligenceTypeOK
    BY DEF IntelligenceIInv
  <2> QED BY <2>1, <2>2, IntelligenceInitHolds, PTL DEF IntelligenceSpec
<1>4. SimulationSpec => []SimulationTypeOK
  <2>1. SimulationIInv => SimulationTypeOK
    BY DEF SimulationIInv
  <2> QED BY <2>1, SimulationInvariance, PTL
<1>5. HarnessSpec => []HarnessTypeOK
  <2>1. HarnessIInv => HarnessTypeOK
    BY DEF HarnessIInv
  <2> QED BY <2>1, HarnessInvariance, PTL
<1>6. (AdvisoryTypeOK /\ EmbeddingTypeOK /\ IntelligenceTypeOK /\ SimulationTypeOK /\ HarnessTypeOK)
        => QueuesTypeOK
  BY DEF QueuesTypeOK
<1> QED BY <1>1, <1>2, <1>3, <1>4, <1>5, <1>6, EachQueueIsItself, PTL
=============================================================================
