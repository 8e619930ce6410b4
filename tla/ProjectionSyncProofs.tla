------------------------ MODULE ProjectionSyncProofs ------------------------
(***************************************************************************)
(* The projection keeps Neo4j in sync: when publications do not overlap    *)
(* and no worker outlives its lease, every key that is not owed a delivery *)
(* shows one of its current facts, or none if there are none.  From it     *)
(* follow that the API never serves a stale graph and that the projection  *)
(* implements ReplicatedGraph.                                             *)
(***************************************************************************)
EXTENDS ProjectionOrderProofs

-----------------------------------------------------------------------------
(* FactsInOrder: what a publication closes it also replaces or drops, so   *)
(* that among the rows of a key the current ones are the last.             *)

RowsWellFormed ==
    \A i \in Allocated :
        /\ KeyOf(i) \in Keys /\ outbox[i].op \in {"UPSERT", "CLOSE"}
        /\ outbox[i].op = "UPSERT" => outbox[i].fact = i

\* A transaction closes nothing or all its source asserts, with a row for each key, and
\* inserts what is new after that.
TxnWellFormed ==
    \A s \in Sources : txn[s].open =>
        /\ \A i \in txn[s].rows : Owner[KeyOf(i)] = s
        /\ \A k \in txn[s].todo : Owner[k] = s
        /\ txn[s].closes \in {{}, CurrentOf(s)}
        /\ txn[s].closes = {} => \A i \in txn[s].rows : outbox[i].op = "UPSERT"
        /\ \A i, j \in txn[s].rows : outbox[i].op = "UPSERT" /\ outbox[j].op = "CLOSE" => j < i
        /\ \A f \in txn[s].closes : \E i \in txn[s].rows : KeyOf(i) = KeyOf(f)

CurrentAreUpserts == current \subseteq Upserts(committed)

CurrentIsSuffix ==
    \A f \in current, i \in committed : KeyOf(i) = KeyOf(f) /\ f < i => i \in current

FactsInOrder == RowsWellFormed /\ TxnWellFormed /\ CurrentAreUpserts /\ CurrentIsSuffix

\* New rows leave what the committed ones say, and so what is current, alone.
LEMMA GrowthKeepsCurrent ==
    ASSUME PublishInOrder, FactsInOrder, NEW ids, Grows(ids), UNCHANGED <<committed, current>>
    PROVE  /\ \A i \in Allocated : outbox'[i] = outbox[i] /\ KeyOf(i)' = KeyOf(i)
           /\ Allocated' = Allocated \cup ids /\ ids \cap Allocated = {}
           /\ \A s \in Sources : CurrentOf(s)' = CurrentOf(s)
           /\ CurrentAreUpserts' /\ CurrentIsSuffix'
<1>1. /\ \A i \in Allocated : outbox'[i] = outbox[i]
      /\ Allocated' = Allocated \cup ids /\ ids \cap Allocated = {}
  BY DEF Grows, Allocated, Unallocated
<1>2. \A i \in Allocated : KeyOf(i)' = KeyOf(i)
  BY <1>1 DEF KeyOf
<1>3. committed \subseteq Allocated /\ current \subseteq committed
  BY DEF PublishInOrder, RowsAreNew, FactsInOrder, CurrentAreUpserts, Upserts
<1>4. \A s \in Sources : CurrentOf(s)' = CurrentOf(s)
  BY <1>2, <1>3 DEF CurrentOf
<1>5. CurrentAreUpserts'
  BY <1>1, <1>3 DEF FactsInOrder, CurrentAreUpserts, Upserts
<1>6. CurrentIsSuffix'
  BY <1>2, <1>3 DEF FactsInOrder, CurrentIsSuffix
<1> QED BY <1>1, <1>2, <1>4, <1>5, <1>6

LEMMA BeginKeepsFacts ==
    ASSUME IInv, PublishInOrder, FactsInOrder, "overlap" \notin Adversity,
           NEW s \in Sources, BeginPublish(s)
    PROVE  FactsInOrder'
<1>1. \A r \in Sources : ~txn[r].open
  BY DEF BeginPublish
<1>2. UNCHANGED <<committed, current>>
  BY DEF BeginPublish
<1>3. PICK ids \in SUBSET Ids : ids # {} /\ Starts(s, ids)
  BY BeginEffect DEF IInv
<1>4. Grows(ids)
  BY <1>3 DEF Starts
<1>5. /\ \A i \in Allocated : outbox'[i] = outbox[i] /\ KeyOf(i)' = KeyOf(i)
      /\ Allocated' = Allocated \cup ids /\ ids \cap Allocated = {}
      /\ CurrentOf(s)' = CurrentOf(s)
      /\ CurrentAreUpserts' /\ CurrentIsSuffix'
  BY <1>2, <1>4, GrowthKeepsCurrent
<1>6. /\ \A f \in CurrentOf(s) : f \in Allocated /\ Owner[KeyOf(f)] = s /\ KeyOf(f) \in Keys
  BY DEF CurrentOf, FactsInOrder, CurrentAreUpserts, Upserts, RowsWellFormed, PublishInOrder, RowsAreNew
<1>7. RowsWellFormed' /\ \A i \in ids : Owner[KeyOf(i)'] = s
  <2>1. \A i \in ids : /\ outbox'[i].key \in Keys /\ Owner[outbox'[i].key] = s
                       /\ outbox'[i].op \in {"UPSERT", "CLOSE"}
                       /\ outbox'[i].op = "UPSERT" => outbox'[i].fact = i
    BY <1>3, <1>6 DEF Starts, KeyOf
  <2> QED BY <1>5, <2>1 DEF FactsInOrder, RowsWellFormed, KeyOf
<1>8. /\ txn'[s].rows = ids /\ \A k \in txn'[s].todo : Owner[k] = s
      /\ txn'[s].closes \in {{}, CurrentOf(s)}
      /\ txn'[s].closes = {} => \A i \in ids : outbox'[i].op = "UPSERT"
      /\ (\A i \in ids : outbox'[i].op = "UPSERT") \/ (\A i \in ids : outbox'[i].op = "CLOSE")
      /\ \A f \in txn'[s].closes : \E i \in ids : outbox'[i].key = outbox[f].key
  <2>1. CASE /\ txn'[s].closes = CurrentOf(s)
             /\ \A i \in ids : /\ outbox'[i].op = "CLOSE"
                               /\ \E f \in CurrentOf(s) : outbox'[i].key = outbox[f].key
             /\ \A f \in CurrentOf(s) : \E i \in ids : outbox'[i].key = outbox[f].key
    BY <1>3, <2>1 DEF Starts
  <2>2. CASE /\ txn'[s].closes = {}
             /\ \A i \in ids : /\ outbox'[i].op = "UPSERT" /\ outbox'[i].fact = i
                               /\ outbox'[i].key \in Keys /\ Owner[outbox'[i].key] = s
    BY <1>3, <2>2 DEF Starts
  <2> QED BY <1>3, <2>1, <2>2 DEF Starts
<1>9. \A f \in txn'[s].closes : \E i \in ids : KeyOf(i)' = KeyOf(f)'
  BY <1>5, <1>6, <1>8 DEF KeyOf
<1>10. \A r \in Sources : txn'[r].open => r = s
  BY <1>1, <1>3 DEF Starts, OtherTransactionsGoOn
<1>11. TxnWellFormed'
  BY <1>5, <1>7, <1>8, <1>9, <1>10 DEF TxnWellFormed
<1> QED BY <1>5, <1>7, <1>11 DEF FactsInOrder

LEMMA FireKeepsFacts ==
    ASSUME IInv, PublishInOrder, FactsInOrder, NEW s \in Sources, FireTriggers(s)
    PROVE  FactsInOrder'
<1>1. txn[s].open /\ UNCHANGED <<committed, current>>
  BY DEF FireTriggers, PublishInOrder, ClosedIsEmpty, NoTxn
<1>2. PICK ids \in SUBSET Ids : Continues(s, ids)
  BY FireEffect DEF IInv
<1>3. /\ Grows(ids) /\ txn'[s].rows = txn[s].rows \cup ids
      /\ txn'[s].closes = txn[s].closes /\ txn'[s].todo = {}
      /\ \A i \in ids : /\ outbox'[i].op = "UPSERT" /\ outbox'[i].fact = i
                        /\ outbox'[i].key \in txn[s].todo
      /\ \A r \in Sources \ {s} : txn'[r] = txn[r]
  BY <1>2 DEF Continues, OtherTransactionsGoOn
<1>4. /\ \A i \in Allocated : outbox'[i] = outbox[i] /\ KeyOf(i)' = KeyOf(i)
      /\ Allocated' = Allocated \cup ids /\ ids \cap Allocated = {}
      /\ CurrentOf(s)' = CurrentOf(s)
      /\ CurrentAreUpserts' /\ CurrentIsSuffix'
  BY <1>1, <1>3, GrowthKeepsCurrent
<1>5. \A k \in txn[s].todo : k \in Keys /\ Owner[k] = s
  BY <1>1 DEF IInv, TypeOK, Transaction, FactsInOrder, TxnWellFormed
<1>6. \A i \in ids : KeyOf(i)' \in Keys /\ Owner[KeyOf(i)'] = s
  BY <1>3, <1>5 DEF KeyOf
<1>7. RowsWellFormed'
  <2>1. \A i \in ids : /\ KeyOf(i)' \in Keys /\ outbox'[i].op \in {"UPSERT", "CLOSE"}
                       /\ outbox'[i].op = "UPSERT" => outbox'[i].fact = i
    BY <1>3, <1>6
  <2> QED BY <1>4, <2>1 DEF FactsInOrder, RowsWellFormed
<1>8. txn[s].rows \subseteq Allocated /\ \A i \in Allocated, j \in ids : i < j
  BY <1>1, <1>3 DEF PublishInOrder, RowsAreNew, Grows
<1>9. \A r \in Sources : txn'[r].open => r = s
  BY <1>1, <1>3 DEF PublishInOrder, OneTransaction
<1>10. /\ \A i \in txn'[s].rows : Owner[KeyOf(i)'] = s
       /\ txn'[s].closes \in {{}, CurrentOf(s)'}
       /\ txn'[s].closes = {} => \A i \in txn'[s].rows : outbox'[i].op = "UPSERT"
  BY <1>1, <1>3, <1>4, <1>6, <1>8 DEF FactsInOrder, TxnWellFormed
<1>11. \A i, j \in txn'[s].rows : outbox'[i].op = "UPSERT" /\ outbox'[j].op = "CLOSE" => j < i
  BY <1>1, <1>3, <1>4, <1>8 DEF FactsInOrder, TxnWellFormed
<1>12. \A f \in txn'[s].closes : \E i \in txn'[s].rows : KeyOf(i)' = KeyOf(f)'
  <2> SUFFICES ASSUME NEW f \in txn[s].closes
               PROVE  \E i \in txn[s].rows : KeyOf(i)' = KeyOf(f)'
    BY <1>3
  <2>1. PICK i \in txn[s].rows : KeyOf(i) = KeyOf(f)
    BY <1>1 DEF FactsInOrder, TxnWellFormed
  <2>2. f \in current
    BY <1>1 DEF FactsInOrder, TxnWellFormed, CurrentOf
  <2>3. f \in Allocated
    BY <2>2 DEF FactsInOrder, CurrentAreUpserts, Upserts, PublishInOrder, RowsAreNew
  <2> QED BY <1>4, <1>8, <2>1, <2>3
<1>13. TxnWellFormed'
  BY <1>3, <1>9, <1>10, <1>11, <1>12 DEF TxnWellFormed
<1> QED BY <1>4, <1>7, <1>13 DEF FactsInOrder

\* What a commit changes is changed by one of its rows.
LEMMA CommitFacts ==
    ASSUME IInv, PublishInOrder, FactsInOrder, NEW s \in Sources, CommitPublish(s)
    PROVE  /\ committed' = committed \cup txn[s].rows /\ outbox' = outbox
           /\ txn[s].rows \subseteq Allocated
           /\ current' = (current \ txn[s].closes) \cup Upserts(txn[s].rows)
           /\ \A i \in txn[s].rows : Owner[KeyOf(i)] = s
           /\ txn[s].closes \in {{}, CurrentOf(s)}
           /\ txn[s].closes = {} => \A i \in txn[s].rows : outbox[i].op = "UPSERT"
           /\ \A i, j \in txn[s].rows : outbox[i].op = "UPSERT" /\ outbox[j].op = "CLOSE" => j < i
           /\ \A f \in txn[s].closes : \E i \in txn[s].rows : KeyOf(i) = KeyOf(f)
           /\ \A i \in committed, j \in txn[s].rows : i < j
<1>1. txn[s].open
  BY DEF CommitPublish
<1>2. txn[s].rows \subseteq Allocated /\ \A i \in committed, j \in txn[s].rows : i < j
  BY DEF PublishInOrder, RowsAreNew
<1>3. /\ committed' = committed \cup txn[s].rows /\ outbox' = outbox
      /\ current' = (current \ txn[s].closes) \cup Upserts(txn[s].rows)
  BY DEF CommitPublish, Upserts
<1> QED BY <1>1, <1>2, <1>3 DEF FactsInOrder, TxnWellFormed

LEMMA CommitKeepsFacts ==
    ASSUME IInv, PublishInOrder, FactsInOrder, NEW s \in Sources, CommitPublish(s)
    PROVE  FactsInOrder'
<1> DEFINE rows == txn[s].rows
           closes == txn[s].closes
<1>1. /\ committed' = committed \cup rows /\ outbox' = outbox /\ rows \subseteq Allocated
      /\ current' = (current \ closes) \cup Upserts(rows)
      /\ \A i \in rows : Owner[KeyOf(i)] = s
      /\ closes \in {{}, CurrentOf(s)}
      /\ closes = {} => \A i \in rows : outbox[i].op = "UPSERT"
      /\ \A i, j \in rows : outbox[i].op = "UPSERT" /\ outbox[j].op = "CLOSE" => j < i
      /\ \A i \in committed, j \in rows : i < j
  BY CommitFacts
<1>2. /\ \A r \in Sources : ~txn'[r].open
      /\ Allocated' = Allocated /\ \A i \in Ids : KeyOf(i)' = KeyOf(i)
  BY <1>1, CommitEffect DEF NoTxn, Allocated, KeyOf
<1> HIDE DEF rows, closes
<1>3. RowsWellFormed' /\ TxnWellFormed'
  BY <1>1, <1>2 DEF FactsInOrder, RowsWellFormed, TxnWellFormed, Allocated
<1>4. CurrentAreUpserts'
  BY <1>1 DEF FactsInOrder, CurrentAreUpserts, Upserts
<1>5. CurrentIsSuffix'
  <2>0. committed \subseteq Ids /\ rows \subseteq Ids /\ current \subseteq committed
    BY <1>1 DEF IInv, TypeOK, FactsInOrder, CurrentAreUpserts, Upserts, Allocated
  <2> SUFFICES ASSUME NEW f \in current', NEW i \in committed', KeyOf(i) = KeyOf(f), f < i
               PROVE  i \in current'
    BY <1>1, <1>2, <2>0 DEF CurrentIsSuffix, Upserts
  <2>1. CASE f \in Upserts(rows)
    <3>1. f \in rows /\ outbox[f].op = "UPSERT"
      BY <2>1 DEF Upserts
    <3>2. i \notin committed
      <4>1. i \in committed => i < f /\ i \in Int /\ f \in Int
        BY <1>1, <2>0, <3>1 DEF Ids
      <4> QED BY <2>0, <4>1
    <3>3. i \in rows
      BY <1>1, <3>2
    <3>4. outbox[i].op # "CLOSE"
      <4>1. outbox[i].op = "CLOSE" => i < f /\ i \in Int /\ f \in Int
        BY <1>1, <2>0, <3>1, <3>3 DEF Ids
      <4> QED BY <4>1
    <3> QED BY <1>1, <3>3, <3>4 DEF FactsInOrder, RowsWellFormed, Upserts
  <2>2. CASE f \in current \ closes
    <3>1. Owner[KeyOf(f)] = s => closes = {}
      BY <1>1, <2>2 DEF CurrentOf
    <3>2. CASE i \in committed
      <4>1. i \in current
        BY <2>2, <3>2 DEF FactsInOrder, CurrentIsSuffix
      <4>2. i \notin closes
        BY <1>1, <3>1 DEF CurrentOf
      <4> QED BY <1>1, <4>1, <4>2
    <3>3. CASE i \in rows
      BY <1>1, <3>1, <3>3 DEF Upserts
    <3> QED BY <1>1, <3>2, <3>3
  <2> QED BY <1>1, <2>1, <2>2
<1> QED BY <1>3, <1>4, <1>5 DEF FactsInOrder

LEMMA FactsInOrderStep ==
    ASSUME IInv, PublishInOrder, FactsInOrder, "overlap" \notin Adversity, [Next]_vars
    PROVE  FactsInOrder'
<1>1. CASE \E s \in Sources : BeginPublish(s) \/ FireTriggers(s) \/ CommitPublish(s)
  BY <1>1, BeginKeepsFacts, FireKeepsFacts, CommitKeepsFacts
<1>2. CASE UNCHANGED store
  BY <1>2 DEF store, FactsInOrder, RowsWellFormed, TxnWellFormed, CurrentAreUpserts,
              CurrentIsSuffix, Allocated, KeyOf, CurrentOf, Upserts
<1>3. \/ \E s \in Sources : BeginPublish(s) \/ FireTriggers(s) \/ CommitPublish(s)
      \/ UNCHANGED store
  BY DEF Next, vars, Register, Claim, Load, Apply, MarkProcessed, Fail, Crash, LeaseExpires, BackoffElapses
<1> QED BY <1>1, <1>2, <1>3

LEMMA FactsInOrderInit == Init => FactsInOrder
<1> SUFFICES ASSUME Init PROVE FactsInOrder
  OBVIOUS
<1>1. Allocated = {} /\ current = {} /\ \A s \in Sources : ~txn[s].open
  BY DEF Init, Allocated, NoTxn
<1> QED BY <1>1 DEF FactsInOrder, RowsWellFormed, TxnWellFormed, CurrentAreUpserts, CurrentIsSuffix

\* Among the rows of a key, the current facts are the last; two publications that overlap
\* would mix theirs.
THEOREM FactOrder ==
    ASSUME "overlap" \notin Adversity
    PROVE  Spec => []FactsInOrder
<1>1. Init => FactsInOrder
  BY FactsInOrderInit
<1>2. IInv /\ PublishInOrder /\ FactsInOrder /\ [Next]_vars => FactsInOrder'
  BY FactsInOrderStep
<1> QED BY <1>1, <1>2, Invariance, PublicationOrder, PTL DEF Spec

-----------------------------------------------------------------------------
(* HolderIsLive: leases outlast their batches.                             *)

HolderIsLive == \A w \in Workers : Busy(w) => Live(w)

LEMMA HolderIsLiveStep ==
    ASSUME IInv, HolderIsLive, "stall" \notin Adversity, [Next]_vars
    PROVE  HolderIsLive'
<1>0. TypeOK
  BY DEF IInv
<1>1. CASE /\ worker' = worker /\ deployment'.owner = deployment.owner
           /\ deployment'.leased = deployment.leased
  BY <1>1 DEF HolderIsLive, Busy, Live
<1>2. ASSUME NEW s \in Sources, BeginPublish(s) \/ FireTriggers(s) PROVE HolderIsLive'
  BY <1>1, <1>2 DEF BeginPublish, FireTriggers, control
<1>3. ASSUME NEW s \in Sources, CommitPublish(s) PROVE HolderIsLive'
  BY <1>0, <1>1, <1>3 DEF CommitPublish, TypeOK, Deployment
<1>4. CASE Register
  BY <1>0, <1>1, <1>4, RegisterEffect DEF Register
<1>5. ASSUME NEW w \in Workers, Claim(w) PROVE HolderIsLive'
  <2>1. \A v \in Workers : ~Busy(v)
    BY <1>5 DEF Claim, DeploymentReady, HolderIsLive, Live
  <2>2. Claims(w, Lowest(BatchSize, Claimable))
    BY <1>0, <1>5, ClaimEffect
  <2> QED BY <2>1, <2>2 DEF Claims, OthersGoOn, HolderIsLive, Busy, Live
<1>6. ASSUME NEW w \in Workers, Load(w) \/ Apply(w) PROVE HolderIsLive'
  BY <1>0, <1>6, WorkEffect DEF GoesOn, OthersGoOn, HolderIsLive, Busy, Live
<1>7. ASSUME NEW w \in Workers, MarkProcessed(w) \/ Fail(w) \/ Crash(w) PROVE HolderIsLive'
  <2>1. Frees(w)
    BY <1>0, <1>7, MarkProcessedEffect, FailEffect, CrashEffect DEF Completes, Fails
  <2>2. \A v \in Workers \ {w} : ~Busy(v)
    BY <2>1 DEF Frees, HolderIsLive, Live
  <2>3. \A v \in Workers : ~Busy(v)'
    BY <2>1, <2>2 DEF Frees, OthersGoOn, Busy, Idle
  <2> QED BY <2>3 DEF HolderIsLive, Busy
<1>8. CASE LeaseExpires
  <2>1. \A w \in Workers : ~Busy(w)
    BY <1>8 DEF LeaseExpires, HolderIsLive, Live, Busy
  <2> QED BY <1>8, <2>1 DEF LeaseExpires, HolderIsLive, Busy
<1>9. ASSUME NEW b \in Ids, BackoffElapses(b) PROVE HolderIsLive'
  BY <1>1, <1>9 DEF BackoffElapses
<1>10. CASE UNCHANGED vars
  BY <1>1, <1>10 DEF vars, control
<1> QED BY <1>2, <1>3, <1>4, <1>5, <1>6, <1>7, <1>8, <1>9, <1>10 DEF Next

\* While leases outlast batches, a worker that is busy holds the lease, so one is.
THEOREM OneWorkerAtATime ==
    ASSUME "stall" \notin Adversity
    PROVE  Spec => []HolderIsLive
<1>1. Init => HolderIsLive
  BY DEF Init, HolderIsLive, Busy, Idle
<1>2. IInv /\ HolderIsLive /\ [Next]_vars => HolderIsLive'
  BY HolderIsLiveStep
<1> QED BY <1>1, <1>2, Invariance, PTL DEF Spec

-----------------------------------------------------------------------------
(* GraphInSync.                                                            *)

Unprocessed == {i \in Delivered(delivery) : delivery[i].status # "PROCESSED"}

\* A delivery of the key is still to do, outside the batch.
Owed(k, batch) == \E i \in Unprocessed \ batch : KeyOf(i) = k

CurrentIsDelivered == deployment.state = "ACTIVE" => current \subseteq Delivered(delivery)

\* Whatever is not owed to a later delivery, a loaded batch will write as it is current, ...
LoadedWell ==
    \A w \in Workers : worker[w].pc = "loaded" =>
        \A i \in worker[w].batch :
            \/ Owed(KeyOf(i), worker[w].batch)
            \/ /\ Created(w, KeyOf(i)) \subseteq CurrentFacts(KeyOf(i))
               /\ Created(w, KeyOf(i)) = {} => CurrentFacts(KeyOf(i)) = {}

\* ... and an applied one has.
AppliedWell ==
    \A w \in Workers : worker[w].pc = "applied" =>
        \A i \in worker[w].batch : Owed(KeyOf(i), worker[w].batch) \/ InSync(KeyOf(i))

CleanIsInSync == deployment.state = "ACTIVE" => \A k \in Keys : Owed(k, {}) \/ InSync(k)
EmptyAtFirst == deployment.state = "NONE" => \A k \in Keys : edges[k] = NoFact

GraphInSync ==
    CurrentIsDelivered /\ LoadedWell /\ AppliedWell /\ CleanIsInSync /\ EmptyAtFirst

Before == IInv /\ PublishInOrder /\ QueueInOrder /\ FactsInOrder /\ HolderIsLive

\* The rows the projection works with are committed ones.
LEMMA WorkIsCommitted ==
    ASSUME Before
    PROVE  /\ current \subseteq committed /\ committed \subseteq Allocated
           /\ committed \subseteq Ids /\ Unprocessed \subseteq committed
           /\ Delivered(delivery) \subseteq committed
           /\ \A w \in Workers : Busy(w) =>
                 /\ deployment.owner = w /\ deployment.state = "ACTIVE"
                 /\ Held(w) = worker[w].batch
                 /\ worker[w].batch \subseteq Unprocessed
           /\ \A v, w \in Workers : Busy(v) /\ Busy(w) => v = w
           /\ \A i \in committed : KeyOf(i) \in Keys
<1>1. /\ current \subseteq committed /\ committed \subseteq Allocated /\ committed \subseteq Ids
      /\ Delivered(delivery) \subseteq committed
  BY DEF Before, IInv, TypeOK, FactsInOrder, CurrentAreUpserts, Upserts, PublishInOrder,
         RowsAreNew, DeliveredIsCommitted
<1>2. Unprocessed \subseteq Delivered(delivery)
  BY DEF Unprocessed
<1>3. ASSUME NEW w \in Workers, Busy(w)
      PROVE  /\ deployment.owner = w /\ deployment.state = "ACTIVE"
             /\ Held(w) = worker[w].batch
             /\ worker[w].batch \subseteq Unprocessed
  <2>1. deployment.owner = w
    BY <1>3 DEF Before, HolderIsLive, Live
  <2>2. Held(w) = worker[w].batch /\ worker[w].batch \in SUBSET Undone /\ deployment.state = "ACTIVE"
    BY <1>3, <2>1, OwnerHoldsBatch DEF Before
  <2>3. Undone \subseteq Unprocessed
    BY DEF Undone, Unprocessed, Delivered
  <2> QED BY <2>1, <2>2, <2>3
<1>4. \A i \in committed : KeyOf(i) \in Keys
  BY <1>1 DEF Before, FactsInOrder, RowsWellFormed
<1>5. \A v, w \in Workers : Busy(v) /\ Busy(w) => v = w
  BY <1>3
<1> QED BY <1>1, <1>2, <1>3, <1>4, <1>5

\* A step that leaves the facts, the graph and the set of deliveries to do alone, and no
\* worker further on than it was, keeps the graph in sync.
SyncKept ==
    /\ UNCHANGED <<committed, current, edges>> /\ \A i \in committed : outbox'[i] = outbox[i]
    /\ Delivered(delivery') = Delivered(delivery) /\ Unprocessed' = Unprocessed
    /\ deployment'.state = deployment.state
    /\ \A w \in Workers : worker'[w].pc \in {"loaded", "applied"} => worker'[w] = worker[w]

LEMMA SyncUntouched ==
    ASSUME Before, GraphInSync, SyncKept
    PROVE  GraphInSync'
<1>1. /\ current \subseteq committed /\ Unprocessed \subseteq committed
      /\ \A w \in Workers : Busy(w) => worker[w].batch \subseteq Unprocessed
  BY WorkIsCommitted
<1>2. \A i \in committed : KeyOf(i)' = KeyOf(i)
  BY DEF SyncKept, KeyOf
<1>3. \A k : CurrentFacts(k)' = CurrentFacts(k)
  BY <1>1, <1>2 DEF SyncKept, CurrentFacts
<1>4. \A k : InSync(k)' = InSync(k)
  BY <1>3 DEF SyncKept, InSync
<1>5. \A k, batch : Owed(k, batch)' = Owed(k, batch)
  BY <1>1, <1>2 DEF SyncKept, Owed
<1>6. CurrentIsDelivered' /\ CleanIsInSync' /\ EmptyAtFirst'
  BY <1>4, <1>5 DEF SyncKept, GraphInSync, CurrentIsDelivered, CleanIsInSync, EmptyAtFirst
<1>7. ASSUME NEW w \in Workers, worker'[w].pc \in {"loaded", "applied"}
      PROVE  /\ worker'[w] = worker[w] /\ worker[w].batch \subseteq committed
             /\ \A k : Created(w, k)' = Created(w, k)
  <2>1. worker'[w] = worker[w]
    BY <1>7 DEF SyncKept
  <2>2. worker[w].batch \subseteq committed
    BY <1>1, <1>7, <2>1 DEF Busy
  <2> QED BY <1>2, <2>1, <2>2 DEF SyncKept, Created, Upserts
<1>8. LoadedWell'
  BY <1>2, <1>3, <1>5, <1>7 DEF GraphInSync, LoadedWell
<1>9. AppliedWell'
  BY <1>2, <1>4, <1>5, <1>7 DEF GraphInSync, AppliedWell
<1> QED BY <1>6, <1>8, <1>9 DEF GraphInSync

\* Deliveries come into being unprocessed, and what was unprocessed stays so.
LEMMA EnqueuedIsOwed ==
    ASSUME TypeOK, NEW ids \in SUBSET Ids, Enqueues(ids)
    PROVE  /\ Delivered(delivery') = Delivered(delivery) \cup ids
           /\ Unprocessed \subseteq Unprocessed'
           /\ ids \ Delivered(delivery) \subseteq Unprocessed'
BY DEF Enqueues, Delivered, Unprocessed

\* A commit changes the current facts of the keys of its rows only, and owes them all.
LEMMA CommitOwes ==
    ASSUME Before, NEW s \in Sources, CommitPublish(s)
    PROVE  /\ \A i \in Ids : KeyOf(i)' = KeyOf(i)
           /\ Delivered(delivery') = Delivered(delivery) \cup txn[s].seen
           /\ Unprocessed \subseteq Unprocessed'
           /\ current' \subseteq current \cup txn[s].rows
           /\ deployment.state = "ACTIVE" => txn[s].rows \subseteq Unprocessed' \ Unprocessed
           /\ deployment'.state = deployment.state
           /\ UNCHANGED <<outbox, worker, edges>>
           /\ \A k \in Keys : CurrentFacts(k)' = CurrentFacts(k) \/ \E i \in txn[s].rows : KeyOf(i) = k
<1>1. /\ Enqueues(txn[s].seen) /\ txn[s].seen \in SUBSET Ids /\ txn[s].rows \in SUBSET Ids
      /\ deployment.state = "ACTIVE" => txn[s].seen = txn[s].rows
      /\ deployment'.state = deployment.state /\ UNCHANGED <<outbox, worker, edges>>
      /\ \A i \in committed, j \in txn[s].rows : i < j
  BY CommitEffect DEF Before
<1>2. /\ current' = (current \ txn[s].closes) \cup Upserts(txn[s].rows)
      /\ \A f \in txn[s].closes : \E i \in txn[s].rows : KeyOf(i) = KeyOf(f)
  BY CommitFacts DEF Before
<1>3. /\ Delivered(delivery') = Delivered(delivery) \cup txn[s].seen
      /\ Unprocessed \subseteq Unprocessed'
      /\ txn[s].seen \ Delivered(delivery) \subseteq Unprocessed'
  BY <1>1, EnqueuedIsOwed DEF Before, IInv
<1>4. committed \cap txn[s].rows = {}
  <2>1. \A i \in txn[s].rows : ~ (i < i)
    BY <1>1 DEF Ids
  <2> QED BY <1>1, <2>1
<1>5. Delivered(delivery) \cap txn[s].rows = {} /\ Unprocessed \cap txn[s].rows = {}
  BY <1>4, WorkIsCommitted
<1>6. \A i \in Ids : KeyOf(i)' = KeyOf(i)
  BY <1>1 DEF KeyOf
<1>7. ASSUME NEW k \in Keys, ~ \E i \in txn[s].rows : KeyOf(i) = k
      PROVE  CurrentFacts(k)' = CurrentFacts(k)
  <2>1. \A f : KeyOf(f)' = KeyOf(f)
    BY <1>1 DEF KeyOf
  <2>2. \A f \in Upserts(txn[s].rows) : KeyOf(f) # k
    BY <1>7 DEF Upserts
  <2>3. \A f \in txn[s].closes : KeyOf(f) # k
    BY <1>2, <1>7
  <2> QED BY <1>2, <2>1, <2>2, <2>3 DEF CurrentFacts
<1>8. current' \subseteq current \cup txn[s].rows
  BY <1>2 DEF Upserts
<1> QED BY <1>1, <1>3, <1>5, <1>6, <1>7, <1>8

LEMMA CommitKeepsSync ==
    ASSUME Before, GraphInSync, NEW s \in Sources, CommitPublish(s)
    PROVE  GraphInSync'
<1>1. /\ \A i \in Ids : KeyOf(i)' = KeyOf(i)
      /\ Delivered(delivery') = Delivered(delivery) \cup txn[s].seen
      /\ Unprocessed \subseteq Unprocessed'
      /\ current' \subseteq current \cup txn[s].rows
      /\ deployment.state = "ACTIVE" => txn[s].rows \subseteq Unprocessed' \ Unprocessed
      /\ deployment'.state = deployment.state
      /\ UNCHANGED <<outbox, worker, edges>>
      /\ \A k \in Keys : CurrentFacts(k)' = CurrentFacts(k) \/ \E i \in txn[s].rows : KeyOf(i) = k
  BY CommitOwes
<1>2. /\ Unprocessed \subseteq Ids /\ \A i \in Unprocessed : KeyOf(i) \in Keys
      /\ \A w \in Workers : Busy(w) => /\ worker[w].batch \subseteq Unprocessed
                                       /\ deployment.state = "ACTIVE"
  BY WorkIsCommitted
<1>3. Unprocessed' \subseteq Delivered(delivery') /\ Delivered(delivery') \subseteq Ids
  BY DEF Unprocessed, Delivered
<1>4. ASSUME NEW k \in Keys, NEW batch \in SUBSET Unprocessed, deployment.state = "ACTIVE"
      PROVE  \/ Owed(k, batch)'
             \/ CurrentFacts(k)' = CurrentFacts(k) /\ InSync(k)' = InSync(k) /\ ~Owed(k, batch)
  <2>1. CASE \E i \in txn[s].rows : KeyOf(i) = k
    BY <1>1, <1>3, <1>4, <2>1 DEF Owed
  <2>2. CASE Owed(k, batch)
    BY <1>1, <1>2, <2>2 DEF Owed
  <2>3. CASE ~Owed(k, batch) /\ CurrentFacts(k)' = CurrentFacts(k)
    BY <1>1, <2>3 DEF InSync
  <2> QED BY <1>1, <2>1, <2>2, <2>3
<1>5. CurrentIsDelivered'
  BY <1>1, <1>3 DEF GraphInSync, CurrentIsDelivered
<1>6. EmptyAtFirst'
  BY <1>1 DEF GraphInSync, EmptyAtFirst
<1>7. CleanIsInSync'
  <2> SUFFICES ASSUME deployment.state = "ACTIVE", NEW k \in Keys PROVE Owed(k, {})' \/ InSync(k)'
    BY <1>1 DEF CleanIsInSync
  <2> QED BY <1>4 DEF GraphInSync, CleanIsInSync
<1>8. LoadedWell'
  <2> SUFFICES ASSUME NEW w \in Workers, worker[w].pc = "loaded", NEW i \in worker[w].batch
               PROVE  \/ Owed(KeyOf(i), worker[w].batch)'
                      \/ /\ Created(w, KeyOf(i))' \subseteq CurrentFacts(KeyOf(i))'
                         /\ Created(w, KeyOf(i))' = {} => CurrentFacts(KeyOf(i))' = {}
    BY <1>1 DEF LoadedWell
  <2>1. worker[w].batch \subseteq Unprocessed /\ KeyOf(i) \in Keys /\ deployment.state = "ACTIVE"
    BY <1>2 DEF Busy
  <2>2. KeyOf(i)' = KeyOf(i) /\ worker' = worker
    BY <1>1, <1>2, <2>1
  <2>3. Created(w, KeyOf(i))' = Created(w, KeyOf(i))
    BY <1>1, <2>2 DEF Created, Upserts, KeyOf
  <2>4. \/ Owed(KeyOf(i), worker[w].batch)'
        \/ CurrentFacts(KeyOf(i))' = CurrentFacts(KeyOf(i)) /\ ~Owed(KeyOf(i), worker[w].batch)
    BY <1>4, <2>1, <2>2
  <2> QED BY <2>2, <2>3, <2>4 DEF GraphInSync, LoadedWell
<1>9. AppliedWell'
  <2> SUFFICES ASSUME NEW w \in Workers, worker[w].pc = "applied", NEW i \in worker[w].batch
               PROVE  Owed(KeyOf(i), worker[w].batch)' \/ InSync(KeyOf(i))'
    BY <1>1 DEF AppliedWell
  <2>1. worker[w].batch \subseteq Unprocessed /\ KeyOf(i) \in Keys /\ deployment.state = "ACTIVE"
    BY <1>2 DEF Busy
  <2>2. KeyOf(i)' = KeyOf(i) /\ worker' = worker
    BY <1>1, <1>2, <2>1
  <2>3. \/ Owed(KeyOf(i), worker[w].batch)'
        \/ InSync(KeyOf(i))' = InSync(KeyOf(i)) /\ ~Owed(KeyOf(i), worker[w].batch)
    BY <1>4, <2>1, <2>2
  <2> QED BY <2>2, <2>3 DEF GraphInSync, AppliedWell
<1> QED BY <1>5, <1>6, <1>7, <1>8, <1>9 DEF GraphInSync

\* The first registration owes every current fact, and nothing is in the graph.
LEMMA RegisterKeepsSync ==
    ASSUME Before, GraphInSync, Register
    PROVE  GraphInSync'
<1>1. /\ deployment.state # "ACTIVE" /\ UNCHANGED <<outbox, committed, current, worker, edges>>
      /\ Enqueues(Backfill) /\ Backfill \subseteq committed /\ deployment'.state = "ACTIVE"
  BY RegisterEffect, BackfillIsCommitted DEF Before, IInv, Register, store, graph
<1>2. /\ deployment.state = "NONE" /\ Delivered(delivery) = {} /\ deployment.projected = 0
      /\ \A w \in Workers : ~Busy(w)
  BY <1>1 DEF Before, QueueInOrder, NothingYet
<1>3. current \subseteq Backfill
  BY <1>2 DEF Backfill, Before, FactsInOrder, CurrentAreUpserts
<1>4. Backfill \in SUBSET Ids
  BY <1>1 DEF Before, IInv, TypeOK
<1>5. Delivered(delivery') = Backfill /\ Backfill \subseteq Unprocessed'
  BY <1>1, <1>2, <1>4, EnqueuedIsOwed DEF Before, IInv
<1>6. CurrentIsDelivered'
  BY <1>1, <1>3, <1>5 DEF CurrentIsDelivered
<1>7. CleanIsInSync'
  <2> SUFFICES ASSUME NEW k \in Keys, ~InSync(k)' PROVE Owed(k, {})'
    BY DEF CleanIsInSync
  <2>1. edges'[k] = NoFact
    BY <1>1, <1>2 DEF GraphInSync, EmptyAtFirst
  <2>2. PICK f \in current : KeyOf(f)' = k
    BY <1>1, <2>1 DEF InSync, CurrentFacts
  <2> QED BY <1>3, <1>5, <2>2 DEF Owed
<1>8. LoadedWell' /\ AppliedWell' /\ EmptyAtFirst'
  BY <1>1, <1>2 DEF LoadedWell, AppliedWell, EmptyAtFirst, Busy
<1> QED BY <1>6, <1>7, <1>8 DEF GraphInSync

\* What a batch is to write is settled by what was current when it was loaded.
LEMMA LoadKeepsSync ==
    ASSUME Before, GraphInSync, NEW w \in Workers, Load(w)
    PROVE  GraphInSync'
<1>1. /\ worker[w].pc = "claimed" /\ UNCHANGED <<outbox, committed, current, edges, delivery, deployment>>
      /\ worker'[w].batch = worker[w].batch /\ worker'[w].pc = "loaded" /\ OthersGoOn(w)
      /\ worker'[w].view = current \cap {outbox[i].fact : i \in worker[w].batch}
  BY DEF Load, Before, IInv, TypeOK, Process, OthersGoOn, store, control, graph
<1>2. /\ Busy(w) /\ worker[w].batch \subseteq Unprocessed /\ deployment.state = "ACTIVE"
      /\ Unprocessed \subseteq committed /\ current \subseteq committed /\ committed \subseteq Allocated
      /\ Unprocessed \subseteq Ids /\ current \subseteq Ids
      /\ \A v \in Workers \ {w} : ~Busy(v)
  BY <1>1, WorkIsCommitted DEF Busy
<1>3. /\ CurrentIsDelivered' /\ CleanIsInSync' /\ EmptyAtFirst'
      /\ \A k, batch : Owed(k, batch)' = Owed(k, batch)
      /\ \A k : CurrentFacts(k)' = CurrentFacts(k)
  BY <1>1 DEF GraphInSync, CurrentIsDelivered, CleanIsInSync, EmptyAtFirst, Owed, Unprocessed,
              InSync, CurrentFacts, KeyOf
<1>4. AppliedWell'
  BY <1>1, <1>2 DEF AppliedWell, OthersGoOn, Busy
<1>5. \A f \in current : outbox[f].op = "UPSERT" /\ outbox[f].fact = f
  BY <1>2 DEF Before, FactsInOrder, CurrentAreUpserts, Upserts, RowsWellFormed
<1>6. \A i \in worker[w].batch : outbox[i].op = "UPSERT" => outbox[i].fact = i
  BY <1>2 DEF Before, FactsInOrder, RowsWellFormed
<1>7. ASSUME NEW i
      PROVE  Created(w, KeyOf(i))' = {j \in worker[w].batch : KeyOf(j) = KeyOf(i) /\ j \in current}
  <2>1. Created(w, KeyOf(i))' = {outbox[j].fact : j \in {m \in worker[w].batch :
             outbox[m].op = "UPSERT" /\ KeyOf(m) = KeyOf(i) /\ outbox[m].fact \in worker'[w].view}}
    BY <1>1 DEF Created, Upserts, KeyOf
  <2> QED BY <1>1, <1>5, <1>6, <2>1
<1>8. ASSUME NEW i \in worker[w].batch, NEW f \in CurrentFacts(KeyOf(i)),
             ~Owed(KeyOf(i), worker[w].batch)
      PROVE  Created(w, KeyOf(i))' # {}
  <2>1. f \in current /\ KeyOf(f) = KeyOf(i) /\ f \in Delivered(delivery)
    BY <1>2, <1>8 DEF CurrentFacts, GraphInSync, CurrentIsDelivered
  <2>2. CASE f \in worker[w].batch
    BY <1>7, <2>1, <2>2
  <2>3. CASE f \notin worker[w].batch
    <3>1. delivery[f].status = "PROCESSED"
      BY <1>8, <2>1, <2>3 DEF Owed, Unprocessed
    <3>2. i \in Delivered(delivery) /\ delivery[i].status # "PROCESSED"
      BY <1>2 DEF Unprocessed
    <3>3. f <= deployment.projected /\ ~ (i <= deployment.projected)
      BY <2>1, <3>1, <3>2 DEF Before, QueueInOrder, WatermarkDivides
    <3>4. f < i
      <4>1. f \in Nat /\ i \in Nat /\ deployment.projected \in Nat
        BY <1>2, <2>1, Numbers DEF Before, IInv
      <4> QED BY <3>3, <4>1
    <3>5. i \in current
      BY <1>2, <2>1, <3>4 DEF Before, FactsInOrder, CurrentIsSuffix
    <3> QED BY <1>7, <3>5
  <2> QED BY <2>2, <2>3
<1>9. LoadedWell'
  <2> SUFFICES ASSUME NEW i \in worker[w].batch
               PROVE  \/ Owed(KeyOf(i), worker[w].batch)
                      \/ /\ Created(w, KeyOf(i))' \subseteq CurrentFacts(KeyOf(i))
                         /\ Created(w, KeyOf(i))' = {} => CurrentFacts(KeyOf(i)) = {}
    <3>1. \A i : KeyOf(i)' = KeyOf(i)
      BY <1>1 DEF KeyOf
    <3>2. \A v \in Workers : worker'[v].pc = "loaded" => v = w
      BY <1>1, <1>2 DEF OthersGoOn, Busy
    <3> QED BY <1>1, <1>3, <3>1, <3>2 DEF LoadedWell
  <2>1. Created(w, KeyOf(i))' \subseteq CurrentFacts(KeyOf(i))
    BY <1>7 DEF CurrentFacts
  <2> QED BY <1>8, <2>1
<1> QED BY <1>3, <1>4, <1>9 DEF GraphInSync

\* What a Neo4j transaction does: only keys of the batch change.
LEMMA ApplyEffect ==
    ASSUME Before, NEW w \in Workers, Apply(w)
    PROVE  /\ worker[w].pc = "loaded" /\ UNCHANGED <<outbox, committed, current, delivery, deployment>>
           /\ worker'[w].batch = worker[w].batch /\ worker'[w].pc = "applied" /\ OthersGoOn(w)
           /\ edges' \in [Keys -> Ids \cup {NoFact}]
           /\ \A k \in Keys : IF Created(w, k) # {} THEN edges'[k] \in Created(w, k)
                              ELSE IF \E i \in worker[w].batch : KeyOf(i) = k THEN edges'[k] = NoFact
                              ELSE edges'[k] = edges[k]
           /\ \A k \in Keys : edges'[k] # edges[k] => \E i \in worker[w].batch : KeyOf(i) = k
<1>1. /\ worker[w].pc = "loaded" /\ UNCHANGED <<outbox, committed, current, delivery, deployment>>
      /\ worker'[w].batch = worker[w].batch /\ worker'[w].pc = "applied" /\ OthersGoOn(w)
  BY DEF Apply, Before, IInv, TypeOK, Process, OthersGoOn, store, control
<1>2. /\ edges' \in [Keys -> Ids \cup {NoFact}]
      /\ \A k \in Keys : edges'[k] \in Outcomes(w, k)
  BY DEF Apply
<1>3. \A k \in Keys : IF Created(w, k) # {} THEN edges'[k] \in Created(w, k)
                      ELSE IF \E i \in worker[w].batch : KeyOf(i) = k THEN edges'[k] = NoFact
                      ELSE edges'[k] = edges[k]
  BY <1>2 DEF Outcomes
<1>4. \A k : Created(w, k) # {} => \E i \in worker[w].batch : KeyOf(i) = k
  BY DEF Created, Upserts
<1> QED BY <1>1, <1>2, <1>3, <1>4

LEMMA ApplyKeepsSync ==
    ASSUME Before, GraphInSync, NEW w \in Workers, Apply(w)
    PROVE  GraphInSync'
<1>1. /\ worker[w].pc = "loaded" /\ UNCHANGED <<outbox, committed, current, delivery, deployment>>
      /\ worker'[w].batch = worker[w].batch /\ worker'[w].pc = "applied" /\ OthersGoOn(w)
      /\ \A k \in Keys : IF Created(w, k) # {} THEN edges'[k] \in Created(w, k)
                         ELSE IF \E i \in worker[w].batch : KeyOf(i) = k THEN edges'[k] = NoFact
                         ELSE edges'[k] = edges[k]
      /\ \A k \in Keys : edges'[k] # edges[k] => \E i \in worker[w].batch : KeyOf(i) = k
  BY ApplyEffect
<1>2. /\ Busy(w) /\ worker[w].batch \subseteq Unprocessed /\ deployment.state = "ACTIVE"
      /\ \A v \in Workers \ {w} : ~Busy(v)
      /\ \A i \in worker[w].batch : KeyOf(i) \in Keys
  BY <1>1, WorkIsCommitted DEF Busy
<1>3. /\ \A i : KeyOf(i)' = KeyOf(i)
      /\ \A k, batch : Owed(k, batch)' = Owed(k, batch)
      /\ \A k : CurrentFacts(k)' = CurrentFacts(k)
  BY <1>1 DEF Owed, Unprocessed, CurrentFacts, KeyOf
<1>4. CurrentIsDelivered' /\ EmptyAtFirst' /\ LoadedWell'
  BY <1>1, <1>2 DEF GraphInSync, CurrentIsDelivered, EmptyAtFirst, LoadedWell, OthersGoOn, Busy
<1>5. AppliedWell'
  <2> SUFFICES ASSUME NEW i \in worker[w].batch, ~Owed(KeyOf(i), worker[w].batch)
               PROVE  \/ edges'[KeyOf(i)] \in CurrentFacts(KeyOf(i))
                      \/ CurrentFacts(KeyOf(i)) = {} /\ edges'[KeyOf(i)] = NoFact
    BY <1>1, <1>2, <1>3 DEF AppliedWell, OthersGoOn, Busy, InSync
  <2>1. /\ Created(w, KeyOf(i)) \subseteq CurrentFacts(KeyOf(i))
        /\ Created(w, KeyOf(i)) = {} => CurrentFacts(KeyOf(i)) = {}
    BY <1>1 DEF GraphInSync, LoadedWell
  <2> QED BY <1>1, <1>2, <2>1
<1>6. CleanIsInSync'
  <2> SUFFICES ASSUME NEW k \in Keys, ~Owed(k, {}) PROVE InSync(k)'
    BY <1>3 DEF CleanIsInSync
  <2>1. edges'[k] = edges[k]
    BY <1>1, <1>2 DEF Owed
  <2>2. InSync(k)
    BY <1>2 DEF GraphInSync, CleanIsInSync
  <2> QED BY <1>3, <2>1, <2>2 DEF InSync
<1> QED BY <1>4, <1>5, <1>6 DEF GraphInSync

LEMMA MarkProcessedKeepsSync ==
    ASSUME Before, GraphInSync, NEW w \in Workers, MarkProcessed(w)
    PROVE  GraphInSync' /\ Unprocessed' \subseteq Unprocessed
<1>1. /\ worker[w].pc = "applied" /\ UNCHANGED <<outbox, committed, current, edges>>
      /\ Completes(w)
  BY MarkProcessedEffect DEF Before, IInv, MarkProcessed, store, graph
<1>2. /\ Busy(w) /\ worker[w].batch \subseteq Unprocessed /\ deployment.state = "ACTIVE"
      /\ Held(w) = worker[w].batch
      /\ \A v \in Workers \ {w} : ~Busy(v)
  BY <1>1, WorkIsCommitted DEF Busy
<1>3. /\ Unprocessed' = Unprocessed \ worker[w].batch
      /\ Delivered(delivery') = Delivered(delivery)
      /\ deployment'.state = deployment.state /\ \A v \in Workers : ~Busy(v)'
  BY <1>1, <1>2 DEF Completes, Frees, OthersGoOn, Busy, Idle, Unprocessed, Delivered
<1>4. /\ \A k : InSync(k)' = InSync(k)
      /\ \A k : Owed(k, {})' = Owed(k, worker[w].batch)
  BY <1>1, <1>3 DEF Owed, InSync, CurrentFacts, KeyOf
<1>5. CurrentIsDelivered' /\ EmptyAtFirst' /\ LoadedWell' /\ AppliedWell'
  BY <1>1, <1>2, <1>3 DEF GraphInSync, CurrentIsDelivered, EmptyAtFirst, LoadedWell, AppliedWell, Busy
<1>6. CleanIsInSync'
  <2> SUFFICES ASSUME NEW k \in Keys, ~Owed(k, worker[w].batch) PROVE InSync(k)
    BY <1>4 DEF CleanIsInSync
  <2>1. CASE \E i \in worker[w].batch : KeyOf(i) = k
    BY <1>1, <2>1 DEF GraphInSync, AppliedWell
  <2>2. CASE ~ \E i \in worker[w].batch : KeyOf(i) = k
    BY <1>2, <2>2 DEF GraphInSync, CleanIsInSync, Owed
  <2> QED BY <2>1, <2>2
<1> QED BY <1>3, <1>5, <1>6 DEF GraphInSync

\* All that can disturb the synchrony.
LEMMA WhatTouchesSync ==
    ASSUME Before, NoDeadLetters', [Next]_vars
    PROVE  \/ SyncKept
           \/ \E s \in Sources : CommitPublish(s)
           \/ Register
           \/ \E w \in Workers : Load(w) \/ Apply(w) \/ MarkProcessed(w)
<1>0. TypeOK /\ committed \subseteq Allocated /\ committed \subseteq Ids
  BY WorkIsCommitted DEF Before, IInv
<1>1. ASSUME NEW ids, Grows(ids), UNCHANGED <<committed, current, edges, delivery, deployment, worker>>
      PROVE  SyncKept
  BY <1>0, <1>1 DEF Grows, SyncKept, Unprocessed, Allocated, Unallocated
<1>2. ASSUME NEW s \in Sources, BeginPublish(s) PROVE SyncKept
  <2>1. PICK ids \in SUBSET Ids : ids # {} /\ Starts(s, ids)
    BY <1>0, <1>2, BeginEffect
  <2> QED BY <1>1, <1>2, <2>1 DEF Starts, BeginPublish, control, graph
<1>3. ASSUME NEW s \in Sources, FireTriggers(s) PROVE SyncKept
  <2>1. PICK ids \in SUBSET Ids : Continues(s, ids)
    BY <1>0, <1>3, FireEffect
  <2> QED BY <1>1, <1>3, <2>1 DEF Continues, FireTriggers, control, graph
<1>4. ASSUME NEW w \in Workers, Claim(w) PROVE SyncKept
  <2> DEFINE batch == Lowest(BatchSize, Claimable)
  <2>1. Claims(w, batch) /\ batch \subseteq Undone /\ UNCHANGED <<outbox, committed, current, edges>>
    BY <1>0, <1>4, ClaimEffect, BatchType DEF Claim, store, graph
  <2>2. Delivered(delivery') = Delivered(delivery) /\ Unprocessed' = Unprocessed
    BY <2>1 DEF Claims, Undone, Delivered, Unprocessed
  <2> HIDE DEF batch
  <2> QED BY <2>1, <2>2 DEF Claims, ProgressKept, OthersGoOn, SyncKept
<1>5. ASSUME NEW w \in Workers, Fail(w) PROVE SyncKept
  <2>1. Fails(w) /\ UNCHANGED <<outbox, committed, current, edges>>
    BY <1>0, <1>5, FailEffect DEF Fail, store, graph
  <2>2. Exhausted(w) = {}
    <3>1. \A i \in Exhausted(w) : i \in Ids /\ i \in Held(w)
      BY HeldIsProcessing DEF Exhausted, Before
    <3> QED BY <2>1, <3>1 DEF Fails, NoDeadLetters
  <2>3. deployment'.state = deployment.state
    BY <2>1, <2>2 DEF Fails, LetsGo
  <2>4. \A i \in Held(w) : delivery[i].status = "PROCESSING"
    BY HeldIsProcessing DEF Before
  <2>5. Delivered(delivery') = Delivered(delivery) /\ Unprocessed' = Unprocessed
    BY <2>1, <2>2, <2>4 DEF Fails, Delivered, Unprocessed
  <2> QED BY <2>1, <2>3, <2>5 DEF Fails, Frees, OthersGoOn, Idle, SyncKept
<1>6. ASSUME NEW w \in Workers, Crash(w) PROVE SyncKept
  <2>1. Frees(w) /\ UNCHANGED <<outbox, committed, current, edges, delivery, deployment>>
    BY <1>0, <1>6, CrashEffect DEF Crash, store, graph
  <2> QED BY <2>1 DEF Frees, OthersGoOn, Idle, SyncKept, Unprocessed
<1>7. ASSUME DeliveriesKept, ProgressKept, UNCHANGED <<store, worker, graph>> PROVE SyncKept
  BY <1>7 DEF DeliveriesKept, ProgressKept, SyncKept, Unprocessed, Delivered, store, graph
<1>8. CASE LeaseExpires
  BY <1>0, <1>7, <1>8, LeaseExpiresEffect DEF LeaseExpires
<1>9. ASSUME NEW b \in Ids, BackoffElapses(b) PROVE SyncKept
  BY <1>0, <1>7, <1>9, BackoffEffect DEF BackoffElapses, ProgressKept
<1>10. CASE UNCHANGED vars
  BY <1>7, <1>10 DEF vars, control, DeliveriesKept, ProgressKept
<1> QED BY <1>2, <1>3, <1>4, <1>5, <1>6, <1>8, <1>9, <1>10 DEF Next

LEMMA GraphInSyncStep ==
    ASSUME Before, GraphInSync, NoDeadLetters', [Next]_vars
    PROVE  GraphInSync'
BY WhatTouchesSync, SyncUntouched, CommitKeepsSync, RegisterKeepsSync, LoadKeepsSync,
   ApplyKeepsSync, MarkProcessedKeepsSync

LEMMA GraphInSyncInit == Init => GraphInSync
<1> SUFFICES ASSUME Init PROVE GraphInSync
  OBVIOUS
<1>1. /\ current = {} /\ deployment.state = "NONE" /\ \A w \in Workers : worker[w].pc = "idle"
      /\ \A k \in Keys : edges[k] = NoFact
  BY DEF Init, Idle
<1> QED BY <1>1 DEF GraphInSync, CurrentIsDelivered, LoadedWell, AppliedWell, CleanIsInSync, EmptyAtFirst

\* What holds of the projection while nothing overlaps or stalls.
Synchrony == FactsInOrder /\ HolderIsLive /\ (NoDeadLetters => GraphInSync)

LEMMA SynchronyStep ==
    ASSUME IInv, OrderInv, Synchrony, Adversity = {}, [Next]_vars
    PROVE  Synchrony'
<1>1. FactsInOrder'
  BY FactsInOrderStep DEF OrderInv, Synchrony
<1>2. HolderIsLive'
  BY HolderIsLiveStep DEF Synchrony
<1>3. ASSUME NoDeadLetters' PROVE GraphInSync'
  <2>1. NoDeadLetters
    BY <1>3, DeadLettersStay
  <2> QED BY <1>3, <2>1, GraphInSyncStep DEF OrderInv, Synchrony, Before
<1> QED BY <1>1, <1>2, <1>3 DEF Synchrony

\* Every key that is not owed a delivery is in sync, from the first registration on and
\* whatever is published, crashes and fails meanwhile.
THEOREM SynchronyInvariance ==
    ASSUME Adversity = {}
    PROVE  Spec => []Synchrony
<1>1. Init => Synchrony
  <2>1. Init => HolderIsLive
    BY DEF Init, HolderIsLive, Busy, Idle
  <2> QED BY <2>1, FactsInOrderInit, GraphInSyncInit DEF Synchrony
<1>2. IInv /\ OrderInv /\ Synchrony /\ [Next]_vars => Synchrony'
  BY SynchronyStep
<1>3. Spec => []OrderInv
  BY OrderInvariance
<1> QED BY <1>1, <1>2, <1>3, Invariance, PTL DEF Spec

-----------------------------------------------------------------------------
(* What the API serves.                                                    *)

\* The watermark comparison of Neo4jProjectionState.current is enough: what is served is
\* current.
THEOREM ServedIsCurrent ==
    ASSUME Adversity = {}
    PROVE  Spec => [](NoDeadLetters => ServedGraphIsCurrent)
<1>1. ASSUME IInv, OrderInv, Synchrony, NoDeadLetters, Serving, NEW k \in Keys
      PROVE  InSync(k)
  <2>1. \A i \in Delivered(delivery) : i <= deployment.desired /\ i \in Nat
    BY <1>1, Numbers DEF OrderInv, QueueInOrder, DesiredIsNewest, IInv, Delivered
  <2>2. deployment.desired \in Nat /\ deployment.projected \in Nat
    BY <1>1, Numbers DEF IInv
  <2>3. \A i \in Delivered(delivery) : i <= deployment.projected
    BY <1>1, <2>1, <2>2 DEF Serving
  <2>4. ~Owed(k, {})
    BY <1>1, <2>3 DEF OrderInv, QueueInOrder, WatermarkDivides, Owed, Unprocessed
  <2> QED BY <1>1, <2>4 DEF Synchrony, GraphInSync, CleanIsInSync, Serving
<1>2. IInv /\ OrderInv /\ Synchrony => (NoDeadLetters => ServedGraphIsCurrent)
  BY <1>1 DEF ServedGraphIsCurrent
<1>3. Spec => []OrderInv
  BY OrderInvariance
<1> QED BY <1>2, <1>3, Invariance, SynchronyInvariance, PTL

\* With fewer losses than MaxAttempts, without further condition.
THEOREM ServedIsCurrentWhileLossesAreFew ==
    ASSUME Adversity = {}, MaxFailures + MaxMishaps < MaxAttempts
    PROVE  Spec => []ServedGraphIsCurrent
BY ServedIsCurrent, FewLossesAreSurvived, PTL

\* Once all is delivered the graph is the authoritative one.  (It need not be when a worker
\* outlives its lease: then a straggler's transaction may come after its successor's.)
THEOREM DrainedIsCurrent ==
    ASSUME Adversity = {}
    PROVE  Spec => []DrainedGraphIsCurrent
<1>1. ASSUME Synchrony, deployment.state = "ACTIVE", AllProcessed(delivery), NEW k \in Keys
      PROVE  InSync(k)
  <2>1. NoDeadLetters
    BY <1>1 DEF NoDeadLetters, AllProcessed, Delivered
  <2>2. ~Owed(k, {})
    BY <1>1 DEF Owed, Unprocessed, AllProcessed
  <2> QED BY <1>1, <2>1, <2>2 DEF Synchrony, GraphInSync, CleanIsInSync
<1>2. Synchrony => DrainedGraphIsCurrent
  BY <1>1 DEF DrainedGraphIsCurrent
<1> QED BY <1>2, SynchronyInvariance, PTL

-----------------------------------------------------------------------------
(* The projection implements ReplicatedGraph.                              *)

Source == [k \in Keys |-> CurrentFacts(k)]
InStep == Before /\ GraphInSync /\ NoDeadLetters

\* The keys Neo4j owes a write, by what is unprocessed.
LEMMA DirtyIsOwed ==
    /\ deployment.state # "ACTIVE" => Dirty = Keys
    /\ deployment.state = "ACTIVE" => Dirty = {KeyOf(i) : i \in Unprocessed}
BY DEF Dirty, Unprocessed

LEMMA DirtyAreKeys ==
    ASSUME Before
    PROVE  Dirty \subseteq Keys
BY WorkIsCommitted, DirtyIsOwed

LEMMA SourceType ==
    ASSUME TypeOK
    PROVE  Source \in [Keys -> SUBSET Ids]
BY DEF TypeOK, Source, CurrentFacts

\* A key that is not dirty is in sync.
LEMMA CleanKeys ==
    ASSUME InStep, NEW k \in Keys \ Dirty
    PROVE  InSync(k)
<1>1. deployment.state = "ACTIVE" /\ ~ \E i \in Unprocessed : KeyOf(i) = k
  BY DirtyIsOwed
<1> QED BY <1>1 DEF InStep, GraphInSync, CleanIsInSync, Owed

LEMMA InSyncOfSource ==
    ASSUME NEW k \in Keys
    PROVE  Replica!InSync(k) <=> InSync(k)
BY DEF Replica!InSync, InSync

LEMMA StutterOfSyncKept ==
    ASSUME InStep, SyncKept
    PROVE  Source' = Source /\ edges' = edges /\ Dirty' = Dirty
<1>1. current \subseteq committed /\ Unprocessed \subseteq committed
  BY WorkIsCommitted DEF InStep
<1>2. \A i \in committed : KeyOf(i)' = KeyOf(i)
  BY DEF SyncKept, KeyOf
<1>3. \A k \in Keys : CurrentFacts(k)' = CurrentFacts(k)
  BY <1>1, <1>2 DEF SyncKept, CurrentFacts
<1>4. Source' = Source
  BY <1>3 DEF Source
<1>5. {KeyOf(i)' : i \in Unprocessed'} = {KeyOf(i) : i \in Unprocessed}
  BY <1>1, <1>2 DEF SyncKept
<1>6. Dirty' = IF deployment'.state # "ACTIVE" THEN Keys ELSE {KeyOf(i)' : i \in Unprocessed'}
  BY DEF Dirty, Unprocessed
<1>7. Dirty' = Dirty
  BY <1>5, <1>6, DirtyIsOwed DEF SyncKept
<1> QED BY <1>4, <1>7 DEF SyncKept

\* A commit changes facts and dirties their keys.
LEMMA CommitIsChange ==
    ASSUME InStep, InStep', NEW s \in Sources, CommitPublish(s)
    PROVE  Replica!Change
<1>1. /\ \A i \in Ids : KeyOf(i)' = KeyOf(i)
      /\ Unprocessed \subseteq Unprocessed'
      /\ deployment.state = "ACTIVE" => txn[s].rows \subseteq Unprocessed'
      /\ deployment'.state = deployment.state /\ edges' = edges
      /\ \A k \in Keys : CurrentFacts(k)' = CurrentFacts(k) \/ \E i \in txn[s].rows : KeyOf(i) = k
  BY CommitOwes DEF InStep
<1>2. Unprocessed \subseteq Ids /\ Unprocessed' \subseteq Ids
  BY DEF Unprocessed, Delivered
<1>3. /\ deployment.state # "ACTIVE" => Dirty' = Keys /\ Dirty = Keys
      /\ deployment.state = "ACTIVE" => /\ Dirty = {KeyOf(i) : i \in Unprocessed}
                                        /\ Dirty' = {KeyOf(i) : i \in Unprocessed'}
  <2>1. Dirty' = IF deployment'.state # "ACTIVE" THEN Keys ELSE {KeyOf(i)' : i \in Unprocessed'}
    BY DEF Dirty, Unprocessed
  <2>2. {KeyOf(i)' : i \in Unprocessed'} = {KeyOf(i) : i \in Unprocessed'}
    BY <1>1, <1>2
  <2> QED BY <1>1, <2>1, <2>2, DirtyIsOwed
<1>4. Dirty \subseteq Dirty'
  BY <1>1, <1>3
<1>5. Dirty' \subseteq Keys
  <2>1. \A i \in Allocated' : KeyOf(i)' \in Keys
    BY DEF InStep, Before, FactsInOrder, RowsWellFormed
  <2>2. Unprocessed' \subseteq Allocated'
    BY DEF Unprocessed, InStep, Before, PublishInOrder, DeliveredIsCommitted, RowsAreNew
  <2> QED BY <1>1, <1>2, <1>3, <2>1, <2>2
<1>6. \A k \in Keys : CurrentFacts(k)' # CurrentFacts(k) => k \in Dirty'
  BY <1>1, <1>3
<1>7. Source' \in [Keys -> SUBSET Ids] /\ \A k \in Keys : Source'[k] # Source[k] => k \in Dirty'
  <2>1. TypeOK'
    BY DEF InStep, Before, IInv
  <2>2. Source' = [k \in Keys |-> CurrentFacts(k)'] /\ \A k \in Keys : CurrentFacts(k)' \in SUBSET Ids
    BY <2>1 DEF Source, CurrentFacts, TypeOK
  <2> QED BY <1>6, <2>2 DEF Source
<1> QED BY <1>1, <1>4, <1>5, <1>7 DEF Replica!Change, Source

\* What leaves the facts and the graph alone may clean keys, since what is clean after it is
\* in sync after it.
LEMMA CleaningStep ==
    ASSUME InStep, InStep', UNCHANGED <<outbox, current, edges>>, Dirty' \subseteq Dirty
    PROVE  Replica!Clean
<1>1. \A k : CurrentFacts(k)' = CurrentFacts(k) /\ InSync(k)' = InSync(k)
  BY DEF CurrentFacts, InSync, KeyOf
<1>2. Source' = Source
  BY <1>1 DEF Source
<1>3. Dirty \subseteq Keys
  BY DirtyAreKeys DEF InStep
<1>4. ASSUME NEW k \in Keys, k \notin Dirty' PROVE InSync(k)
  <2>1. deployment'.state = "ACTIVE" /\ ~Owed(k, {})'
    BY <1>4 DEF Dirty, Owed, Unprocessed
  <2>2. InSync(k)'
    BY <2>1 DEF InStep, GraphInSync, CleanIsInSync
  <2> QED BY <1>1, <2>2
<1>5. \A k \in Dirty \ Dirty' : Replica!InSync(k)
  BY <1>3, <1>4, InSyncOfSource
<1> QED BY <1>2, <1>5 DEF Replica!Clean, Source

LEMMA RegisterIsClean ==
    ASSUME InStep, InStep', Register
    PROVE  Replica!Clean
<1>1. UNCHANGED <<outbox, current, edges>> /\ deployment.state # "ACTIVE"
  BY DEF Register, store, graph
<1>2. Dirty = Keys
  BY <1>1, DirtyIsOwed
<1>3. Dirty' \subseteq Keys
  <2>1. \A i \in Allocated' : KeyOf(i)' \in Keys
    BY DEF InStep, Before, FactsInOrder, RowsWellFormed
  <2>2. Unprocessed' \subseteq Allocated'
    BY DEF Unprocessed, InStep, Before, PublishInOrder, DeliveredIsCommitted, RowsAreNew
  <2> QED BY <2>1, <2>2 DEF Dirty, Unprocessed
<1> QED BY <1>1, <1>2, <1>3, CleaningStep

LEMMA MarkProcessedIsClean ==
    ASSUME InStep, InStep', NEW w \in Workers, MarkProcessed(w)
    PROVE  Replica!Clean
<1>1. UNCHANGED <<outbox, current, edges>> /\ Unprocessed' \subseteq Unprocessed
  BY MarkProcessedKeepsSync DEF InStep, MarkProcessed, store, graph
<1>2. deployment'.state = deployment.state /\ worker[w].pc = "applied"
  BY MarkProcessedEffect DEF InStep, Before, IInv, Completes, MarkProcessed
<1>3. deployment.state = "ACTIVE"
  BY <1>2, WorkIsCommitted DEF InStep, Busy
<1>4. Dirty' = {KeyOf(i) : i \in Unprocessed'}
  BY <1>1, <1>2, <1>3 DEF Dirty, Unprocessed, KeyOf
<1> QED BY <1>1, <1>3, <1>4, DirtyIsOwed, CleaningStep

\* A Neo4j transaction writes keys that are owed a delivery: those of its batch.
LEMMA ApplyIsWrite ==
    ASSUME InStep, NEW w \in Workers, Apply(w)
    PROVE  Replica!Write
<1>1. /\ worker[w].pc = "loaded" /\ UNCHANGED <<outbox, current, delivery, deployment>>
      /\ edges' \in [Keys -> Ids \cup {NoFact}]
      /\ \A k \in Keys : edges'[k] # edges[k] => \E i \in worker[w].batch : KeyOf(i) = k
  BY ApplyEffect DEF InStep
<1>2. worker[w].batch \subseteq Unprocessed /\ deployment.state = "ACTIVE"
  BY <1>1, WorkIsCommitted DEF InStep, Busy
<1>3. Source' = Source /\ Dirty' = Dirty
  BY <1>1 DEF Source, CurrentFacts, Dirty, KeyOf
<1>4. \A k \in Keys : edges'[k] # edges[k] => k \in Dirty
  BY <1>1, <1>2, DirtyIsOwed
<1> QED BY <1>1, <1>3, <1>4 DEF Replica!Write, Source

LEMMA StepRefines ==
    ASSUME InStep, InStep', [Next]_vars
    PROVE  [Replica!Next]_(Replica!rvars)
<1>1. CASE SyncKept
  BY <1>1, StutterOfSyncKept DEF Replica!rvars, Source
<1>2. ASSUME NEW s \in Sources, CommitPublish(s) PROVE Replica!Next
  BY <1>2, CommitIsChange DEF Replica!Next
<1>3. CASE Register
  BY <1>3, RegisterIsClean DEF Replica!Next
<1>4. ASSUME NEW w \in Workers, Load(w) PROVE UNCHANGED Replica!rvars
  BY <1>4 DEF Load, store, control, graph, Replica!rvars, CurrentFacts, Dirty, KeyOf
<1>5. ASSUME NEW w \in Workers, Apply(w) PROVE Replica!Next
  BY <1>5, ApplyIsWrite DEF Replica!Next
<1>6. ASSUME NEW w \in Workers, MarkProcessed(w) PROVE Replica!Next
  BY <1>6, MarkProcessedIsClean DEF Replica!Next
<1>7. NoDeadLetters' /\ Before
  BY DEF InStep
<1> QED BY <1>1, <1>2, <1>3, <1>4, <1>5, <1>6, <1>7, WhatTouchesSync

\* The projection is a replica that lags only on keys it knows to be dirty, for as long as
\* nothing has been dead-lettered.
THEOREM Refinement ==
    ASSUME Adversity = {}
    PROVE  Spec /\ []NoDeadLetters => Refines
<1>1. Init => Replica!Init
  <2> SUFFICES ASSUME Init PROVE Replica!Init
    OBVIOUS
  <2>1. /\ \A k \in Keys : CurrentFacts(k) = {}
        /\ Dirty = Keys /\ edges = [k \in Keys |-> NoFact]
    BY DEF Init, CurrentFacts, Dirty
  <2> QED BY <2>1 DEF Replica!Init
<1>2. IInv /\ OrderInv /\ Synchrony /\ NoDeadLetters => InStep
  BY DEF InStep, Before, OrderInv, Synchrony
<1>3. InStep /\ InStep' /\ [Next]_vars => [Replica!Next]_(Replica!rvars)
  BY StepRefines
<1>4. Spec => []IInv /\ []OrderInv /\ []Synchrony
  <2>1. Spec => []OrderInv
    BY OrderInvariance
  <2> QED BY <2>1, Invariance, SynchronyInvariance, PTL
<1> QED BY <1>1, <1>2, <1>3, <1>4, PTL DEF Spec, Refines, Replica!Spec

\* With fewer losses than MaxAttempts, without further condition.
THEOREM RefinementWhileLossesAreFew ==
    ASSUME Adversity = {}, MaxFailures + MaxMishaps < MaxAttempts
    PROVE  Spec => Refines
BY Refinement, FewLossesAreSurvived, PTL
=============================================================================
