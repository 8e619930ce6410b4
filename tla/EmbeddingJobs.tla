---------------------------- MODULE EmbeddingJobs ----------------------------
(***************************************************************************)
(* The embedding queue for one entity in one embedding space: triggers on  *)
(* the entity and on its facts enqueue jobs, a worker claims them under a  *)
(* lease, renders the entity's document and stores its vector              *)
(* (embedding_worker.py, the triggers of schema.sql).                      *)
(*                                                                         *)
(* The document is made of the entity's own text, which may return to what *)
(* it was, of its facts, and of its neighbours' names; it is named by the  *)
(* number of changes made to any of them.  A fact's token has the fact's   *)
(* id and whether it is closed, and facts are inserted and closed once, so *)
(* that no token is met twice.  The tenant's policy and service stay on,   *)
(* and the space is SHADOW or ACTIVE.  Which job is claimed first is left  *)
(* open.                                                                   *)
(***************************************************************************)
EXTENDS Integers, FiniteSets, FiniteSetsExt

CONSTANTS
    Embedders,            \* worker processes
    MaxEmbeddingAttempts, \* embedding_job.max_attempts
    Texts,                \* what the entity's own columns may say
    MaxDocumentChanges,   \* bound: changes of its document
    MaxEmbeddingJobs,     \* bound: rows of embedding_job
    MaxEmbeddingMishaps   \* bound: crashes and leases outlived by their holder

Documents == 0 .. MaxDocumentChanges
EmbeddingRows == 1 .. MaxEmbeddingJobs
NoDocument == 0
NoText == "no text"
FactToken == "fact"
NoEmbedding == 0
ASSUME EmbeddingAssumption ==
    /\ MaxEmbeddingAttempts \in Nat \ {0} /\ MaxDocumentChanges \in Nat
    /\ MaxEmbeddingJobs \in Nat /\ MaxEmbeddingMishaps \in Nat
    /\ NoText \notin Texts /\ FactToken \notin Texts

VARIABLES
    text,       \* what the entity's columns say
    changes,    \* history: the changes of its document, and so the document as it is now
    vector,     \* the document whose vector is the row of entity_embedding
    embedding,  \* embedding_job, by id: input_hash, the document when it was enqueued, and whether
                \* lease_expires_at is still to come
    embedder,   \* each worker process
    embeddingMishaps

embeddingVars == <<text, changes, vector, embedding, embedder, embeddingMishaps>>

InFlight == {"PENDING", "RUNNING", "RETRY_WAIT"}
EmbeddingEnded == {"SUCCEEDED", "DEAD_LETTER"}
NoJob == [status |-> "NONE", hash |-> NoText, since |-> NoDocument, attempt |-> 0, leased |-> FALSE]
FreeJobs == {i \in EmbeddingRows : embedding[i].status = "NONE"}

\* A new row, for the document there will be
WithJob(hash) ==
    [embedding EXCEPT ![Min(FreeJobs)] =
        [NoJob EXCEPT !.status = "PENDING", !.hash = hash, !.since = changes']]

\* idx_embedding_job_inflight: an ended job is no conflict.
Conflicts(hash) ==
    \E i \in EmbeddingRows : embedding[i].status \in InFlight /\ embedding[i].hash = hash
RoomFor(hash) == Conflicts(hash) \/ FreeJobs # {}

\* INSERT ... ON CONFLICT DO NOTHING
Enqueued(hash) == IF Conflicts(hash) THEN embedding ELSE WithJob(hash)

DocumentChanges == changes < MaxDocumentChanges /\ changes' = changes + 1

\* The entity is inserted or updated, with stackgraph_enqueue_entity_embedding
ChangeEntity(t) ==
    /\ t # text /\ RoomFor(t)
    /\ DocumentChanges
    /\ text' = t
    /\ embedding' = Enqueued(t)
    /\ UNCHANGED <<vector, embedder, embeddingMishaps>>

\* A fact of the entity is inserted or closed, with stackgraph_enqueue_fact_embedding
ChangeFact ==
    /\ text # NoText /\ FreeJobs # {}
    /\ DocumentChanges
    /\ embedding' = WithJob(FactToken)
    /\ UNCHANGED <<text, vector, embedder, embeddingMishaps>>

\* The document has the neighbours' names; the trigger on a neighbour enqueues a job for that
\* neighbour only.
RenameNeighbour ==
    /\ text # NoText
    /\ DocumentChanges
    /\ UNCHANGED <<text, vector, embedding, embedder, embeddingMishaps>>

\* ensure_space, request_embedding_backfill, and an update that leaves the columns as they were
BackfillEntity ==
    /\ text # NoText /\ RoomFor(text)
    /\ UNCHANGED changes
    /\ embedding' = Enqueued(text)
    /\ UNCHANGED <<text, vector, embedder, embeddingMishaps>>

AtRest == [pc |-> "resting", job |-> NoEmbedding, attempt |-> 0, read |-> NoDocument]
Works(w, pc) == embedder[w].pc = pc
Leave(w) == embedder' = [embedder EXCEPT ![w] = AtRest]

LeaseExpired(i) == embedding[i].status = "RUNNING" /\ ~embedding[i].leased

\* Fault: a recovered job is always tried again.
AlwaysRetried(i) == "RETRY_WAIT"
Recovered(i) == IF embedding[i].attempt >= MaxEmbeddingAttempts THEN "DEAD_LETTER" ELSE "RETRY_WAIT"

\* _recover_expired
RecoverExpired(w) ==
    /\ Works(w, "resting")
    /\ \E i \in EmbeddingRows : LeaseExpired(i)
    /\ embedding' = [i \in EmbeddingRows |->
           IF LeaseExpired(i) THEN [embedding[i] EXCEPT !.status = Recovered(i)] ELSE embedding[i]]
    /\ UNCHANGED <<text, changes, vector, embedder, embeddingMishaps>>

Embeddable(i) == embedding[i].status \in {"PENDING", "RETRY_WAIT"}

\* _claim
ClaimEmbedding(w, i) ==
    /\ Works(w, "resting")
    /\ Embeddable(i)
    /\ embedding' = [embedding EXCEPT ![i].status = "RUNNING", ![i].leased = TRUE,
                                      ![i].attempt = @ + 1]
    /\ embedder' = [embedder EXCEPT ![w] =
           [AtRest EXCEPT !.pc = "claimed", !.job = i, !.attempt = embedding[i].attempt + 1]]
    /\ UNCHANGED <<text, changes, vector, embeddingMishaps>>

\* Fault: the document as it was when the job was enqueued.
EnqueuedDocument(w) == embedding[embedder[w].job].since
RenderedDocument(w) == changes

\* _document, outside any transaction
ReadDocument(w) ==
    /\ Works(w, "claimed")
    /\ embedder' = [embedder EXCEPT ![w].pc = "rendered", ![w].read = RenderedDocument(w)]
    /\ UNCHANGED <<text, changes, vector, embedding, embeddingMishaps>>

\* _succeed: the job is updated by id, whoever has its lease by now.
StoreVector(w) ==
    /\ Works(w, "rendered")
    /\ vector' = embedder[w].read
    /\ embedding' = [embedding EXCEPT ![embedder[w].job].status = "SUCCEEDED",
                                      ![embedder[w].job].leased = FALSE]
    /\ Leave(w)
    /\ UNCHANGED <<text, changes, embeddingMishaps>>

\* _fail: by id as well, with the attempt of the claim
FailEmbedding(w, retryable) ==
    /\ ~Works(w, "resting")
    /\ embedding' = [embedding EXCEPT
           ![embedder[w].job].status = IF ~retryable \/ embedder[w].attempt >= MaxEmbeddingAttempts
                                       THEN "DEAD_LETTER" ELSE "RETRY_WAIT",
           ![embedder[w].job].leased = FALSE]
    /\ Leave(w)
    /\ UNCHANGED <<text, changes, vector, embeddingMishaps>>

EmbeddingMishap ==
    embeddingMishaps < MaxEmbeddingMishaps /\ embeddingMishaps' = embeddingMishaps + 1

EmbedderCrash(w) ==
    /\ ~Works(w, "resting")
    /\ EmbeddingMishap
    /\ Leave(w)
    /\ UNCHANGED <<text, changes, vector, embedding>>

\* lease_seconds pass; nothing renews the lease.
EmbeddingLeaseExpires(i) ==
    /\ embedding[i].leased
    /\ IF \E w \in Embedders : embedder[w].job = i
       THEN EmbeddingMishap ELSE UNCHANGED embeddingMishaps
    /\ embedding' = [embedding EXCEPT ![i].leased = FALSE]
    /\ UNCHANGED <<text, changes, vector, embedder>>

\* The entity does not exist yet.
EmbeddingInit ==
    /\ text = NoText /\ changes = NoDocument /\ vector = NoDocument
    /\ embedding = [i \in EmbeddingRows |-> NoJob]
    /\ embedder = [w \in Embedders |-> AtRest]
    /\ embeddingMishaps = 0

EmbeddingWork(w) == RecoverExpired(w) \/ ReadDocument(w) \/ StoreVector(w)

EmbeddingNext ==
    \/ \E t \in Texts : ChangeEntity(t)
    \/ ChangeFact \/ RenameNeighbour \/ BackfillEntity
    \/ \E w \in Embedders : \/ EmbeddingWork(w) \/ EmbedderCrash(w)
                            \/ \E i \in EmbeddingRows : ClaimEmbedding(w, i)
                            \/ \E retryable \in BOOLEAN : FailEmbedding(w, retryable)
    \/ \E i \in EmbeddingRows : EmbeddingLeaseExpires(i)

EmbeddingSpec == EmbeddingInit /\ [][EmbeddingNext]_embeddingVars

\* The worker polls and goes on, a provider that is called answers, and the clock runs.
EmbeddingFairness ==
    /\ \A w \in Embedders : WF_embeddingVars(EmbeddingWork(w))
    /\ \A i \in EmbeddingRows : WF_embeddingVars(EmbeddingLeaseExpires(i))
    /\ WF_embeddingVars(\E w \in Embedders, i \in EmbeddingRows : ClaimEmbedding(w, i))
-----------------------------------------------------------------------------
(* Properties.                                                             *)

\* The columns stay within their types.
EmbeddingTypeOK ==
    /\ text \in Texts \cup {NoText} /\ changes \in Documents /\ vector \in Documents
    /\ embedding \in [EmbeddingRows -> [status : {"NONE"} \cup InFlight \cup EmbeddingEnded,
                                        hash : Texts \cup {NoText, FactToken}, since : Documents,
                                        attempt : 0 .. MaxEmbeddingAttempts, leased : BOOLEAN]]
    /\ embedder \in [Embedders -> [pc : {"resting", "claimed", "rendered"},
                                   job : EmbeddingRows \cup {NoEmbedding},
                                   attempt : 0 .. MaxEmbeddingAttempts, read : Documents]]
    /\ embeddingMishaps \in 0 .. MaxEmbeddingMishaps

\* A job that succeeded leaves the vector of the document it was enqueued for, or of a later
\* one, for good: jobs of earlier changes that are retried, recovered or answered after it do
\* not bring an older document back.
SucceededJobsAreStored ==
    \A i \in EmbeddingRows : embedding[i].status = "SUCCEEDED" => embedding[i].since <= vector

\* Every job ends: it is stored or dead-lettered, through failures, crashes and lost leases.
EveryEmbeddingEnds ==
    \A i \in EmbeddingRows :
        embedding[i].status \in InFlight ~> embedding[i].status \in EmbeddingEnded
=============================================================================
