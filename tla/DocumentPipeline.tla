--------------------------- MODULE DocumentPipeline ---------------------------
(***************************************************************************)
(* The path of a document through the system, for one tenant:              *)
(*                                                                         *)
(*   - the upload request (documents/router.py, upload_document), which    *)
(*     stores the file, enqueues the background job and only then, when    *)
(*     the middleware closes the request's transaction, commits the row;   *)
(*   - the job itself (jobs/tasks.py, process_document) with its separate  *)
(*     transactions, run by ARQ workers that may be killed and restarted;  *)
(*   - incremental re-indexing against the previous version of the file    *)
(*     (processing/incremental.py);                                        *)
(*   - DELETE requests (delete_document) and the nightly cleanup           *)
(*     (cleanup_failed_documents), which remove objects, rows and chunks.  *)
(*                                                                         *)
(* A member of Docs is one upload request and the document it creates.     *)
(* Admission (validation, deduplication, quotas) precedes InsertRow.       *)
(* Chunks are identified by their content hash; repeated chunks of one     *)
(* document are not told apart, as compute_diff does not tell them apart.  *)
(***************************************************************************)
EXTENDS Naturals, FiniteSets

CONSTANTS
  Docs,        \* upload requests, and the documents they create
  Chunks,      \* chunk contents, by their sha256
  Filenames,
  Content,     \* Content[d]: the chunks the parser, chunker and validator yield
  File,        \* File[d]: the filename d is uploaded under
  NoDoc,       \* "no previous version"
  Deletable,   \* the documents the tenant may ask to delete
  MaxTries,    \* deliveries of a job before ARQ gives it up
  MaxJobs,     \* WorkerSettings.max_jobs
  Faults       \* the kinds of fault that may occur

FaultKinds ==
  { "request",   \* a request's dependency raises, or the API process dies
    "queue",     \* enqueue_job raises
    "storage",   \* removing an object raises
    "worker",    \* a step of the job raises
    "database",  \* the transaction that marks a document failed raises
    "timeout",   \* a run exceeds job_timeout and is cancelled
    "crash",     \* a worker dies or is restarted in the middle of a run
    "loss" }     \* Redis drops a queued job (allkeys-lru, or its key expired)

ASSUME ConstantsAssumption ==
  /\ NoDoc \notin Docs
  /\ Content \in [Docs -> (SUBSET Chunks) \ {{}}]
  /\ File \in [Docs -> Filenames]
  /\ Deletable \subseteq Docs
  /\ MaxTries \in Nat \ {0}
  /\ MaxJobs \in Nat \ {0}
  /\ Faults \subseteq FaultKinds

VARIABLES
  upload,       \* progress of the upload request of d
  status,       \* committed documents.status of d, "absent" without a row
  object,       \* whether the file of d is in object storage
  chunks,       \* committed chunk rows whose document_id is d
  processedAt,  \* documents.processed_at
  clock,        \* the time of the latest completion
  job,          \* the ARQ job of d
  tries,        \* deliveries of that job so far
  pc,           \* where the current run of the job stands
  prev,         \* prev_doc_id of the current run
  toAdd,        \* diff["to_add"]
  toDelete,     \* diff["to_delete"]
  removal,      \* progress of a DELETE request for d
  old,          \* whether created_at is before the cleanup's cutoff
  sweepTodo,    \* the cleanup's failed_docs still to be visited
  sweepDone     \* those whose row the cleanup's transaction will delete

uploadVars == <<upload>>
rowVars    == <<status, processedAt, clock>>
jobVars    == <<job, tries>>
runVars    == <<pc, prev, toAdd, toDelete>>
sweepVars  == <<sweepTodo, sweepDone>>
vars == <<upload, rowVars, object, chunks, jobVars, runVars, removal, old, sweepVars>>

UploadStates == {"idle", "flushed", "stored", "enqueued", "refused",
                 "accepted", "rejected", "aborted"}
Statuses     == {"pending", "processing", "completed", "failed"}
JobStates    == {"none", "queued", "running", "done"}
RunStates    == {"off", "marked", "loaded", "chunked", "selected", "diffed",
                 "stored", "raised", "reported"}
RemovalStates == {"idle", "found", "wiped"}

\* Where a run of the job can raise into its except handler: the whole try block.
InTry == {"marked", "loaded", "chunked", "selected", "diffed", "stored"}

TypeOK ==
  /\ upload \in [Docs -> UploadStates]
  /\ status \in [Docs -> Statuses \cup {"absent"}]
  /\ object \in [Docs -> BOOLEAN]
  /\ chunks \in [Docs -> SUBSET Chunks]
  /\ processedAt \in [Docs -> Nat]
  /\ clock \in Nat
  /\ job \in [Docs -> JobStates]
  /\ tries \in [Docs -> 0 .. MaxTries]
  /\ pc \in [Docs -> RunStates]
  /\ prev \in [Docs -> Docs \cup {NoDoc}]
  /\ toAdd \in [Docs -> SUBSET Chunks]
  /\ toDelete \in [Docs -> SUBSET Chunks]
  /\ removal \in [Docs -> RemovalStates]
  /\ old \in [Docs -> BOOLEAN]
  /\ sweepTodo \subseteq Docs
  /\ sweepDone \subseteq Docs

Init ==
  /\ upload = [d \in Docs |-> "idle"]
  /\ status = [d \in Docs |-> "absent"]
  /\ object = [d \in Docs |-> FALSE]
  /\ chunks = [d \in Docs |-> {}]
  /\ processedAt = [d \in Docs |-> 0]
  /\ clock = 0
  /\ job = [d \in Docs |-> "none"]
  /\ tries = [d \in Docs |-> 0]
  /\ pc = [d \in Docs |-> "off"]
  /\ prev = [d \in Docs |-> NoDoc]
  /\ toAdd = [d \in Docs |-> {}]
  /\ toDelete = [d \in Docs |-> {}]
  /\ removal = [d \in Docs |-> "idle"]
  /\ old = [d \in Docs |-> FALSE]
  /\ sweepTodo = {}
  /\ sweepDone = {}

-----------------------------------------------------------------------------
(***************************************************************************)
(* The upload request.  Its row exists only inside the request's           *)
(* transaction until CommitUpload; an HTTPException still commits it,      *)
(* because the exception is answered below the middleware that owns the    *)
(* transaction, and any other exception rolls it back.                     *)
(***************************************************************************)

UploadStep(d, from, to) ==
  /\ upload[d] = from
  /\ upload' = [upload EXCEPT ![d] = to]

\* The row is added and flushed, to obtain its id.
InsertRow(d) ==
  /\ UploadStep(d, "idle", "flushed")
  /\ UNCHANGED <<rowVars, object, chunks, jobVars, runVars, removal, old, sweepVars>>

\* storage.upload
PutObject(d) ==
  /\ UploadStep(d, "flushed", "stored")
  /\ object' = [object EXCEPT ![d] = TRUE]
  /\ UNCHANGED <<rowVars, chunks, jobVars, runVars, removal, old, sweepVars>>

\* pool.enqueue_job
EnqueueJob(d) ==
  /\ UploadStep(d, "stored", "enqueued")
  /\ job' = [job EXCEPT ![d] = "queued"]
  /\ UNCHANGED <<rowVars, object, chunks, tries, runVars, removal, old, sweepVars>>

\* enqueue_job raises: the request is answered 503, and its row stays.
EnqueueFails(d) ==
  /\ "queue" \in Faults
  /\ UploadStep(d, "stored", "refused")
  /\ UNCHANGED <<rowVars, object, chunks, jobVars, runVars, removal, old, sweepVars>>

\* The middleware's session.begin() commits.
CommitUpload(d) ==
  /\ \/ UploadStep(d, "enqueued", "accepted")
     \/ UploadStep(d, "refused", "rejected")
  /\ status' = [status EXCEPT ![d] = "pending"]
  /\ UNCHANGED <<processedAt, clock, object, chunks, jobVars, runVars, removal, old,
                 sweepVars>>

\* storage.upload, the quota or audit statements, invalidate_tenant or the commit
\* raise, or the API process dies: nothing of the row remains.  The object and the
\* job, if the request got that far, do.
AbortUpload(d) ==
  /\ "request" \in Faults
  /\ upload[d] \in {"flushed", "stored", "enqueued", "refused"}
  /\ upload' = [upload EXCEPT ![d] = "aborted"]
  /\ UNCHANGED <<rowVars, object, chunks, jobVars, runVars, removal, old, sweepVars>>

-----------------------------------------------------------------------------
(***************************************************************************)
(* The background job.                                                     *)
(***************************************************************************)

Running == {d \in Docs : job[d] = "running"}

\* A mutant of UpdateStatus: an upsert instead of an UPDATE.
UpsertStatus(d, s) == [status EXCEPT ![d] = s]

\* UPDATE documents SET status = s WHERE id = d: touches no row when there is none.
UpdateStatus(d, s) == [status EXCEPT ![d] = IF @ = "absent" THEN @ ELSE s]

\* The run of d is over and its locals are gone.
LeaveRun(d) ==
  /\ pc' = [pc EXCEPT ![d] = "off"]
  /\ prev' = [prev EXCEPT ![d] = NoDoc]
  /\ toAdd' = [toAdd EXCEPT ![d] = {}]
  /\ toDelete' = [toDelete EXCEPT ![d] = {}]

\* A mutant of EndJob: the slot of the worker is not given back.
EndJobKeepsSlot(d) ==
  /\ LeaveRun(d)
  /\ UNCHANGED jobVars

\* ARQ removes the job, whatever its result.
EndJob(d) ==
  /\ job' = [job EXCEPT ![d] = "done"]
  /\ LeaveRun(d)
  /\ UNCHANGED tries

RunStep(d, from, to) ==
  /\ pc[d] = from
  /\ pc' = [pc EXCEPT ![d] = to]

\* A worker with a free slot takes the job, and the job's first transaction marks
\* the document, if its row is visible yet.
StartJob(d) ==
  /\ job[d] = "queued"
  /\ tries[d] < MaxTries
  /\ Cardinality(Running) < MaxJobs
  /\ job' = [job EXCEPT ![d] = "running"]
  /\ tries' = [tries EXCEPT ![d] = @ + 1]
  /\ pc' = [pc EXCEPT ![d] = "marked"]
  /\ status' = UpdateStatus(d, "processing")
  /\ UNCHANGED <<upload, processedAt, clock, object, chunks, prev, toAdd, toDelete,
                 removal, old, sweepVars>>

\* ARQ refuses a delivery beyond max_tries without calling the function.
GiveUpJob(d) ==
  /\ job[d] = "queued"
  /\ tries[d] = MaxTries
  /\ EndJob(d)
  /\ UNCHANGED <<upload, rowVars, object, chunks, removal, old, sweepVars>>

\* The second transaction reads the row; without one the job returns at once.
LoadDocument(d) ==
  /\ \/ status[d] # "absent" /\ RunStep(d, "marked", "loaded")
     \/ status[d] = "absent" /\ RunStep(d, "marked", "reported")
  /\ UNCHANGED <<upload, rowVars, object, chunks, jobVars, prev, toAdd, toDelete,
                 removal, old, sweepVars>>

\* Download, parse, chunk and filter: no shared state but the object.
FetchAndChunk(d) ==
  /\ \/ object[d] /\ RunStep(d, "loaded", "chunked")
     \/ ~object[d] /\ RunStep(d, "loaded", "raised")
  /\ UNCHANGED <<upload, rowVars, object, chunks, jobVars, prev, toAdd, toDelete,
                 removal, old, sweepVars>>

\* A mutant of PreviousVersions: the filter on the filename is missing.
PreviousVersionsAnyFile(d) ==
  {e \in Docs \ {d} : status[e] = "completed"}

\* The completed documents of the same tenant and filename, other than d.
PreviousVersions(d) ==
  {e \in Docs \ {d} : status[e] = "completed" /\ File[e] = File[d]}

\* ORDER BY processed_at DESC LIMIT 1
IsLatest(p, S) ==
  p \in S /\ \A e \in S : processedAt[e] <= processedAt[p]

\* The third transaction looks for the previous version.  Without one every chunk is
\* to be added and there is no diff to compute.
SelectPrevious(d) ==
  /\ \/ /\ PreviousVersions(d) = {}
        /\ RunStep(d, "chunked", "diffed")
        /\ toAdd' = [toAdd EXCEPT ![d] = Content[d]]
        /\ UNCHANGED prev
     \/ /\ RunStep(d, "chunked", "selected")
        /\ \E p \in PreviousVersions(d) :
             IsLatest(p, PreviousVersions(d)) /\ prev' = [prev EXCEPT ![d] = p]
        /\ UNCHANGED toAdd
  /\ UNCHANGED <<upload, rowVars, object, chunks, jobVars, toDelete, removal, old,
                 sweepVars>>

\* A mutant of StaleChunks: the difference is taken the wrong way round.
StaleChunksSwapped(d, existing) == Content[d] \ existing

\* The stored chunks that the new version no longer has.
StaleChunks(d, existing) == existing \ Content[d]

\* The fourth transaction compares with the rows of the previous version.
ComputeDiff(d) ==
  LET existing == chunks[prev[d]] IN
  /\ RunStep(d, "selected", "diffed")
  /\ toAdd' = [toAdd EXCEPT ![d] = Content[d] \ existing]
  /\ toDelete' = [toDelete EXCEPT ![d] = StaleChunks(d, existing)]
  /\ UNCHANGED <<upload, rowVars, object, chunks, jobVars, prev, removal, old, sweepVars>>

\* A mutant of StoreAllowed: an error of the deletion is passed over.
StoreAllowedUndeleted(d) ==
  /\ toAdd[d] # {} => status[d] # "absent"
  /\ toAdd[d] \cap chunks[d] = {}

\* What the fifth transaction must meet: it has nothing to delete, for text() does not bind
\* the ids in front of "::uuid[]" and delete_chunks raises; and the new chunks satisfy the
\* foreign key on the document and are one row per (document_id, chunk_index).
StoreAllowed(d) ==
  /\ toDelete[d] = {}
  /\ toAdd[d] # {} => status[d] # "absent"
  /\ toAdd[d] \cap chunks[d] = {}

\* With the embeddings at hand, the fifth transaction inserts the new chunks and completes
\* the document.
StoreChunks(d) ==
  /\ RunStep(d, "diffed", "stored")
  /\ StoreAllowed(d)
  /\ chunks' = [chunks EXCEPT ![d] = @ \cup toAdd[d]]
  /\ status' = UpdateStatus(d, "completed")
  /\ clock' = clock + 1
  /\ processedAt' = [processedAt EXCEPT ![d] = IF status[d] = "absent" THEN @ ELSE clock']
  /\ UNCHANGED <<upload, object, jobVars, prev, toAdd, toDelete, removal, old, sweepVars>>

\* The deletion raises, or the insertion violates a constraint.
StoreRejected(d) ==
  /\ ~StoreAllowed(d)
  /\ RunStep(d, "diffed", "raised")
  /\ UNCHANGED <<upload, rowVars, object, chunks, jobVars, prev, toAdd, toDelete,
                 removal, old, sweepVars>>

\* The remaining webhook and, after a success, the cache invalidation; then the job
\* returns and ARQ records its result.
FinishJob(d) ==
  /\ pc[d] \in {"stored", "reported"}
  /\ EndJob(d)
  /\ UNCHANGED <<upload, rowVars, object, chunks, removal, old, sweepVars>>

\* A mutant of RaiseInJob: the chunks written before the error are not rolled back.
RaiseInJobKeepsChunks(d) ==
  /\ "worker" \in Faults
  /\ pc[d] \in InTry
  /\ pc' = [pc EXCEPT ![d] = "raised"]
  /\ \E written \in SUBSET toAdd[d] :
       chunks' = [chunks EXCEPT ![d] = @ \cup written]
  /\ UNCHANGED <<upload, rowVars, object, jobVars, prev, toAdd, toDelete, removal, old,
                 sweepVars>>

\* Anything inside the try block raises: the database, MinIO, the parser, an empty
\* document, the chunker, the embeddings service after its retries, and also the cache
\* invalidation that follows the completion.
RaiseInJob(d) ==
  /\ "worker" \in Faults
  /\ pc[d] \in InTry
  /\ pc' = [pc EXCEPT ![d] = "raised"]
  /\ UNCHANGED <<upload, rowVars, object, chunks, jobVars, prev, toAdd, toDelete,
                 removal, old, sweepVars>>

\* A mutant of MarkFailed: the chunks of the failed document are removed as well.
MarkFailedClears(d) ==
  /\ RunStep(d, "raised", "reported")
  /\ status' = UpdateStatus(d, "failed")
  /\ chunks' = [chunks EXCEPT ![d] = {}]
  /\ UNCHANGED <<upload, processedAt, clock, object, jobVars, prev, toAdd, toDelete, removal,
                 old, sweepVars>>

\* The except handler marks the document failed; an error of that is only logged.
MarkFailed(d) ==
  /\ RunStep(d, "raised", "reported")
  /\ \/ status' = UpdateStatus(d, "failed")
     \/ "database" \in Faults /\ UNCHANGED status
  /\ UNCHANGED <<upload, processedAt, clock, object, chunks, jobVars, prev, toAdd, toDelete,
                 removal, old, sweepVars>>

\* job_timeout cancels the run.  CancelledError is no Exception, so no handler marks
\* the document, and ARQ counts the job as finished.
TimeoutJob(d) ==
  /\ "timeout" \in Faults
  /\ job[d] = "running"
  /\ EndJob(d)
  /\ UNCHANGED <<upload, rowVars, object, chunks, removal, old, sweepVars>>

\* A mutant of CrashWorker: the redelivered job starts counting its tries anew.
CrashWorkerForgetsTries(d) ==
  /\ "crash" \in Faults
  /\ job[d] = "running"
  /\ job' = [job EXCEPT ![d] = "queued"]
  /\ tries' = [tries EXCEPT ![d] = 0]
  /\ LeaveRun(d)
  /\ UNCHANGED <<upload, rowVars, object, chunks, removal, old, sweepVars>>

\* The worker stops in the middle of the run; the job is delivered again.
CrashWorker(d) ==
  /\ "crash" \in Faults
  /\ job[d] = "running"
  /\ job' = [job EXCEPT ![d] = "queued"]
  /\ LeaveRun(d)
  /\ UNCHANGED <<upload, tries, rowVars, object, chunks, removal, old, sweepVars>>

\* The job disappears from Redis before it is taken.
LoseJob(d) ==
  /\ "loss" \in Faults
  /\ job[d] = "queued"
  /\ EndJob(d)
  /\ UNCHANGED <<upload, rowVars, object, chunks, removal, old, sweepVars>>

-----------------------------------------------------------------------------
(***************************************************************************)
(* DELETE requests.                                                        *)
(***************************************************************************)

\* DELETE FROM documents, with the cascade to the chunks.
DropRows(D) ==
  /\ status' = [d \in Docs |-> IF d \in D THEN "absent" ELSE status[d]]
  /\ chunks' = [d \in Docs |-> IF d \in D THEN {} ELSE chunks[d]]

\* storage.delete, whose errors both callers log and ignore.
WipeObject(d) ==
  \/ object' = [object EXCEPT ![d] = FALSE]
  \/ "storage" \in Faults /\ UNCHANGED object

RemovalStep(d, from, to) ==
  /\ removal[d] = from
  /\ removal' = [removal EXCEPT ![d] = to]

FindDeleted(d) ==
  /\ d \in Deletable
  /\ status[d] # "absent"
  /\ RemovalStep(d, "idle", "found")
  /\ UNCHANGED <<upload, rowVars, object, chunks, jobVars, runVars, old, sweepVars>>

WipeDeleted(d) ==
  /\ RemovalStep(d, "found", "wiped")
  /\ WipeObject(d)
  /\ UNCHANGED <<upload, rowVars, chunks, jobVars, runVars, old, sweepVars>>

CommitDelete(d) ==
  /\ RemovalStep(d, "wiped", "idle")
  /\ DropRows({d})
  /\ UNCHANGED <<upload, processedAt, clock, object, jobVars, runVars, old, sweepVars>>

\* The flush, the audit record, invalidate_tenant or the commit raise: the row is
\* back, its object is not.
RollbackDelete(d) ==
  /\ "request" \in Faults
  /\ RemovalStep(d, "wiped", "idle")
  /\ UNCHANGED <<upload, rowVars, object, chunks, jobVars, runVars, old, sweepVars>>

-----------------------------------------------------------------------------
(***************************************************************************)
(* The nightly cleanup.  Its age limit (7 days) is far beyond the time a   *)
(* queued job is kept (one day), so a document grows old only once its job *)
(* is gone.                                                                *)
(***************************************************************************)

\* A mutant of JobGone: the cutoff is shorter than the life of a job.
JobGoneOrRetried(d) == job[d] \in {"none", "queued", "done"}

JobGone(d) == job[d] \in {"none", "done"}

GrowOld(d) ==
  /\ ~old[d]
  /\ status[d] # "absent"
  /\ JobGone(d)
  /\ old' = [old EXCEPT ![d] = TRUE]
  /\ UNCHANGED <<upload, rowVars, object, chunks, jobVars, runVars, removal, sweepVars>>

Sweepable == {d \in Docs : status[d] = "failed" /\ old[d]}

SelectSwept ==
  /\ sweepTodo = {} /\ sweepDone = {}
  /\ Sweepable # {}
  /\ sweepTodo' = Sweepable
  /\ UNCHANGED <<upload, rowVars, object, chunks, jobVars, runVars, removal, old,
                 sweepDone>>

WipeSwept(d) ==
  /\ d \in sweepTodo
  /\ WipeObject(d)
  /\ sweepTodo' = sweepTodo \ {d}
  /\ sweepDone' = sweepDone \cup {d}
  /\ UNCHANGED <<upload, rowVars, chunks, jobVars, runVars, removal, old>>

CommitSweep ==
  /\ sweepTodo = {} /\ sweepDone # {}
  /\ DropRows(sweepDone)
  /\ sweepDone' = {}
  /\ UNCHANGED <<upload, processedAt, clock, object, jobVars, runVars, removal, old,
                 sweepTodo>>

\* The worker dies in the middle: the rows stay, the objects already wiped do not.
RollbackSweep ==
  /\ "crash" \in Faults
  /\ sweepTodo \cup sweepDone # {}
  /\ sweepTodo' = {} /\ sweepDone' = {}
  /\ UNCHANGED <<upload, rowVars, object, chunks, jobVars, runVars, removal, old>>

-----------------------------------------------------------------------------
Upload(d) ==
  \/ InsertRow(d) \/ PutObject(d) \/ EnqueueJob(d) \/ EnqueueFails(d)
  \/ CommitUpload(d) \/ AbortUpload(d)

Work(d) ==
  \/ StartJob(d) \/ GiveUpJob(d)
  \/ LoadDocument(d) \/ FetchAndChunk(d) \/ SelectPrevious(d) \/ ComputeDiff(d)
  \/ StoreChunks(d) \/ StoreRejected(d) \/ FinishJob(d) \/ MarkFailed(d)

WorkFault(d) ==
  \/ RaiseInJob(d) \/ TimeoutJob(d) \/ CrashWorker(d) \/ LoseJob(d)

Delete(d) ==
  \/ FindDeleted(d) \/ WipeDeleted(d) \/ CommitDelete(d) \/ RollbackDelete(d)

Sweep == SelectSwept \/ CommitSweep \/ RollbackSweep \/ \E d \in Docs : WipeSwept(d)

Next ==
  \/ \E d \in Docs : Upload(d) \/ Work(d) \/ WorkFault(d) \/ Delete(d) \/ GrowOld(d)
  \/ Sweep

Spec == Init /\ [][Next]_vars

\* The event loops of the API and of the worker run a request or a job that has
\* begun to its end, and an idle worker takes queued jobs.  Nothing is assumed of
\* faults, of the tenant's DELETE requests, or of time.
Fairness ==
  \A d \in Docs :
    /\ WF_vars(PutObject(d) \/ EnqueueJob(d) \/ CommitUpload(d))
    /\ WF_vars(Work(d))
    /\ WF_vars(WipeDeleted(d) \/ CommitDelete(d))

FairSpec == Spec /\ Fairness

-----------------------------------------------------------------------------
(***************************************************************************)
(* Properties.                                                             *)
(***************************************************************************)

SameFile(d, e) == File[d] = File[e]

\* The request has ended, and with it the transaction of the upload.
Closed(d) == upload[d] \in {"accepted", "rejected", "aborted"}

\* Chunk rows belong to a document that exists and that a worker has taken up, and they
\* hold only chunks of that document: a run that outlives its document, or that began
\* before the row was committed, leaves no rows behind (foreign key and cascade of
\* models/document.py against process_document and delete_document).
ChunksOwned ==
  \A d \in Docs :
    /\ chunks[d] \subseteq Content[d]
    /\ chunks[d] # {} => status[d] \in {"processing", "completed", "failed"}

\* No other version of the file of d has ever been completed.
FirstCompletion(d) == \A e \in Docs \ {d} : SameFile(d, e) => processedAt[e] = 0

\* As long as no other version of its file has ever been completed, a document is indexed
\* as a whole or not at all, and wholly once it is completed, in spite of redelivered jobs,
\* timeouts, errors and deletions (process_document, transaction 5 and the unique
\* chunk_index).
FreshIndexedWhole ==
  \A d \in Docs :
    FirstCompletion(d) =>
      /\ chunks[d] \in {{}, Content[d]}
      /\ status[d] = "completed" => chunks[d] = Content[d]

\* e was completed once, and is deleted.
Lost(e) == processedAt[e] > 0 /\ status[e] = "absent"

\* What a completed version says can be found, in its own rows or in those of other versions
\* of its file, unless one of these was deleted: whichever jobs overlap, are cut off or are
\* delivered again, and whichever version they were compared with (process_document,
\* transactions 3 to 5).
SearchableUntilLost ==
  \A d \in Docs : status[d] = "completed" =>
    LET versions == {e \in Docs : SameFile(d, e)} IN
      \/ Content[d] \subseteq UNION {chunks[e] : e \in versions}
      \/ \E e \in versions : Lost(e)

\* Only its tenant removes a document that is not failed: the cleanup never takes one
\* that a worker has taken up again between its query and its commit
\* (cleanup_failed_documents).
CleanupSparesLive ==
  [][\A d \in Docs :
       status[d] \in {"pending", "processing", "completed"} /\ status'[d] = "absent"
         => removal[d] = "wiped"]_vars

\* A new version is stored only if the version it was compared with has no chunk left that
\* the new one lacks, however long the embeddings took and whatever other versions stored
\* meanwhile (transactions 4 and 5 of process_document) -- unless the job of that older
\* version was delivered a second time.
DiffedVersionCleared ==
  [][\A d \in Docs :
       pc[d] = "diffed" /\ pc'[d] = "stored" /\ prev[d] # NoDoc
         => tries[prev[d]] # 1 \/ chunks'[prev[d]] \subseteq Content[d]]_vars

\* d is the version of its file that was completed last.
LatestVersion(d) ==
  status[d] = "completed" /\ IsLatest(d, PreviousVersions(d) \cup {d})

\* The completed versions that d replaced.
Earlier(d) == {e \in PreviousVersions(d) : processedAt[e] < processedAt[d]}

\* e is the version that was completed last before d.
Replaced(d, e) == status[d] = "completed" /\ IsLatest(e, Earlier(d))

\* Once a version is replaced, its rows hold no chunk that its successor lacks (compute_diff,
\* and delete_chunks, which lets no other version pass).  Rows of still older versions may,
\* for only the previous version's are compared.
SupersededCleared ==
  \A d, e \in Docs : Replaced(d, e) => chunks[e] \subseteq Content[d]

\* Every chunk of the latest version can be found, in its own rows or in the unchanged
\* rows of an older version.
LatestSearchable ==
  \A d \in Docs : LatestVersion(d) =>
    Content[d] \subseteq UNION {chunks[e] : e \in {f \in Docs : SameFile(d, f)}}

\* An accepted upload does not stay pending once its job is over: the job was started
\* when the row was visible.
JobSawRow ==
  \A d \in Docs : upload[d] = "accepted" /\ job[d] = "done" => status[d] # "pending"

\* Once an attempt is over, a document it did not complete no longer counts as a
\* duplicate of a new upload of the same file (check_duplicate).
FailureAllowsReupload ==
  \A d \in Docs : job[d] = "done" => status[d] # "processing"

\* Every job that is enqueued is eventually over, whatever happens to workers.
JobsEnd == \A d \in Docs : job[d] = "queued" ~> job[d] = "done"

\* Without faults, a document whose row was committed before its job was taken is
\* eventually completed, failed or deleted.
UploadsSettle ==
  \A d \in Docs :
    status[d] = "pending" /\ job[d] = "queued"
      ~> status[d] \in {"completed", "failed", "absent"}

-----------------------------------------------------------------------------
(***************************************************************************)
(* The inductive invariant of DocumentPipelineProofs, in parts.            *)
(***************************************************************************)

\* A row is visible only after its request has committed, and a job exists only once the
\* request has enqueued it.
RowsCommitted ==
  \A d \in Docs :
    /\ status[d] # "absent" => upload[d] \in {"accepted", "rejected"}
    /\ upload[d] \in {"idle", "flushed", "stored", "refused", "rejected"} => job[d] = "none"

\* A run is in progress exactly while ARQ counts the job as running, and until it has
\* stored its chunks nobody else settles the document.
RunsExclusive ==
  \A d \in Docs :
    /\ pc[d] # "off" <=> job[d] = "running"
    /\ pc[d] \in InTry \ {"stored"} => status[d] \in {"absent", "pending", "processing"}

\* An old document has no job left, and what the cleanup holds is failed, or was deleted
\* under its hands.  Only documents whose upload is over are deleted.
SweptStayFailed ==
  \A d \in Docs :
    /\ removal[d] # "idle" => Closed(d)
    /\ old[d] => JobGone(d) /\ Closed(d)
    /\ d \in sweepTodo \cup sweepDone => old[d] /\ status[d] \in {"failed", "absent"}

\* A diff is computed only against a document.
SelectedHasPrevious == \A d \in Docs : pc[d] = "selected" => prev[d] # NoDoc

\* The locals of a run: the previous version is another document of the same file, and
\* the diff adds chunks of the document and deletes chunks that it does not have.
DiffsSound ==
  \A d \in Docs :
    /\ toAdd[d] \subseteq Content[d]
    /\ toDelete[d] \cap Content[d] = {}
    /\ prev[d] # NoDoc => prev[d] # d /\ SameFile(d, prev[d])
    /\ pc[d] \in {"off", "marked", "loaded", "chunked"} => prev[d] = NoDoc
    /\ pc[d] = "diffed" /\ prev[d] = NoDoc => toAdd[d] = Content[d]

\* A completed document was taken up at least once, and so was a previous version.
TakenUp ==
  \A d \in Docs :
    /\ job[d] = "running" \/ status[d] = "completed" => tries[d] >= 1
    /\ prev[d] # NoDoc => tries[prev[d]] >= 1

\* A completed document has the time of its completion, and so have one with chunks and a
\* previous version; a document that was completed once does not come back.
CompletionsTimed ==
  \A d \in Docs :
    /\ status[d] = "completed" \/ chunks[d] # {} => processedAt[d] > 0
    /\ processedAt[d] > 0 => Closed(d)
    /\ prev[d] # NoDoc => processedAt[prev[d]] > 0

\* What a run will not add is in the rows of the previous version, as long as these exist.
DiffsCover ==
  \A d \in Docs : pc[d] = "diffed" /\ prev[d] # NoDoc =>
    Content[d] \subseteq toAdd[d] \cup chunks[prev[d]] \/ Lost(prev[d])

\* A previous version whose job was delivered once stores no more chunks, so the diff
\* still covers what there is to delete.
VersionsSettled ==
  \A d \in Docs : prev[d] # NoDoc /\ tries[prev[d]] = 1 =>
    /\ pc[prev[d]] \in {"off", "stored", "raised", "reported"}
    /\ pc[d] = "diffed" => chunks[prev[d]] \subseteq Content[d] \cup toDelete[d]

RowInv   == RowsCommitted /\ RunsExclusive /\ SweptStayFailed
IndexInv == ChunksOwned /\ DiffsSound /\ FreshIndexedWhole
CoverInv == DiffsCover /\ SearchableUntilLost
TypeInv  == TypeOK /\ SelectedHasPrevious
IInv     == TypeInv /\ RowInv /\ CompletionsTimed /\ IndexInv /\ CoverInv /\ TakenUp /\ VersionsSettled

\* What the promise about versions takes: no two versions of a file are processed at the
\* same time, no job is delivered again or raises after it has completed its document, and
\* no document is deleted that shares its file with others.
Undisturbed ==
  /\ \A d, e \in Docs : SameFile(d, e) /\ job[d] = "running" /\ job[e] = "running" => d = e
  /\ \A d \in Docs :
       /\ job[d] = "queued" => tries[d] = 0
       /\ pc[d] = "raised" => status[d] # "completed"
       /\ removal[d] # "idle" => \A e \in Docs \ {d} : ~SameFile(d, e)

\* A document is settled and has chunks only once its one run has completed it, and no
\* two are completed at the same time.
CompletedOnce ==
  \A d \in Docs :
    /\ job[d] \in {"none", "queued"} => status[d] \in {"absent", "pending"}
    /\ chunks[d] # {} => status[d] = "completed"
    /\ status[d] = "completed" =>
         /\ processedAt[d] <= clock
         /\ \A e \in Docs \ {d} :
              status[e] = "completed" => processedAt[e] # processedAt[d]

\* From the query for the previous version until the chunks are stored, that version stays
\* the latest, its chunks stay as they were compared, and the row of the run stays.
DiffsCurrent ==
  \A d \in Docs :
    /\ pc[d] \in {"selected", "diffed"} =>
         IF prev[d] = NoDoc THEN PreviousVersions(d) = {}
                            ELSE IsLatest(prev[d], PreviousVersions(d))
    /\ pc[d] = "diffed" /\ prev[d] # NoDoc =>
         /\ toAdd[d] = Content[d] \ chunks[prev[d]]
         /\ toDelete[d] = chunks[prev[d]] \ Content[d]
    /\ pc[d] \in {"loaded", "chunked", "selected", "diffed"} /\ status[d] = "absent" =>
         \A e \in Docs \ {d} : ~SameFile(d, e)

SerialInv == CompletedOnce /\ DiffsCurrent /\ LatestSearchable /\ SupersededCleared

\* The refinement mapping: a document without a row is unborn until its request ends.
Phase ==
  [d \in Docs |-> IF status[d] # "absent" THEN status[d]
                  ELSE IF Closed(d) THEN "gone" ELSE "unborn"]

Lifecycle == INSTANCE DocumentLifecycle WITH phase <- Phase

\* A document goes through the phases of DocumentLifecycle only: it is never pending
\* again, never comes back once it is gone, and is settled by its own runs alone.
FollowsLifecycle == Lifecycle!Spec
=============================================================================
