# A TLA+ verification of the RAG Enterprise SaaS backend

This directory holds TLA+ modules that model the backend under `src/`, the TLC
configurations that model-check them on small instances, and proofs, checked by
TLAPS, of the properties that matter most for every instance.

Paths below are relative to the repository; `src/src/jobs/tasks.py` and the like
are written `jobs/tasks.py`.

## 1. The system

A tenant's members upload documents over HTTP. An ARQ worker downloads each one
from object storage, parses, chunks and embeds it, and stores the chunks in
PostgreSQL, where questions search them. A language model writes answers from
the chunks found, and answers are cached in Redis. Tenants and users are created
at first login or by webhooks of the identity provider (Clerk), plans are
changed by webhooks of the payment provider (Stripe), and connectors copy files
from other services.

| Component | State it keeps | Operations | Interacts with |
| --- | --- | --- | --- |
| Upload and deletion requests (`documents/router.py`, `dedup.py`) | `documents` rows, objects | upload, list, get, delete | quotas, storage, job queue, query cache; row committed by the middleware after the handler |
| Batch upload (`documents/batch_router.py`, `batch.py`) | `batch_jobs` rows | upload up to 20 files, report the status | the same, with one check of the document quota |
| Processing jobs (`jobs/tasks.py`, `worker.py`) | `documents.status`, `processed_at`, `chunks`; ARQ's queue | process a document in five transactions, mark it failed, clean up old failures every night | storage, parser, embeddings, cache, status webhooks |
| Incremental re-indexing (`processing/incremental.py`) | none of its own | diff a new version with the previous one by chunk hash, delete stale chunks (a statement that always raises) | chunk rows of another document |
| Object storage (`storage/minio.py`) | objects | put, get, delete | requests, jobs, cleanup |
| Query cache (`cache/query_cache.py`) | keys `qcache:<tenant>:<hash>` with a time to live | get, set, scan and delete all keys of a tenant | queries, uploads, deletions, jobs |
| Answer generation (`generation/`) | conversations | search, rerank, assemble, ask the model, cite, stream | retrieval, cache, query quota |
| Retrieval (`retrieval/`) | analytics rows | vector, keyword and hybrid search, decomposition | chunk rows |
| Quotas (`billing/quotas.py`) | none: counts the rows of others | check documents, storage, queries, connectors | all requests that create something |
| Authentication and tenant context (`auth/`) | `tenants`, `users`, `api_keys`, JWKS cache | resolve or create tenant and user, open the request's transaction | every request |
| Clerk webhooks (`auth/webhooks.py`, `api/v1/webhooks.py`) | `tenants`, `users` | organization created/updated, membership created/deleted | first logins |
| Connectors (`connectors/`) | `connectors`, `synced_files`, `sync_history`, OAuth states in memory | create, authorise, trigger, schedule, sync | queue, scheduler |
| API keys and audit (`auth/router.py`, `auth/api_keys.py`, `core/audit.py`) | `api_keys`, `audit_logs` | create, list, revoke; authenticate by key | every request |
| Billing (`billing/`) | `tenants.subscription_*`, `usage_records` | checkout, portal, subscription events, usage | quotas |
| Parsing, chunking, chunk quality (`documents/parser.py`, `chunker.py`, `processing/`) | none | cut a file into chunks, filter and score them | jobs |
| Embeddings (`embeddings/`) | none (the cache table has no caller) | batches of texts to vectors, with retries at two levels | jobs, searches |

### What is hard here

- **Transactions end later than the code reads.** A request's transaction is
  opened and committed by `TenantContextMiddleware._with_rls_session`. All that a
  handler does to Redis, to the queue or to MinIO happens before the commit. An
  `HTTPException` is turned into a response below the middleware, so it *commits*;
  any other exception rolls back.
- **Five transactions in one job.** `process_document` marks, reads, selects the
  previous version, diffs against it and, after the embeddings, stores. Whatever
  happens between them to this document or the previous one is not locked out.
- **ARQ delivers at least once.** A worker that stops leaves its job to be run
  again from the start; a job that exceeds `job_timeout` is cancelled with an
  exception that `except Exception` does not catch; Redis evicts what it likes
  (`allkeys-lru` in `docker-compose.yml`).
- **A version's content is spread over two documents.** Unchanged chunks stay
  rows of the older document.
- **Everything is check-then-act.** Deduplication and quotas read what is
  committed and nothing is locked or unique.
- **Invalidation is scan, then delete**, and queries cache an answer long after
  they searched.
- **A question is many statements.** Each sub-query reads the chunks as they are
  at that moment, while jobs rewrite them; merging, reranking, context assembly
  and the model's answer follow much later, from what was read.
- **A stream outlives its request.** The generator of a streamed answer runs after
  the middleware has ended the transaction that carried the tenant.
- **Order is not kept where it matters.** The chunks to embed come out of a set of
  hashes, and lists made before and after are zipped.
- **Signing keys are cached and shared by concurrent refreshes**, each of which
  installs its own answer when it arrives, awaits the end of its connection, and
  then looks its key up in whatever is installed by that time.
- **Statements that never work.** `text()` does not bind a parameter that a cast
  follows directly, so the deletion of stale chunks (`processing/incremental.py:89`)
  is refused by the database and its job fails.

### What makes each component correct

- *Pipeline*: chunk rows belong to a live document and are its own; a document
  goes through its life cycle only, is never resurrected, and its job ends;
  what is completed is searchable until a version is deleted, and a version that
  is replaced has nothing that its successor lacks; the cleanup takes only failed
  documents; a failure leaves the file uploadable.
- *Cache*: an answer computed from an index that has changed is not served for
  longer than the time to live, and is gone once the change has invalidated.
- *Admission*: limits are overshot by a bounded amount; a file has a bounded
  number of copies; a batch reports what became of its documents.
- *Provisioning*: every member ends with one user row, every organization with
  one tenant under its name; no event is lost.
- *Indexing*: a completed version is wholly searchable under its own vectors and
  counts, and its chunks stand where their positions say.
- *Answering*: what an answer names was there and passes the filter; its citations
  and its sources agree; the context fits; a stream is well formed; requests end.
- *Access*: keys are trusted for a bounded time and new ones are found; revocation
  is final; the audit log and the rows agree; quotas are overshot by a bounded
  amount.
- *Connectors*: a due connector is synced once per period; a changed file is found
  by some sync. *Billing*: the tier follows the newest event. (Not modelled, see 6.)

## 2. Modules

| Module | Role |
| --- | --- |
| `DocumentLifecycle` | abstract: the phases of a document's life as a tenant sees them |
| `DocumentPipeline` | upload request, job, incremental re-indexing, DELETE, cleanup |
| `DocumentPipelineProofs` | type correctness, the inductive invariant, the refinement of `DocumentLifecycle` |
| `DocumentVersionsProofs` | any number of versions of a file, processed one after the other |
| `QueryCache` | cache, queries, and all who change the index and invalidate |
| `QueryCacheProofs` | its inductive invariant |
| `UploadAdmission` | deduplication, quotas, single and batch upload, batch status |
| `UploadAdmissionProofs` | its inductive invariant: how far each limit can be overshot, and batch status |
| `TenantProvisioning` | first logins and Clerk's webhooks creating the tenant and its users |
| `TenantProvisioningProofs` | its inductive invariant, and that names stay |
| `Indexing` | what a job computes and writes: chunks, scores, difference, embeddings, rows |
| `IndexingProofs` | its inductive invariant, its types, and all its properties |
| `Answering` | a request over the rows of `Indexing`: search, question or stream |
| `KnowledgeBase` | `Indexing` and `Answering` composed, interleaved statement by statement |
| `KnowledgeBaseProofs` | that it implements `IndexSpec`, its types, and all its safety properties |
| `Access` | signing keys, API keys, audit log, query quota |
| `AccessProofs` | its inductive invariant, and all its properties |
| `MC...` | the instances for TLC |

### DocumentPipeline

One member of `Docs` is one upload request and the document it creates.

| Variable | In the code |
| --- | --- |
| `upload` | how far `upload_document` has come, and how it ended |
| `status`, `processedAt` | the committed row (`"absent"`: no row visible to others) |
| `object` | the file in MinIO |
| `chunks` | the committed chunk rows with this `document_id`, by content hash |
| `job`, `tries` | the ARQ job and how often it was delivered |
| `pc`, `prev`, `toAdd`, `toDelete` | position and locals of the current run of `process_document` |
| `removal` | how far `delete_document` has come |
| `old`, `sweepTodo`, `sweepDone` | the cutoff and the loop of `cleanup_failed_documents` |

An action is a stretch of code between two points at which others can see or do
something: a commit, or an effect on MinIO or Redis. `StartJob` is the first
transaction, `LoadDocument` the second, `SelectPrevious` the third, `ComputeDiff`
the fourth, `StoreChunks` the fifth; `MarkFailed` is the error handler.
`RaiseInJob` lets any statement of the `try` block raise, including the cache
invalidation that comes *after* the completion was committed. The constant
`Faults` says which kinds of fault a run admits. Admission precedes `InsertRow`
and is `UploadAdmission`'s. Parser, chunker and validator appear as the constant
`Content`: what they yield for a document.

`StoreAllowed` says which versions pass the fifth transaction: those that delete
nothing. `delete_chunks` raises whenever it has something to delete, since
`text("... ANY(:ids::uuid[])")` leaves `:ids` unbound, and the job of a version
that drops a chunk of the previous one ends in `MarkFailed`. A version can only
add to the rows of the version it is compared with. `GrowOld` needs a job that is
gone: the cutoff of the cleanup is seven days, ARQ keeps an unfinished job for one.

Three properties say what can be found. `FreshIndexedWhole`: as long as no other
version of its file was ever completed, a document has all its chunks or none.
`SearchableUntilLost`: with any number of versions, jobs that overlap, redelivery
and failures, what a completed version contains is in the rows of its file, until a
version that was completed once is deleted (`Lost`). `LatestSearchable` leaves the
exception out, and `pipeline_shared` shows that it is needed.

### QueryCache

The index is abstracted to the set of documents whose chunks can be found, and
an answer to the documents its searches saw; `exact` is a history bit: the
answer was true of the index at the moment it was cached. `stage[c]` is how far
caller `c` of `invalidate_tenant` has come. Upload and DELETE requests call it
before their commit, the job after, the cleanup never. `CutJob` is a job that
stops between commit and invalidation. `Supersedes` is what storing a document
does to its previous version. A hit changes nothing and is no action.

### UploadAdmission

A document is `<<request, index of the file>>`. Requests go through their checks
in the order of the code: duplicate, documents, storage for a single upload;
documents once, then duplicate and storage for every file of a batch. A request
sees committed rows and the rows it has flushed itself. `MaxOpen` stands for the
number of requests the web server runs at a time, which the code does not limit.
`AggregateStatus` is `get_batch_status`. No migration of the repository creates
the table `batch_jobs`; the model assumes that it exists.

### TenantProvisioning

One organization. `tenant` is the name in its row of `tenants`, `email` the address in
the row of each user in `users` (`Rows` are the users that have one), `tied` those whom
documents or audit records refer to. `told`, `joined` and `left` are the events and how
far their handlers have come; `pc` is where the request of a session stands. Each
handler and each of `get_or_create_tenant` and `get_or_create_user` is a SELECT and,
later, a write that may violate a uniqueness constraint: a request is then answered 500,
an event 200, as `clerk_webhook` answers all exceptions but `RetryableError`.
`handle_membership_created` without a tenant is answered 503, which changes nothing, so
`LookForUser` simply waits for the tenant. Clerk (`name`, `stay`, `Repeat`) is outside
the repository and only produces what the code may receive. Both ways to write a user
respect the unique `(tenant_id, email)`: `SaveUser` and `WriteUser` insert the user or
update the row that was found, `UserUnsaved` and `UserUnwritten` are the violations, and
the updates of a row that is gone by then. `Email` is the address in webhooks, `Claim`
the one in a session's tokens; both are empty when the identifier or the claim is
missing (`auth/webhooks.py:124`, `auth/middleware.py:83`), so users may share it. That a
role has changed, and with it that a row is updated, is a choice (`FindUser`); roles
decide nothing else here.

### Indexing

`DocumentPipeline` counts chunks and runs jobs against each other; `Indexing`
runs one job at a time and looks into them. A file is a sequence of units of text
(`content`), what the splitter cuts from it (`texts`) and where (`cuts`, None for a
text that it changed, by trimming or joining), and the context prefix of its
metadata. A text is a passage, spelled in units, so texts may overlap and one may
occur inside another. `Measure` gives what the validator and the chunker count in a
passage: ratios are integer inequalities, scores thousandths.

| Variable | In the code |
| --- | --- |
| `phase` | the step of `process_document` |
| `file`, `status`, `count` | the versions, `documents.status` and `chunk_count` |
| `chunks`, `scores` | `chunk_data_list`, `quality_scores` |
| `toEmbed`, `ownScores`, `stale`, `kept` | `chunks_to_embed`, `filtered_scores`, rows to delete, `unchanged_count` |
| `vectors`, `attempt`, `call` | `all_embeddings`, the attempt of the batch, the call inside it |
| `rows` | the table `chunks` |

`Starts` is the chunker's search for positions: each text is looked for from one place
behind the beginning of the last text that was found, and so inside it. A text that also
occurs there gets that place instead of its own; `PositionsTrue` says what remains true.
`LargeEnough` is the small-chunk rule, `Valid` and `Score` the validator. `Existing`
chooses one row per content, as the dict of `get_existing_chunks` keeps whichever comes
last; `Diff` takes the new chunks in any order, as they come out of a set.
`EmbedUnreachable` is a call the client repeats, `EmbedRefused` an error it does not,
`AttemptFails` the batch's retry around both. The vector of a text is the pair of prefix
and passage. `Store` needs `stale` to be empty: with rows to delete the transaction
raises, and `Break` is all that is left. `DeleteVersion` deletes a document between two
jobs.

### Answering and KnowledgeBase

One request with `kind` `search`, `ask` or `stream` goes through `pc`: decompose,
search, rerank, assemble, generate. `queries`, `pending` and `found` are the
sub-queries, those not yet searched and what each found; `hits` the merged, then
reranked results; `sources` and `marks` what the answer names and cites; `events`
what a stream has sent. Requests only read, so one stands for all.

`Ranked` gives every list one statement may return: rows that tie come in any
order. Reciprocal ranks are exact integers (`Unit` is divisible by every
denominator that occurs). Statements of one connection run one after the other,
so `SearchOne` is a single step; jobs come between two of them. Which sub-queries
may run is the semaphore's (`Running`). `Visible` lets a stream see nothing: its
statements run without the tenant that row level security would need. The
reranker returns any order, the model cites anything, and both may fail.

`KnowledgeBase` interleaves the two. Jobs add rows to the table and deletions remove
them (`Managed`), both between the statements of a request; `seen` is a history
variable: the rows that were in the table at some moment of the request.

### Access

One process and one tenant. `life` and `since` are Clerk's keys and the ticks since
each was published or retired; `cached`, `cache` and `left` the JWKS cache and its
time to live. A slot serves one request: `at` is where it is, `wrote` what its
transaction has written and not committed. `renew` and `force` are the two refreshes
of `get_signing_key`, `renewing` and `forcing` the same with the answer under way,
`renewed` and `forced` with the answer installed and the connection being closed:
`Install` puts the answer into the shared cache, and only `Find`, after the `async
with` has ended, looks the key up there. Other requests may install older or newer
answers in between. A key that was published less than one call ago may so be refused,
as an answer served before it may be installed last; `FreshKeysAccepted` speaks of keys
published earlier than that (`Good`). `FetchTime` bounds a call with its close and is at
most the time to live: five minutes against `timeout=10.0`. That timeout is for each
operation of httpx and not for the call, so the bound is an assumption.
`failed` and `good` are history: whether the key server failed this request, and
whether its key was good when it came. `Commit` and `Rollback` are the
middleware's; `Locked` is PostgreSQL's row lock. `NewMonth` is the month boundary
of `get_monthly_usage`. Tokens are well signed and unexpired: other ones are
refused at any stage and change nothing.

## 3. Runs

Passing runs finish without error; each run of the second table checks one
statement of the repository's own text and finds it violated by the code.

| Run | Instance | What it shows |
| --- | --- | --- |
| `pipeline_faults` | two versions of one file, all faults, 2 deliveries, 2 workers, the older version deletable; 167,000 states | the inductive invariant `IInv`; a version without a completed sibling is indexed wholly or not at all; completed versions stay searchable until one is deleted; the cleanup spares live documents; what a version was compared with has nothing it lacks when it is stored; the abstract life cycle is followed; every job ends |
| `pipeline_serial` | three versions of a file and another file, one worker, no faults; 85,000 states | with one job at a time the newest version is wholly searchable, a replaced one keeps no row that its successor lacks, and uploads settle |
| `cache` | two versions of a document, one key, two clients; 80,000 states | answers cached from an unchanged index reflect what was indexed once every job has invalidated; all stale answers leave in the end; no deadlock |
| `admission` | three single uploads and two batches, two at a time, limits of 1 document and 9 bytes; 500,000 states | how far limits are overshot, how many copies of a file get in, that a batch's status does not claim too much |
| `tenants` | a member who joins, logs in and leaves, another who joins, both with the empty address at times, one rename, repeated and dropped events; 100,000 states | what Clerk was told is processed is there; a name never falls back to the placeholder; a member who stays is admitted in the end; memberships are handled although they may precede their organization |
| `kb` | two uploads out of four files (shared, repeated, noisy passages), deletions, six requests, one at a time; 220,000 states | rows carry the right vectors, and positions where they stand; a completed version is searchable and counted right; what a request lists or names was there and passes its filter; citations, context, highlights, streams and last pages are as promised; jobs settle and requests end |
| `access` | two slots, two keys, one API key, a time to live and a call of one tick each, a limit of 1; 2,030,000 states | keys are trusted in bounded time, and found once they are one call old; the quota is overshot by less than the slots; keys and audit log agree, revocation is final |

| Run | Statement | What happens |
| --- | --- | --- |
| `pipeline_early` | `documents/router.py:206`, "after commit so document row is visible to worker" | the job is enqueued before the commit; a quick worker finds no row and the document stays pending |
| `pipeline_shared` | `processing/incremental.py:53`, unchanged chunks are "kept as-is" | they belong to the older document: after a version that adds a chunk, deleting the older one removes the others from the newer |
| `pipeline_stuck` | `documents/dedup.py:24-25`, a re-upload after a failed attempt is allowed | a run that times out leaves the document processing, which blocks re-uploads |
| `cache_delete` | `cache/query_cache.py:55-56`, subsequent queries reflect the change | DELETE invalidates before it commits; a query in between caches the deleted content |
| `kb_scores` | `jobs/tasks.py:187`, "Filter quality_scores to match chunks_to_embed" | the scores are in the order of the file, the chunks in that of a set: two chunks that a version adds swap their scores |

### Bounds, and why they are enough

- *Two versions of a file* in `pipeline_faults`: every race of the re-indexing is
  between a new version and one older one. Whichever is completed first: the one
  with a chunk more passes after the other, and the other fails after it. Until one of
  them is completed, each is a file of its own.
- *Three versions, one after the other* in `pipeline_serial`, each of which adds a chunk
  to the one before: the third relies on rows of the second, and lacks the chunk in the
  rows of the first. In other orders versions fail. What three versions do that are
  processed at the same time is known from the code and not covered by a run: the newest
  is compared with one of the two others only (`DiffedVersionCleared` speaks of the
  version compared with). The proofs are for any number of versions, with faults and
  with deletions of other files, which this run leaves out to check liveness.
- *Two deliveries, two workers*: a redelivered job meets what its first run left
  behind, and two jobs overlap. A third delivery meets the same states.
- *One key, two clients* in `cache`: properties are about single keys, and the
  interesting overlap is of one query with an invalidation; the second client
  lets an entry be written twice.
- *Two requests at a time, limits of 1 document and 9 bytes* in `admission`: the
  overshoot needs two requests past the same check; the batches share a file
  with each other and within themselves. Two files of 5 bytes fit one by one and not
  together, files of 1 byte fit beside them, and one of 12 is larger than the plan.
- *Two members, one browser* in `tenants`: logins race with the webhooks over the tenant
  and over the user. The tokens of the first member and the webhook of the second lack
  the address, so each may find it taken, and the first one's row is updated back and
  forth. A second browser loses the races that a webhook loses here, by the same
  statements; the proofs are for any number of users and sessions.
- *Two versions, four files* in `kb`: a file with one content, twice, to which two
  others add; in one of these the texts overlap and the last one is found inside the one
  before, in the other a text was changed by the splitter; one passage is too small for
  a chunk of its own, one the validator rejects. Three new chunks make two batches, and
  two attempts of two calls let each retry level be the one that gives up. Of the
  requests, one pages with an offset, one has a threshold, one a filter on the other
  version, one asks a question with up to three sub-queries (one of them too long), and
  the streams send one token, as the number of tokens changes nothing but the length.
- *The candidate limit of 4* is above and below what matches, `RerankTop` and
  `limit` cut lists, the context budgets let a source fit, be cut, or be left out.
- *Two slots and two keys* in `access`: refreshes overlap, a revocation meets
  another one and a use of the key, and two questions pass the same quota. One tick
  each for the time to live and the call separate "expired" from "late", and a key that
  was published during a call from one that was there before it. The slots
  are symmetric (no property of this run is a liveness property).
- In `admission`, two of the single uploads may be exchanged together with their
  files (`Alike`; no liveness property here either). Elsewhere symmetry is not used:
  the documents of an instance differ.

### Fairness

- A request or a run that has begun goes on (weak fairness of the handlers' and
  of the job's steps), since the event loops run every task to its end; an idle
  worker takes queued jobs. `JobsEnd` needs it even under repeated crashes: each
  delivery counts, and at `MaxTries` ARQ gives up.
- In `QueryCache`, entries expire because `SETEX` gives each a time to live, and
  a query ends in an answer or an error.
- In `TenantProvisioning`, Clerk delivers the events that create something until
  they are answered 200, requests end, and a browser sends a request that failed
  with 500 again.
- In `KnowledgeBase`, weak fairness of jobs and request together (`WF(IndexWork \/
  AskWork)`): every call in either has a timeout and every retry is counted, so as long
  as one has something to do, something is done. Nothing is assumed of which of them
  goes first; since both are finite, `JobsSettle` and `RequestsEnd` follow. A client
  that leaves a stream ends it too.
- `Access` has no fairness and states no liveness.
- Nothing is assumed of faults, of deletions by the tenant, of the cleanup, of
  invalidations, or of new queries.

`UploadsSettle` starts from a document that is pending *while its job is queued*:
`pipeline_early` shows that it does not hold of every accepted upload.

## 4. Proofs

Each proof is for any sets of documents, chunks, requests and clients and any
bounds that satisfy the module's `ASSUME`.

**DocumentPipeline.** `IInv` is inductive and is built in layers, each proved on
the ones before it:

1. `TypeInv` (`TypeCorrect`);
2. `RowInv`: rows appear only when requests end, a run exists only while ARQ has
   the job running and keeps the document unsettled up to its last transaction,
   and what the cleanup holds stays failed because an old document has no job.
   This gives `CleanupCorrect`, and with the mapping `Phase` the refinement
   `ImplementsLifecycle`;
3. `CompletionsTimed` and `IndexInv`: what is completed or has chunks has the time of
   its completion, chunk rows are owned (`ChunksCorrect`), a diff adds only chunks of
   the document and names only chunks it does not have, and a document is indexed
   wholly or not at all as long as no other version was completed (`FreshCorrect`): a
   run that compares with nothing adds everything, and who compares with another
   version has one that was completed;
4. `CoverInv`: what a run will not add is in the rows of the version it was compared
   with, unless that one is gone (`DiffsCover`); completed versions stay searchable
   because rows of a completed version only ever go with their document
   (`SearchableCorrect`);
5. `TakenUp` and `VersionsSettled`: a previous version was taken up, and if it was
   delivered once it stores nothing more, so the diff computed in transaction 4 still
   names all that the new version lacks when transaction 5 looks whether it has
   something to delete (`DiffsCorrect`).

That the newest version is searchable (`LatestSearchable`) and that a replaced one
keeps nothing its successor lacks (`SupersededCleared`) need more: versions of one
file are processed one after the other, no job is delivered again or raises once its
document is complete, and no document that shares its file is deleted. The code
ensures none of this (`WorkerSettings.max_jobs` is 10, and `pipeline_shared` shows
what a deletion does), so it is a hypothesis of the theorems and not an assumption
on constants: `Spec /\ []Undisturbed => []SerialInv` (`SerialInvariant`, with
`LatestCorrect` and `SupersededCorrect`). `SerialInv` says that a diff at hand is
still the one to the latest version as the table has it. Neither promise is that
nothing stale is left, which is not so (see 5).

**QueryCache.** `IndexingReflected` is not inductive. `StaleInReach` says why it holds:
an exact answer that no longer reflects the index is covered by a job that has still to
scan, has the key in its scan, or was cut off (`CacheInvariant`, `IndexingCorrect`).

**UploadAdmission.** No limit is inductive, since admitted requests have rows still
to come; the invariant reserves a place for them (`AdmissionInvariant`).
`RoomForAdmitted` holds room for a whole batch for every request past the document
quota (`OvershootCorrect`). `CopiesReserved` counts, beside the copies of a file that
are there, the requests that carry one (`Carriers`): whoever has found no duplicate
came when there was no copy yet, so the two together are never more than the
requests open at once (`CopiesCorrect`). `BytesReserved` does the same for the bytes
that are coming (`Coming`): no request brings a limit's worth, and one that passes the
check finds what is committed below the limit (`StorageCorrect`). The bytes of a set
of files are the size of a set of bytes, so that sums follow from cardinalities.
`BatchCorrect` is a matter of counting: the documents of a batch in each status add
up to its total, and what the status claims follows from which of them are none.

**TenantProvisioning.** `AcknowledgedKept` rests on three facts about single
steps: a tenant is never removed, a row goes only with an event that says its
user has left, and such an event is never unsent; and on two about those who are under
way. `TenantThere`: whoever has passed the tenant by finds it there. `RowsRight`: rows
are of users who have joined and carry addresses of theirs, and a row that a handler has
found is there when it writes, unless its user left. A membership whose insertion or
update is refused so has its row already, when nobody else has the address
(`Settled`, `ProvisioningCorrect`). `NameCorrect` follows from the types.

**Indexing** (`IndexSpec`). `IndexInv` is inductive. Rows belong to completed versions
(`Uploads`) and the table is finite; the chunks held by a job are those of its own file
(`Lists`); each vector so far is that of the chunk at its place (`Vectors`); and the
difference a job holds is still the one to the previous version as the table has it
(`Comparison`), since no other job writes and no version is deleted while it embeds -
the assumption that `DocumentPipeline` does without. `VectorsBelong` needs the third:
`EmbeddedRight` says nothing of vectors not yet stored, so it is not inductive.
`CompletionIsFaithful` rests on the fourth, and on what a set of rows with one row per
content contains (`Existing`). `PositionsHold` adds that every row has the position of a
chunk of its file (`Placed`), and then is about the chunker alone: its cursor never goes
back and moves whenever a text is found (`CursorClimbs`), and as long as no changed text
is found it stays before the place where the next text was cut (`CursorBehind`), so that
this text is found there at the latest. `IndexTypesHold` gives the types. What the
chunker's recursive function computes (`Starts`) is reached without induction theorems:
if a value were wrong there would be a least place where it is, and the one before it
rules that out (`Iteration`, `StaysIn`).

**KnowledgeBase.** `ImplementsIndexing` shows that every step is a step of
`IndexSpec` or leaves its variables alone, so `IndexInv` holds here as well, and with
it that the table is finite. `Grounded` is the inductive invariant of a request:
every list it holds (found, merged, reranked, named) consists of rows of `Good`, the
rows seen during the request that pass its filter, and lists are without
repetition from the merge on. It gives `SourcesAreGrounded` and
`CitationsAreResolved`. `Queried` says that what a request searches for is a
question and that the windows of what it has found lie apart within their content
(`TypesHold`, `HighlightsAreDisjoint`); it assumes that a term found in the
lower-cased text lies within the text. `Budgeted` says that sources, their
headers and separators fit the budget, but for an ellipsis (`ContextIsBounded`).
`FoundRanked` says that what a sub-query found carries reciprocal ranks, each place
of a list at most once; since they fall strictly with the place, a row that both
methods rank first for every sub-query has a higher sum than any other
(`ConsensusIsFirst`). Both are about sums over finite sets, which are recursive
functions: a least set for which the sum is wrong does not exist (`Smallest`,
`Adds`, `SumsUp`). `Received` says for every `pc` what a stream has sent so
far (`StreamsAreWellFormed`). `LastPagesAreLast` is about a single step: a page
that is not full ends the list, and a hybrid list holds at least all candidates.

**Access.** `InvariantHolds`: an answer under way contains the keys that were current
when it was served, at most `FetchTime` ago, and so every current key that is older;
since every answer under way has the key of a good request (`Good`), the cache has it
from the request's installation to its lookup, whatever is installed in between; a
cached key is retired for no longer than a call and what has passed of the time to live,
unless the cache has expired; a transaction that has written a key holds its row.
`TrustIsBounded` and `FreshKeys` follow from the first three, `KeysAreAccounted` from
the last, `QueriesAreBounded` from reserving a record for every admitted question.

**Only model-checked**: the seven liveness properties (`JobsEnd`, `UploadsSettle`,
`EventuallyFresh`, `LoginsSucceed`, `MembershipsHandled`, `JobsSettle`,
`RequestsEnd`), whose proofs need fairness and ENABLED. Every invariant and every
action property of a passing run is proved. Conversely, `SerialInv`, `IndexInv`,
`Received`, `Grounded` and the other invariants that only carry proofs are no
properties of a run; `IInv`, `CacheInv`, `AdmissionInv` and `ProvisioningInv` are.

## 5. What the modelling brought to light

Beside the runs of the second table. Each is a step or a definition of a module and
can be read there; none contradicts a property that a run checks.

- A version that drops a chunk of the version before always fails: its deletion
  (`processing/incremental.py:89`) has its parameter behind a cast, which `text()` does
  not bind (`StoreAllowed`, `Store`). Only a version that keeps all rows of that one can
  be completed, and an edited file has to be deleted before it is uploaded again. Other
  statements of this form are the aggregate of `documents/batch.py:108` (the model lets
  it work), the filters by metadata, category and confidentiality
  (`retrieval/filters.py:57-66`), and the insertions of `connectors/service.py:60` and
  `connectors/oauth.py:127`.
- A chunk that a second version takes over from the first and the third drops stays
  searchable in a row of the first, although `jobs/tasks.py:222` says "Delete stale
  chunks from previous version": `processing/incremental.py:35` reads only the rows
  of the second, and so the third passes. Hence `SupersededCleared` compares a version
  with its successor.
- A chunk may get an earlier position than the one it was cut from, and with it the
  wrong page: `documents/chunker.py:115` goes on one character behind the beginning of
  the chunk before, where its text may occur as well (`PositionsTrue`).
- A first login whose address another user of the tenant has is answered 500 until
  that changes, and a webhook with it is acknowledged without effect; tokens without an
  address claim all bring the empty one (`UserUnwritten`, `UserUnsaved`).
- A key that was just published may be refused when an older answer is installed between
  a request's own installation and its lookup (`auth/jwt.py:35`, `Find`).
- Unchanged chunks keep the vector, and so the metadata prefix, of the version they
  were embedded for, and are reported under the older document.
- `min_relevance_score` of a question is dropped when decomposition is on, the
  default, and for streams (`Threshold`), although `generation/schemas.py:38-39` says
  that chunks below it are excluded before generation.
- A truncated source may exceed `max_tokens` by its ellipsis (`ContextBounded`).
- With a threshold, `total` counts only the page at hand (`retrieval/search.py:62-64`).
- Questions of more than 1,000 characters are accepted (2,000 are allowed) and then
  refused by the search they lead to (`LongQueries`).
- Citations of a streamed answer are never validated, and the `usage` event of its
  docstring is never sent.
- Two concurrent revocations both succeed, although the second should be a 409
  (`auth/router.py:196`); the second overwrites `revoked_at`.
- A key server whose answer is no JSON is neither a failure with a fallback nor a
  401 but a 500 (`FetchBreaks`).
- A document that is pending, among them one whose upload was answered 503, counts as
  a duplicate, although `documents/dedup.py:24` speaks of completed and processing ones;
  and a first login that inserts the tenant between lookup and insertion of
  `organization.created` leaves the placeholder as its name, although
  `auth/tenant.py:65` says "Updated by webhook later".

## 6. Not modelled

- **Connectors.** As the repository stands they cannot do anything: every endpoint
  that changes a connector calls `audit_log` with positional arguments in the wrong
  places (`connectors/router.py:81`, 127, 146, 179, 236 against `core/audit.py:37`) and
  ends in an exception and a rollback; and the sync job works in a transaction it
  never commits (`jobs/tasks.py:419-426`), with a history row that lacks the mandatory
  tenant. A model of it would have no reachable state but the first.
- **Stripe.** Its webhooks are refused before they reach the handler: their path is
  not public (`auth/middleware.py:29`), and the handler expects `request.state.db`.
  So `stripe_customer_id` is always NULL, tiers do not change, and usage is only
  counted locally, which `Access` models.
- **Conversations**: `save_message`, `get_conversation_history` and
  `query_with_history` have no caller. The same holds for the embedding cache, the
  `check_*` quotas and `get_usage_summary`.
- **Three versions of a file processed at the same time**: the model of
  `DocumentPipeline` allows them, no run has them, see the bounds.
- Parsers and providers (remote calls whose results are inputs), the splitter of
  LangChain, prompts, page numbers, encryption and signatures, logging, wiring,
  packaging, `src/src/api/main.py` (an application nothing starts), the migrations
  (the models they follow are what the modules refer to). The parameters that the
  cache key leaves out (model, temperature, citation options) are a matter of a
  single request, and filters on metadata, which raise (see 5).

Still worth doing: an abstract specification of the cache that `QueryCache` implements.
