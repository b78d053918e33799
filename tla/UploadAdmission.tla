---------------------------- MODULE UploadAdmission ----------------------------
(***************************************************************************)
(* Which uploads one tenant gets admitted: deduplication and the document  *)
(* and storage quotas of the single upload (documents/router.py) and of    *)
(* the batch upload (documents/batch_router.py), and the state of a batch  *)
(* as get_batch_status reports it (documents/batch.py).                    *)
(*                                                                         *)
(* Every check is a query of its own, and nothing is locked: a request     *)
(* sees what others have committed and the rows it has flushed itself, not *)
(* what others are about to commit.  How many requests run at once is the  *)
(* web server's business; MaxOpen stands for it.                           *)
(*                                                                         *)
(* A document is <<r, i>>: the i-th file of request r.  Object storage,    *)
(* redelivered jobs and jobs started too early are DocumentPipeline's.     *)
(***************************************************************************)
EXTENDS Naturals, Sequences, FiniteSets

CONSTANTS
  Contents,   \* file contents, by their sha256
  Size,       \* Size[c]: bytes of c
  Requests,
  Batches,    \* the requests that come through the batch endpoint
  Files,      \* Files[r]: the contents that r carries, in order
  Deletable,  \* the documents the tenant may delete
  DocLimit,   \* TIER_LIMITS: documents
  ByteLimit,  \* TIER_LIMITS: storage_gb, in bytes
  MaxBatch,   \* MAX_BATCH_SIZE
  MaxOpen     \* requests served at the same time

ASSUME AdmissionAssumption ==
  /\ Size \in [Contents -> Nat]
  /\ Batches \subseteq Requests
  /\ Files \in [Requests -> Seq(Contents)]
  /\ \A r \in Requests \ Batches : Len(Files[r]) = 1
  /\ IsFiniteSet(Requests)
  /\ DocLimit \in Nat \ {0}
  /\ ByteLimit \in Nat \ {0}
  /\ MaxBatch \in Nat \ {0}
  /\ MaxOpen \in Nat \ {0}

Docs == UNION {{r} \X (1 .. Len(Files[r])) : r \in Requests}

ContentOf(x) == Files[x[1]][x[2]]

VARIABLES
  pc,         \* where each request stands, or how it was answered
  at,         \* the file it is looking at
  row,        \* documents.status; "flushed" inside the transaction of the request
  queued,     \* the documents with a processing job
  failedOnce  \* the documents whose processing has failed at least once

docVars == <<row, queued, failedOnce>>
vars == <<pc, at, docVars>>

Statuses == {"pending", "processing", "completed", "failed"}
Working  == {"open", "fresh", "counted", "approved", "stored", "enqueued", "refused"}
Answers  == {"accepted", "unavailable", "duplicate", "overquota", "rejected", "aborted"}

TypeOK ==
  /\ pc \in [Requests -> {"idle"} \cup Working \cup Answers]
  /\ at \in [Requests -> Nat]
  /\ row \in [Docs -> {"absent", "flushed", "gone"} \cup Statuses]
  /\ queued \subseteq Docs
  /\ failedOnce \subseteq Docs

Init ==
  /\ pc = [r \in Requests |-> "idle"]
  /\ at = [r \in Requests |-> 1]
  /\ row = [x \in Docs |-> "absent"]
  /\ queued = {}
  /\ failedOnce = {}

-----------------------------------------------------------------------------
(***************************************************************************)
(* What a request sees.                                                    *)
(***************************************************************************)

Open == {r \in Requests : pc[r] \in Working}

Committed == {x \in Docs : row[x] \in Statuses}

\* The rows r has flushed.
Own(r) == {x \in Docs : x[1] = r /\ row[x] = "flushed"}

Visible(r) == Committed \cup Own(r)

\* check_duplicate: a document with this content that has not failed.  A mutant sees
\* only the documents that are already being processed.
DuplicatesStarted(r) ==
  {x \in Visible(r) : /\ ContentOf(x) = Files[r][at[r]]
                      /\ row[x] \in {"processing", "completed"}}

Duplicates(r) ==
  {x \in Visible(r) : /\ ContentOf(x) = Files[r][at[r]]
                      /\ row[x] # "failed"}

\* enforce_document_quota.  A mutant forgets it.
UnderDocQuotaAlways(r) == r \in Requests

UnderDocQuota(r) == Cardinality(Visible(r)) < DocLimit

\* SUM(documents.file_size), as the number of the bytes: the k-th of each file.
Bytes(S) == Cardinality(UNION {{x} \X (1 .. Size[ContentOf(x)]) : x \in S})

\* enforce_storage_quota.  A mutant does not count the file that is coming.
UnderByteQuotaBefore(r) == Bytes(Visible(r)) < ByteLimit

UnderByteQuota(r) == Bytes(Visible(r)) + Size[Files[r][at[r]]] < ByteLimit

-----------------------------------------------------------------------------
(***************************************************************************)
(* The requests.  A single upload goes through deduplication, document     *)
(* quota and storage quota in this order; a batch through the document     *)
(* quota once and then, file by file, through deduplication and storage    *)
(* quota, and passes over the files that are refused.                      *)
(***************************************************************************)

Go(r, from, to) ==
  /\ pc[r] = from
  /\ pc' = [pc EXCEPT ![r] = to]

\* The batch goes on to its next file.
SkipFile(r) ==
  /\ pc' = [pc EXCEPT ![r] = "counted"]
  /\ at' = [at EXCEPT ![r] = @ + 1]

Receive(r) ==
  /\ Cardinality(Open) < MaxOpen
  /\ Len(Files[r]) \in 1 .. MaxBatch
  /\ Go(r, "idle", "open")
  /\ UNCHANGED <<at, docVars>>

CheckDuplicate(r) ==
  /\ \/ /\ r \notin Batches
        /\ \/ Duplicates(r) = {} /\ Go(r, "open", "fresh")
           \/ Duplicates(r) # {} /\ Go(r, "open", "duplicate")
        /\ UNCHANGED at
     \/ /\ r \in Batches
        /\ pc[r] = "counted"
        /\ at[r] <= Len(Files[r])
        /\ \/ Duplicates(r) = {} /\ Go(r, "counted", "fresh") /\ UNCHANGED at
           \/ Duplicates(r) # {} /\ SkipFile(r)
  /\ UNCHANGED docVars

CheckDocuments(r) ==
  /\ pc[r] = IF r \in Batches THEN "open" ELSE "fresh"
  /\ pc' = [pc EXCEPT ![r] = IF UnderDocQuota(r) THEN "counted" ELSE "overquota"]
  /\ UNCHANGED <<at, docVars>>

CheckStorage(r) ==
  /\ pc[r] = IF r \in Batches THEN "fresh" ELSE "counted"
  /\ \/ UnderByteQuota(r) /\ Go(r, pc[r], "approved") /\ UNCHANGED at
     \/ ~UnderByteQuota(r) /\ r \notin Batches /\ Go(r, pc[r], "overquota") /\ UNCHANGED at
     \/ ~UnderByteQuota(r) /\ r \in Batches /\ SkipFile(r)
  /\ UNCHANGED docVars

\* The row is flushed and the object stored.
InsertDocument(r) ==
  /\ pc[r] = "approved"
  /\ row' = [row EXCEPT ![<<r, at[r]>>] = "flushed"]
  /\ \/ r \in Batches /\ SkipFile(r)
     \/ r \notin Batches /\ Go(r, "approved", "stored") /\ UNCHANGED at
  /\ UNCHANGED <<queued, failedOnce>>

\* After its last file a batch writes its batch_jobs row, or is answered 422.
RecordBatch(r) ==
  /\ r \in Batches
  /\ at[r] > Len(Files[r])
  /\ Go(r, "counted", IF Own(r) = {} THEN "rejected" ELSE "stored")
  /\ UNCHANGED <<at, docVars>>

\* A single upload whose job cannot be enqueued is refused with its row in place; a batch
\* logs the failures and is accepted.
Enqueue(r) ==
  /\ \E S \in SUBSET Own(r) :
       /\ queued' = queued \cup S
       /\ Go(r, "stored", IF r \in Batches \/ S # {} THEN "enqueued" ELSE "refused")
  /\ UNCHANGED <<at, row, failedOnce>>

CommitRequest(r) ==
  /\ \/ Go(r, "enqueued", "accepted")
     \/ Go(r, "refused", "unavailable")
  /\ row' = [x \in Docs |-> IF x \in Own(r) THEN "pending" ELSE row[x]]
  /\ UNCHANGED <<at, queued, failedOnce>>

\* Any exception that is not answered below the middleware, or the end of the process.
AbortRequest(r) ==
  /\ pc[r] \in Working
  /\ pc' = [pc EXCEPT ![r] = "aborted"]
  /\ row' = [x \in Docs |-> IF x \in Own(r) THEN "absent" ELSE row[x]]
  /\ UNCHANGED <<at, queued, failedOnce>>

-----------------------------------------------------------------------------
(***************************************************************************)
(* What happens to admitted documents.                                     *)
(***************************************************************************)

SetStatus(x, from, to) ==
  /\ row[x] \in from
  /\ row' = [row EXCEPT ![x] = to]

\* A run of process_document begins; a job delivered again takes a failed or completed
\* document up once more.
BeginRun(x) ==
  /\ x \in queued
  /\ SetStatus(x, {"pending", "failed", "completed"}, "processing")
  /\ UNCHANGED <<pc, at, queued, failedOnce>>

CompleteRun(x) ==
  /\ SetStatus(x, {"processing"}, "completed")
  /\ UNCHANGED <<pc, at, queued, failedOnce>>

FailRun(x) ==
  /\ SetStatus(x, {"processing"}, "failed")
  /\ failedOnce' = failedOnce \cup {x}
  /\ UNCHANGED <<pc, at, queued>>

DeleteDocument(x) ==
  /\ x \in Deletable
  /\ SetStatus(x, Statuses, "gone")
  /\ UNCHANGED <<pc, at, queued, failedOnce>>

Admit(r) ==
  \/ Receive(r) \/ CheckDuplicate(r) \/ CheckDocuments(r) \/ CheckStorage(r)
  \/ InsertDocument(r) \/ RecordBatch(r) \/ Enqueue(r) \/ CommitRequest(r)
  \/ AbortRequest(r)

Live(x) == BeginRun(x) \/ CompleteRun(x) \/ FailRun(x) \/ DeleteDocument(x)

Next == (\E r \in Requests : Admit(r)) \/ (\E x \in Docs : Live(x))

Spec == Init /\ [][Next]_vars

-----------------------------------------------------------------------------
(***************************************************************************)
(* get_batch_status of an accepted batch.                                  *)
(***************************************************************************)

\* total_documents of the batch: the documents that were accepted.
Accepted(r) == {x \in Docs : x[1] = r /\ row[x] # "absent"}

Having(r, s) == Cardinality({x \in Accepted(r) : row[x] = s})

\* A mutant of Total counts the documents that are still there.
TotalPresent(r) == Cardinality({x \in Accepted(r) : row[x] # "gone"})

Total(r) == Cardinality(Accepted(r))

AggregateStatus(r) ==
  LET succeeded == Having(r, "completed")
      failed    == Having(r, "failed")
      processed == succeeded + failed
      waiting   == Having(r, "pending") + Having(r, "processing")
  IN CASE processed = 0 /\ waiting > 0           -> "pending"
       [] processed = 0 /\ waiting = 0           -> "processing"
       [] processed \in 1 .. Total(r) - 1        -> "processing"
       [] processed # 0 /\ processed >= Total(r) /\ failed = 0    -> "completed"
       [] processed # 0 /\ processed >= Total(r) /\ succeeded = 0 -> "failed"
       [] OTHER                                                   -> "partial"

-----------------------------------------------------------------------------
(***************************************************************************)
(* Properties.                                                             *)
(***************************************************************************)

\* The document limit may be overshot, since requests do not see each other and a batch
\* is checked once, but never by more than the files of the requests that run together
\* (enforce_document_quota, upload_document, batch_upload).
OvershootBounded == Cardinality(Committed) <= DocLimit - 1 + MaxOpen * MaxBatch

\* The storage limit counts the file that is coming and the files of the same request, so
\* only requests that run together overshoot it, each by less than the limit
\* (enforce_storage_quota).
StorageBounded == Bytes(Committed) <= MaxOpen * (ByteLimit - 1)

\* The copies of c, without those whose processing has failed.
Copies(c) == {x \in Committed \ failedOnce : ContentOf(x) = c}

\* However often a file is uploaded, in one batch or in many requests, it is admitted at
\* most once per request that runs at the same time, until it fails (check_duplicate).
CopiesBounded ==
  \A c \in Contents : Cardinality(Copies(c)) <= MaxOpen

\* A batch is reported as completed, failed or partial only when every document it was
\* accepted with has been settled that way, also when some were deleted meanwhile
\* (get_batch_status).
BatchHonest ==
  \A r \in Batches : pc[r] = "accepted" =>
    LET settled == {row[x] : x \in Accepted(r)} IN
    /\ AggregateStatus(r) = "completed" => settled = {"completed"}
    /\ AggregateStatus(r) = "failed" => settled = {"failed"}
    /\ AggregateStatus(r) = "partial" => settled = {"completed", "failed"}

-----------------------------------------------------------------------------
(***************************************************************************)
(* The inductive invariant of UploadAdmissionProofs, in parts.             *)
(***************************************************************************)

\* No more requests are open than the server takes, and none with more files than a
\* batch may have.
RequestsBounded ==
  /\ Cardinality(Open) <= MaxOpen
  /\ \A r \in Requests : pc[r] # "idle" => Len(Files[r]) <= MaxBatch

\* A request past the document quota holds room for a whole batch.
Admitted ==
  {r \in Requests : pc[r] \in {"counted", "approved", "stored", "enqueued", "refused"}
                    \/ (r \in Batches /\ pc[r] = "fresh")}

RoomForAdmitted ==
  Cardinality(Committed) + MaxBatch * Cardinality(Admitted)
    <= DocLimit - 1 + MaxOpen * MaxBatch

\* A request that has found no duplicate of the file it looks at, and not stored it yet.
Checked(r) == pc[r] \in {"fresh", "approved"} \/ (r \notin Batches /\ pc[r] = "counted")

\* A request looks at one of its files while it checks it, and its rows are flushed only
\* while it can still commit them.
FilesInTurn ==
  /\ \A r \in Requests :
       /\ at[r] >= 1
       /\ r \notin Batches => at[r] = 1
       /\ Checked(r) => at[r] <= Len(Files[r])
  /\ \A x \in Docs : row[x] = "flushed" =>
       \/ pc[x[1]] \in {"stored", "enqueued", "refused"}
       \/ x[1] \in Batches /\ pc[x[1]] \in {"counted", "fresh", "approved"}

\* The requests that will commit a copy of c, or may.
Carriers(c) ==
  {r \in Requests : \/ Checked(r) /\ Files[r][at[r]] = c
                    \/ \E x \in Own(r) : ContentOf(x) = c}

\* A request has at most one copy of a file under way, and whoever has one has a place
\* among the requests that were open when there was no copy yet.
CopiesReserved ==
  /\ \A x \in Docs : row[x] = "failed" => x \in failedOnce
  /\ \A r \in Requests : \A x \in Own(r) :
       /\ Checked(r) => ContentOf(x) # Files[r][at[r]]
       /\ \A y \in Own(r) : ContentOf(x) = ContentOf(y) => x = y
  /\ \A c \in Contents : Cardinality(Copies(c)) + Cardinality(Carriers(c)) <= MaxOpen

\* The files that r will commit, or may: approved or flushed.
Coming(r) == Own(r) \cup (IF pc[r] = "approved" THEN {<<r, at[r]>>} ELSE {})

\* No request brings more than the limit allows, and together with what is committed they
\* bring no more than one limit for each.
BytesReserved ==
  /\ \A r \in Requests : Bytes(Coming(r)) <= ByteLimit - 1
  /\ Bytes(Committed \cup UNION {Coming(r) : r \in Requests}) <= MaxOpen * (ByteLimit - 1)

AdmissionInv ==
  TypeOK /\ RequestsBounded /\ RoomForAdmitted /\ FilesInTurn /\ CopiesReserved /\ BytesReserved
=============================================================================
