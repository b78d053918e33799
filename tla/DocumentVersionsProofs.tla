----------------------- MODULE DocumentVersionsProofs -----------------------
(***************************************************************************)
(* Proofs about DocumentPipeline: what holds of the versions of a file, of *)
(* any number, as long as they are processed one after the other           *)
(* (Undisturbed).  The pipeline itself does not see to that, and without   *)
(* it the promises fail.                                                   *)
(***************************************************************************)
EXTENDS DocumentPipelineProofs

Alone(d) == \A e \in Docs \ {d} : ~SameFile(d, e)

\* A run that has read its row and not stored its chunks yet.
Indexing(d) == pc[d] \in {"loaded", "chunked", "selected", "diffed"}

BaseInv == TypeInv /\ RowInv /\ IndexInv /\ VersionInv

LEMMA BaseInvariant == Spec => []BaseInv
BY TypeInvariant, RowInvariant, IndexInvariant, VersionInvariant, PTL DEF BaseInv

LEMMA SerialInit == Init => SerialInv
BY DEF Init, SerialInv, CompletedOnce, DiffsCurrent, LatestSearchable, SupersededCleared,
       LatestVersion, Replaced, Earlier, PreviousVersions, IsLatest

-----------------------------------------------------------------------------
(***************************************************************************)
(* Steps that complete no document and remove none that is completed.      *)
(***************************************************************************)

\* They leave the versions alone.
LEMMA VersionsKept ==
  ASSUME SerialInv, UNCHANGED <<chunks, processedAt, clock>>,
         \A x \in Docs : status'[x] = "completed" <=> status[x] = "completed"
  PROVE  /\ LatestSearchable' /\ SupersededCleared'
         /\ \A x \in Docs : PreviousVersions(x)' = PreviousVersions(x)
<1> USE DEF SerialInv
<1>1. \A x \in Docs : PreviousVersions(x)' = PreviousVersions(x)
  BY DEF PreviousVersions
<1>2. \A x \in Docs : Earlier(x)' = Earlier(x)
  BY <1>1 DEF Earlier
<1>3. LatestSearchable'
  BY <1>1 DEF LatestSearchable, LatestVersion, IsLatest, SameFile
<1>4. SupersededCleared'
  BY <1>2 DEF SupersededCleared, Replaced, IsLatest
<1> QED BY <1>1, <1>3, <1>4

\* The diffs at hand stay current when, besides, no run gets a new one.
LEMMA SerialKept ==
  ASSUME SerialInv, UNCHANGED <<chunks, processedAt, clock>>,
         \A x \in Docs : status'[x] = "completed" <=> status[x] = "completed",
         \A x \in Docs : job'[x] \in {"none", "queued"} => status'[x] \in {"absent", "pending"},
         \A x \in Docs : pc'[x] \in {"selected", "diffed"} =>
           /\ pc'[x] = pc[x] /\ prev'[x] = prev[x]
           /\ toAdd'[x] = toAdd[x] /\ toDelete'[x] = toDelete[x],
         \A x \in Docs : Indexing(x)' /\ status'[x] = "absent" => Alone(x)
  PROVE  SerialInv'
<1>1. LatestSearchable' /\ SupersededCleared'
  BY VersionsKept
<1>2. \A x \in Docs : PreviousVersions(x)' = PreviousVersions(x)
  BY VersionsKept
<1>3. CompletedOnce'
  BY DEF SerialInv, CompletedOnce
<1>4. DiffsCurrent'
  BY <1>2 DEF SerialInv, DiffsCurrent, IsLatest, Indexing, Alone
<1> QED BY <1>1, <1>3, <1>4 DEF SerialInv

LEMMA SerialUpload ==
  ASSUME BaseInv, SerialInv, NEW d \in Docs, Upload(d)
  PROVE  SerialInv'
<1> USE DEF BaseInv, TypeInv, TypeOK, rowVars, jobVars, runVars, UploadStep
<1>1. UNCHANGED <<chunks, processedAt, clock, runVars>>
  BY DEF Upload, InsertRow, PutObject, EnqueueJob, EnqueueFails, CommitUpload, AbortUpload
<1>2. /\ \A x \in Docs : x # d => status'[x] = status[x] /\ job'[x] = job[x]
      /\ \/ status'[d] = status[d] /\ job'[d] = job[d]
         \/ status'[d] = status[d] /\ job[d] = "none" /\ job'[d] = "queued"
         \/ status[d] = "absent" /\ status'[d] = "pending" /\ job'[d] = job[d]
  BY DEF Upload, InsertRow, PutObject, EnqueueJob, EnqueueFails, CommitUpload, AbortUpload,
         RowInv, RowsCommitted
<1>3. \A x \in Docs : status'[x] = "absent" => status[x] = "absent"
  BY <1>2
<1> QED BY <1>1, <1>2, <1>3, SerialKept DEF SerialInv, CompletedOnce, DiffsCurrent, Indexing, Alone

\* Within its run, a document is alone in its file when its row is gone.
LEMMA SerialDelete ==
  ASSUME BaseInv, SerialInv, Undisturbed, NEW d \in Docs, Delete(d) \/ GrowOld(d)
  PROVE  SerialInv'
<1> USE DEF BaseInv, TypeInv, TypeOK, rowVars, jobVars, runVars
<1>1. CASE CommitDelete(d)
  <2>1. Alone(d)
    BY <1>1 DEF CommitDelete, RemovalStep, Undisturbed, Alone
  <2>2. /\ status' = [status EXCEPT ![d] = "absent"] /\ chunks' = [chunks EXCEPT ![d] = {}]
        /\ UNCHANGED <<processedAt, clock, jobVars, runVars>>
    BY <1>1 DEF CommitDelete, DropRows
  <2>3. \A x \in Docs \ {d} : /\ PreviousVersions(x)' = PreviousVersions(x)
                               /\ Earlier(x)' = Earlier(x)
    BY <2>1, <2>2 DEF Alone, SameFile, PreviousVersions, Earlier
  <2>4. LatestSearchable'
    BY <2>1, <2>2, <2>3 DEF SerialInv, LatestSearchable, LatestVersion, IsLatest, SameFile, Alone
  <2>5. SupersededCleared'
    BY <2>2, <2>3 DEF SerialInv, SupersededCleared, Replaced, IsLatest
  <2>6. CompletedOnce'
    BY <2>2 DEF SerialInv, CompletedOnce
  <2>7. DiffsCurrent'
    <3>1. PreviousVersions(d) = {} /\ PreviousVersions(d)' = {}
      BY <2>1 DEF PreviousVersions, Alone, SameFile
    <3>2. \A x \in Docs \ {d} : prev[x] # d
      BY <2>1, ConstantsAssumption DEF IndexInv, DiffsSound, Alone, SameFile
    <3> QED BY <2>1, <2>2, <2>3, <3>1, <3>2 DEF SerialInv, DiffsCurrent, IsLatest, Alone
  <2> QED BY <2>4, <2>5, <2>6, <2>7 DEF SerialInv
<1>2. CASE FindDeleted(d) \/ WipeDeleted(d) \/ RollbackDelete(d) \/ GrowOld(d)
  <2>1. UNCHANGED <<chunks, rowVars, jobVars, runVars>>
    BY <1>2 DEF FindDeleted, WipeDeleted, RollbackDelete, GrowOld
  <2> QED BY <2>1, SerialKept DEF SerialInv, CompletedOnce, DiffsCurrent, Indexing, Alone
<1> QED BY <1>1, <1>2 DEF Delete

LEMMA SerialSweep ==
  ASSUME BaseInv, SerialInv, Sweep
  PROVE  SerialInv'
<1> USE DEF BaseInv, TypeInv, TypeOK, rowVars, jobVars, runVars
<1>1. CASE CommitSweep
  <2>1. \A x \in sweepDone :
          /\ x \in Docs /\ status[x] \in {"failed", "absent"} /\ job[x] \in {"none", "done"}
    BY DEF RowInv, SweptStayFailed, JobGone
  <2>2. \A x \in sweepDone : pc[x] = "off" /\ chunks[x] = {}
    BY <2>1 DEF RowInv, RunsExclusive, SerialInv, CompletedOnce
  <2>3. /\ UNCHANGED <<chunks, processedAt, clock, jobVars, runVars>>
        /\ \A x \in Docs : status'[x] = IF x \in sweepDone THEN "absent" ELSE status[x]
    <3>1. UNCHANGED <<processedAt, clock, jobVars, runVars>>
      BY <1>1 DEF CommitSweep
    <3>2. \A x \in Docs : status'[x] = IF x \in sweepDone THEN "absent" ELSE status[x]
      BY <1>1 DEF CommitSweep, DropRows
    <3>3. chunks' = [x \in Docs |-> chunks[x]]
      BY <1>1, <2>2 DEF CommitSweep, DropRows
    <3> QED BY <3>1, <3>2, <3>3
  <2> QED BY <2>1, <2>2, <2>3, SerialKept
          DEF SerialInv, CompletedOnce, DiffsCurrent, Indexing, Alone
<1>2. CASE SelectSwept \/ RollbackSweep \/ \E d \in Docs : WipeSwept(d)
  <2>1. UNCHANGED <<chunks, rowVars, jobVars, runVars>>
    BY <1>2 DEF SelectSwept, RollbackSweep, WipeSwept
  <2> QED BY <2>1, SerialKept DEF SerialInv, CompletedOnce, DiffsCurrent, Indexing, Alone
<1> QED BY <1>1, <1>2 DEF Sweep

-----------------------------------------------------------------------------
(***************************************************************************)
(* Runs.                                                                   *)
(***************************************************************************)

\* The steps of a run that neither compute a diff nor store one.
LEMMA SerialRun ==
  ASSUME BaseInv, SerialInv, Undisturbed, Undisturbed', NEW d \in Docs, Work(d) \/ WorkFault(d),
         ~SelectPrevious(d), ~ComputeDiff(d), ~StoreChunks(d)
  PROVE  SerialInv'
<1> USE DEF BaseInv, TypeInv, TypeOK, rowVars, jobVars, runVars, SerialInv, Indexing, Alone
<1>1. CASE StartJob(d)
  <2>1. status[d] \in {"absent", "pending"}
    BY <1>1 DEF StartJob, CompletedOnce
  <2>2. /\ UNCHANGED <<chunks, processedAt, clock, prev, toAdd, toDelete>>
        /\ pc' = [pc EXCEPT ![d] = "marked"] /\ job' = [job EXCEPT ![d] = "running"]
        /\ \A x \in Docs : x # d => status'[x] = status[x]
        /\ status'[d] \in {"absent", "processing"}
    BY <1>1, <2>1 DEF StartJob, UpdateStatus
  <2> QED BY <2>1, <2>2, SerialKept DEF CompletedOnce, DiffsCurrent
<1>2. CASE MarkFailed(d)
  <2>1. pc[d] = "raised" /\ status[d] # "completed" /\ job[d] = "running"
    BY <1>2 DEF MarkFailed, RunStep, Undisturbed, RowInv, RunsExclusive
  <2>2. /\ UNCHANGED <<chunks, processedAt, clock, job, prev, toAdd, toDelete>>
        /\ pc' = [pc EXCEPT ![d] = "reported"]
        /\ \A x \in Docs : x # d => status'[x] = status[x]
        /\ status'[d] # "completed"
    BY <1>2, <2>1 DEF MarkFailed, RunStep, UpdateStatus
  <2> QED BY <2>1, <2>2, SerialKept DEF CompletedOnce, DiffsCurrent
<1>3. CASE LoadDocument(d) \/ FetchAndChunk(d) \/ StoreRejected(d) \/ RaiseInJob(d)
  <2>1. /\ UNCHANGED <<chunks, status, processedAt, clock, job, prev, toAdd, toDelete>>
        /\ \/ pc' = [pc EXCEPT ![d] = "loaded"] /\ status[d] # "absent"
           \/ pc' = [pc EXCEPT ![d] = "chunked"] /\ pc[d] = "loaded"
           \/ pc' = [pc EXCEPT ![d] = "raised"] \/ pc' = [pc EXCEPT ![d] = "reported"]
    BY <1>3 DEF LoadDocument, FetchAndChunk, StoreRejected, RaiseInJob, RunStep
  <2> QED BY <2>1, SerialKept DEF CompletedOnce, DiffsCurrent
<1>4. CASE GiveUpJob(d) \/ FinishJob(d) \/ TimeoutJob(d) \/ LoseJob(d)
  <2>1. /\ UNCHANGED <<chunks, status, processedAt, clock>>
        /\ job' = [job EXCEPT ![d] = "done"] /\ LeaveRun(d)
    BY <1>4 DEF GiveUpJob, FinishJob, TimeoutJob, LoseJob, EndJob
  <2>2. \A x \in Docs : pc'[x] # "off" =>
          /\ pc'[x] = pc[x] /\ prev'[x] = prev[x]
          /\ toAdd'[x] = toAdd[x] /\ toDelete'[x] = toDelete[x]
    BY <2>1 DEF LeaveRun
  <2> QED BY <2>1, <2>2, SerialKept DEF CompletedOnce, DiffsCurrent
<1>5. CASE CrashWorker(d)
  <2>1. tries[d] >= 1
    BY <1>5 DEF CrashWorker, VersionInv, TakenUp
  <2>2. tries'[d] = 0
    BY <1>5 DEF CrashWorker, Undisturbed
  <2> QED BY <1>5, <2>1, <2>2 DEF CrashWorker
<1> QED BY <1>1, <1>2, <1>3, <1>4, <1>5 DEF Work, WorkFault

\* The query finds the latest version, and the rows of that version are the ones compared.
LEMMA SerialDiff ==
  ASSUME BaseInv, SerialInv, NEW d \in Docs, SelectPrevious(d) \/ ComputeDiff(d)
  PROVE  SerialInv'
<1> USE DEF BaseInv, TypeInv, TypeOK
<1>1. UNCHANGED <<chunks, status, processedAt, clock, job>>
  BY DEF SelectPrevious, ComputeDiff, rowVars, jobVars
<1>2. LatestSearchable' /\ SupersededCleared' /\ CompletedOnce'
      /\ \A x \in Docs : PreviousVersions(x)' = PreviousVersions(x)
  BY <1>1, VersionsKept DEF SerialInv, CompletedOnce
<1>3. CASE SelectPrevious(d)
  <2>1. pc[d] = "chunked" /\ prev[d] = NoDoc /\ UNCHANGED toDelete
    BY <1>3 DEF SelectPrevious, RunStep, IndexInv, DiffsSound
  <2>2. \/ /\ PreviousVersions(d) = {} /\ pc' = [pc EXCEPT ![d] = "diffed"]
           /\ toAdd' = [toAdd EXCEPT ![d] = Content[d]] /\ UNCHANGED prev
        \/ /\ pc' = [pc EXCEPT ![d] = "selected"] /\ UNCHANGED toAdd
           /\ \E p \in PreviousVersions(d) :
                IsLatest(p, PreviousVersions(d)) /\ prev' = [prev EXCEPT ![d] = p]
    BY <1>3 DEF SelectPrevious, RunStep
  <2>3. \A p \in PreviousVersions(d) : p # NoDoc
    BY ConstantsAssumption DEF PreviousVersions
  <2>4. DiffsCurrent'
    <3>1. CASE /\ PreviousVersions(d) = {} /\ pc' = [pc EXCEPT ![d] = "diffed"]
               /\ toAdd' = [toAdd EXCEPT ![d] = Content[d]] /\ UNCHANGED prev
      BY <1>1, <1>2, <2>1, <3>1 DEF SerialInv, DiffsCurrent, IsLatest
    <3>2. CASE /\ pc' = [pc EXCEPT ![d] = "selected"] /\ UNCHANGED toAdd
               /\ \E p \in PreviousVersions(d) :
                    IsLatest(p, PreviousVersions(d)) /\ prev' = [prev EXCEPT ![d] = p]
      BY <1>1, <1>2, <2>1, <2>3, <3>2 DEF SerialInv, DiffsCurrent, IsLatest
    <3> QED BY <2>2, <3>1, <3>2
  <2> QED BY <1>2, <2>4 DEF SerialInv
<1>4. CASE ComputeDiff(d)
  <2>1. /\ pc[d] = "selected" /\ prev[d] # NoDoc /\ UNCHANGED prev
        /\ pc' = [pc EXCEPT ![d] = "diffed"]
        /\ toAdd' = [toAdd EXCEPT ![d] = Content[d] \ chunks[prev[d]]]
        /\ toDelete' = [toDelete EXCEPT ![d] = chunks[prev[d]] \ Content[d]]
    BY <1>4 DEF ComputeDiff, RunStep, StaleChunks, SelectedHasPrevious
  <2>2. DiffsCurrent'
    BY <1>1, <1>2, <2>1 DEF SerialInv, DiffsCurrent, IsLatest
  <2> QED BY <1>2, <2>2 DEF SerialInv
<1> QED BY <1>3, <1>4

-----------------------------------------------------------------------------
(***************************************************************************)
(* The transaction that stores the chunks and completes the document.      *)
(***************************************************************************)

\* It completes the document, whose row is there, after all others; its rows are the
\* chunks to add, and the previous version has none that the document lacks.
LEMMA StoreEffect ==
  ASSUME BaseInv, SerialInv, NEW d \in Docs, StoreChunks(d)
  PROVE  /\ pc[d] = "diffed" /\ job[d] = "running" /\ status[d] # "completed"
         /\ status' = [status EXCEPT ![d] = "completed"]
         /\ processedAt' = [processedAt EXCEPT ![d] = clock + 1] /\ clock' = clock + 1
         /\ chunks'[d] = toAdd[d]
         /\ \A x \in Docs \ {d} : chunks'[x] = chunks[x]
         /\ prev[d] = NoDoc => toAdd[d] = Content[d]
         /\ prev[d] # NoDoc => /\ toAdd[d] = Content[d] \ chunks[prev[d]]
                               /\ chunks[prev[d]] \subseteq Content[d]
         /\ pc' = [pc EXCEPT ![d] = "stored"] /\ UNCHANGED <<job, prev, toAdd>>
<1> USE DEF BaseInv, TypeInv, TypeOK
<1>1. /\ pc[d] = "diffed" /\ pc' = [pc EXCEPT ![d] = "stored"]
      /\ UNCHANGED <<job, prev, toAdd>>
  BY DEF StoreChunks, RunStep, jobVars
<1>2. job[d] = "running" /\ status[d] \in {"absent", "pending", "processing"}
  BY <1>1 DEF RowInv, RunsExclusive, InTry
<1>3. /\ prev[d] = NoDoc => toAdd[d] = Content[d]
      /\ prev[d] # NoDoc =>
           /\ prev[d] \in Docs /\ prev[d] # d /\ SameFile(d, prev[d])
           /\ toAdd[d] = Content[d] \ chunks[prev[d]]
           /\ toDelete[d] = chunks[prev[d]] \ Content[d]
  BY <1>1 DEF IndexInv, DiffsSound, SerialInv, DiffsCurrent
<1>4. status[d] # "absent"
  <2>1. CASE prev[d] = NoDoc
    BY <1>3, <2>1, ConstantsAssumption DEF StoreChunks, StoreAllowed
  <2>2. CASE prev[d] # NoDoc
    BY <1>1, <1>3, <2>2 DEF SerialInv, DiffsCurrent
  <2> QED BY <2>1, <2>2
<1>5. /\ status' = [status EXCEPT ![d] = "completed"] /\ clock' = clock + 1
      /\ processedAt' = [processedAt EXCEPT ![d] = clock + 1]
  BY <1>4 DEF StoreChunks, UpdateStatus
<1>6. chunks[d] = {}
  BY <1>2 DEF SerialInv, CompletedOnce
<1>7. chunks'[d] = toAdd[d] /\ \A x \in Docs \ {d} : chunks'[x] = chunks[x]
  BY <1>6 DEF StoreChunks
<1>8. toDelete[d] = {}
  BY DEF StoreChunks, StoreAllowed
<1> QED BY <1>1, <1>2, <1>3, <1>5, <1>7, <1>8

LEMMA SerialStore ==
  ASSUME BaseInv, SerialInv, Undisturbed, NEW d \in Docs, StoreChunks(d)
  PROVE  SerialInv'
<1> USE DEF BaseInv, TypeInv, TypeOK
<1>1. /\ pc[d] = "diffed" /\ job[d] = "running" /\ status[d] # "completed"
      /\ status' = [status EXCEPT ![d] = "completed"]
      /\ processedAt' = [processedAt EXCEPT ![d] = clock + 1] /\ clock' = clock + 1
      /\ pc' = [pc EXCEPT ![d] = "stored"] /\ UNCHANGED <<job, prev, toAdd>>
  BY StoreEffect
<1>2. /\ chunks'[d] = toAdd[d]
      /\ \A x \in Docs \ {d} : chunks'[x] = chunks[x]
      /\ prev[d] = NoDoc => toAdd[d] = Content[d]
      /\ prev[d] # NoDoc => /\ toAdd[d] = Content[d] \ chunks[prev[d]]
                            /\ chunks[prev[d]] \subseteq Content[d]
  BY StoreEffect
<1>3. /\ prev[d] # NoDoc =>
           /\ prev[d] \in Docs /\ prev[d] # d /\ SameFile(d, prev[d])
           /\ IsLatest(prev[d], PreviousVersions(d))
      /\ prev[d] = NoDoc => PreviousVersions(d) = {}
  BY <1>1 DEF IndexInv, DiffsSound, SerialInv, DiffsCurrent
<1>4. \A x \in Docs : status[x] = "completed" => processedAt[x] <= clock
  BY DEF SerialInv, CompletedOnce
<1>5. CompletedOnce'
  <2>1. \A x \in Docs : chunks'[x] # {} => status'[x] = "completed"
    BY <1>1, <1>2 DEF SerialInv, CompletedOnce
  <2>2. \A x \in Docs : status'[x] = "completed" =>
          /\ processedAt'[x] <= clock'
          /\ \A e \in Docs \ {x} : status'[e] = "completed" => processedAt'[e] # processedAt'[x]
    BY <1>1, <1>4 DEF SerialInv, CompletedOnce
  <2>3. \A x \in Docs : job'[x] \in {"none", "queued"} => status'[x] \in {"absent", "pending"}
    BY <1>1 DEF SerialInv, CompletedOnce
  <2> QED BY <2>1, <2>2, <2>3 DEF CompletedOnce
<1>6. DiffsCurrent'
  <2> SUFFICES ASSUME NEW x \in Docs, x # d, Indexing(x)
               PROVE  /\ pc'[x] \in {"selected", "diffed"} =>
                           IF prev'[x] = NoDoc THEN PreviousVersions(x)' = {}
                                               ELSE IsLatest(prev[x], PreviousVersions(x))'
                      /\ pc'[x] = "diffed" /\ prev'[x] # NoDoc =>
                           /\ toAdd'[x] = Content[x] \ chunks'[prev'[x]]
                           /\ toDelete'[x] = chunks'[prev'[x]] \ Content[x]
                      /\ status'[x] = "absent" => Alone(x)
    BY <1>1 DEF DiffsCurrent, Indexing, Alone
  <2>1. job[x] = "running" /\ ~SameFile(x, d)
    BY <1>1 DEF Undisturbed, Indexing, RowInv, RunsExclusive
  <2>2. PreviousVersions(x)' = PreviousVersions(x) /\ d \notin PreviousVersions(x)
    BY <1>1, <2>1 DEF PreviousVersions, SameFile
  <2>3. /\ prev'[x] = prev[x] /\ prev[x] # d
        /\ prev[x] # NoDoc => prev[x] \in Docs /\ prev[x] # prev[d]
    <3>1. prev[x] # NoDoc => prev[x] \in Docs /\ SameFile(x, prev[x])
      BY DEF IndexInv, DiffsSound
    <3> QED BY <1>1, <1>3, <2>1, <3>1, ConstantsAssumption DEF SameFile
  <2>4. toAdd'[x] = toAdd[x] /\ toDelete'[x] = toDelete[x] /\ pc'[x] = pc[x]
        /\ status'[x] = status[x]
    BY <1>1, <2>3 DEF StoreChunks
  <2>5. prev[x] # NoDoc => chunks'[prev[x]] = chunks[prev[x]]
    BY <1>2, <2>3
  <2>6. \A e \in PreviousVersions(x) : e # d /\ processedAt'[e] = processedAt[e]
    BY <1>1, <2>2 DEF PreviousVersions
  <2>7. IsLatest(prev[x], PreviousVersions(x)) => IsLatest(prev[x], PreviousVersions(x))'
    BY <2>2, <2>3, <2>6 DEF IsLatest
  <2> QED BY <2>2, <2>3, <2>4, <2>5, <2>7 DEF SerialInv, DiffsCurrent, Indexing, Alone
<1>7. LatestSearchable'
  <2> SUFFICES ASSUME NEW x \in Docs, LatestVersion(x)', NEW k \in Content[x]
               PROVE  \E e \in Docs : SameFile(x, e) /\ k \in chunks'[e]
    BY DEF LatestSearchable, SameFile
  <2>1. CASE x = d
    <3>1. CASE prev[d] = NoDoc
      BY <1>2, <2>1, <3>1 DEF SameFile
    <3>2. CASE prev[d] # NoDoc
      BY <1>2, <1>3, <2>1, <3>2 DEF SameFile
    <3> QED BY <3>1, <3>2
  <2>2. CASE x # d
    <3>1. ~SameFile(x, d)
      <4>1. SameFile(x, d) => d \in (PreviousVersions(x) \cup {x})'
        BY <1>1, <2>2 DEF PreviousVersions, SameFile
      <4>2. status[x] = "completed" /\ processedAt'[x] <= clock
        BY <1>1, <1>4, <2>2 DEF LatestVersion
      <4>3. SameFile(x, d) => processedAt'[d] <= processedAt'[x]
        BY <4>1 DEF LatestVersion, IsLatest
      <4> QED BY <1>1, <4>2, <4>3
    <3>2. PreviousVersions(x)' = PreviousVersions(x) /\ d \notin PreviousVersions(x)
      BY <1>1, <3>1 DEF PreviousVersions, SameFile
    <3>3. LatestVersion(x)
      BY <1>1, <2>2, <3>2 DEF LatestVersion, IsLatest, PreviousVersions
    <3>4. \E e \in Docs : SameFile(x, e) /\ k \in chunks[e]
      BY <3>3 DEF SerialInv, LatestSearchable
    <3>5. \A e \in Docs : SameFile(x, e) => chunks'[e] = chunks[e]
      BY <1>2, <1>3, <3>1, ConstantsAssumption DEF SameFile
    <3> QED BY <3>4, <3>5
  <2> QED BY <2>1, <2>2
<1>8. SupersededCleared'
  <2> SUFFICES ASSUME NEW x \in Docs, NEW e \in Docs, Replaced(x, e)'
               PROVE  chunks'[e] \subseteq Content[x]
    BY DEF SupersededCleared
  <2>1. e \in Earlier(x)' /\ status'[x] = "completed"
    BY DEF Replaced, IsLatest
  <2>2. e # x /\ e \in Docs /\ status'[e] = "completed" /\ SameFile(x, e)
        /\ processedAt'[e] < processedAt'[x]
    BY <2>1 DEF Earlier, PreviousVersions, SameFile
  <2>3. CASE x = d
    <3>1. e \in PreviousVersions(d)
      BY <1>1, <2>2, <2>3 DEF PreviousVersions, SameFile
    <3>2. prev[d] # NoDoc /\ IsLatest(prev[d], PreviousVersions(d))
      BY <1>3, <3>1
    <3>3. prev[d] \in Earlier(d)'
      BY <1>1, <1>3, <1>4, <3>2 DEF Earlier, PreviousVersions, IsLatest
    <3>4. processedAt'[prev[d]] <= processedAt'[e]
      BY <2>3, <3>3 DEF Replaced, IsLatest
    <3>5. processedAt[prev[d]] = processedAt[e]
      <4>1. processedAt[e] <= processedAt[prev[d]]
        BY <3>1, <3>2 DEF IsLatest
      <4>2. prev[d] \in Docs /\ prev[d] # d /\ e # d
        BY <1>3, <2>2, <2>3, <3>2
      <4>3. processedAt[prev[d]] <= processedAt[e]
        BY <1>1, <3>4, <4>2
      <4> QED BY <4>1, <4>2, <4>3
    <3>6. e = prev[d]
      <4>1. status[e] = "completed" /\ status[prev[d]] = "completed" /\ prev[d] \in Docs
        BY <3>1, <3>2 DEF PreviousVersions, IsLatest
      <4> QED BY <3>5, <4>1 DEF SerialInv, CompletedOnce
    <3> QED BY <1>2, <2>2, <2>3, <3>2, <3>6
  <2>4. CASE x # d
    <3>1. status[x] = "completed" /\ processedAt'[x] = processedAt[x]
      BY <1>1, <2>1, <2>4
    <3>2. e # d /\ chunks'[e] \subseteq chunks[e]
      <4>1. e # d
        BY <1>1, <1>4, <2>2, <3>1
      <4> QED BY <1>2, <4>1
    <3>3. Earlier(x)' = Earlier(x)
      <4>1. \A o \in Docs : o \in Earlier(x)' <=> o \in Earlier(x)
        BY <1>1, <1>4, <3>1 DEF Earlier, PreviousVersions
      <4> QED BY <4>1 DEF Earlier, PreviousVersions
    <3>4. \A o \in Earlier(x) : processedAt'[o] = processedAt[o]
      BY <1>1 DEF Earlier, PreviousVersions
    <3>5. Replaced(x, e)
      BY <2>1, <3>1, <3>3, <3>4 DEF Replaced, IsLatest
    <3>6. chunks[e] \subseteq Content[x]
      BY <3>5 DEF SerialInv, SupersededCleared
    <3> QED BY <3>2, <3>6
  <2> QED BY <2>3, <2>4
<1> QED BY <1>5, <1>6, <1>7, <1>8 DEF SerialInv

-----------------------------------------------------------------------------
LEMMA SerialStep ==
  BaseInv /\ SerialInv /\ Undisturbed /\ Undisturbed' /\ [Next]_vars => SerialInv'
<1> SUFFICES ASSUME BaseInv, SerialInv, Undisturbed, Undisturbed', [Next]_vars PROVE SerialInv'
  OBVIOUS
<1>1. ASSUME NEW d \in Docs, Work(d) \/ WorkFault(d) PROVE SerialInv'
  BY <1>1, SerialRun, SerialDiff, SerialStore
<1>2. CASE UNCHANGED vars
  <2>1. UNCHANGED <<chunks, rowVars, jobVars, runVars>>
    BY <1>2 DEF vars
  <2> QED BY <2>1, SerialKept
          DEF rowVars, jobVars, runVars, SerialInv, CompletedOnce, DiffsCurrent, Indexing, Alone
<1> QED BY <1>1, <1>2, SerialUpload, SerialDelete, SerialSweep DEF Next

\* As long as the versions of a file are processed one after the other, every diff is
\* current when it is stored.
THEOREM SerialInvariant == Spec /\ []Undisturbed => []SerialInv
BY SerialInit, SerialStep, BaseInvariant, PTL DEF Spec

\* As long as the versions of a file are processed one after the other, every chunk of the
\* latest version can be found, in its own rows or in those of older versions.
THEOREM LatestCorrect == Spec /\ []Undisturbed => []LatestSearchable
<1>1. SerialInv => LatestSearchable
  BY DEF SerialInv
<1> QED BY <1>1, SerialInvariant, PTL

\* As long as the versions of a file are processed one after the other, the rows of a
\* version that was replaced hold nothing that its successor lacks.
THEOREM SupersededCorrect == Spec /\ []Undisturbed => []SupersededCleared
<1>1. SerialInv => SupersededCleared
  BY DEF SerialInv
<1> QED BY <1>1, SerialInvariant, PTL

=============================================================================
