----------------------- MODULE DocumentPipelineProofs -----------------------
(***************************************************************************)
(* Proofs about DocumentPipeline, for any number of documents, versions,   *)
(* deliveries and workers, and under every fault.  The inductive invariant *)
(* IInv is proved in layers, each of which uses the ones before it:        *)
(*                                                                         *)
(*   TypeInv     types, and the previous version a diff is made against;   *)
(*   RowInv      which rows, jobs and runs exist together, and what the    *)
(*               cleanup holds;                                            *)
(*   CompletionsTimed                                                      *)
(*               which documents were ever completed;                      *)
(*   IndexInv    the chunk rows and the locals of the runs;                *)
(*   CoverInv    what can be found of the completed versions;              *)
(*   VersionInv  what a diff still covers of the previous version.         *)
(*                                                                         *)
(* The action properties CleanupSparesLive and DiffedVersionCleared and    *)
(* the refinement of DocumentLifecycle follow from these.                  *)
(***************************************************************************)
EXTENDS DocumentPipeline, TLAPS

\* All values stay in their types; for the lookup of the previous version's chunks this
\* needs to know that one was selected.
LEMMA TypeInit == Init => TypeInv
BY ConstantsAssumption
   DEF Init, TypeInv, TypeOK, SelectedHasPrevious, UploadStates, JobStates, RunStates,
       RemovalStates

LEMMA TypeUpload ==
  ASSUME TypeInv, NEW d \in Docs, Upload(d)
  PROVE  TypeInv'
<1> USE DEF TypeInv, TypeOK, SelectedHasPrevious, UploadStates, JobStates, Statuses, rowVars,
        jobVars, runVars, sweepVars, UploadStep
<1>1. CASE InsertRow(d)    BY <1>1 DEF InsertRow
<1>2. CASE PutObject(d)    BY <1>2 DEF PutObject
<1>3. CASE EnqueueJob(d)   BY <1>3 DEF EnqueueJob
<1>4. CASE EnqueueFails(d) BY <1>4 DEF EnqueueFails
<1>5. CASE CommitUpload(d) BY <1>5 DEF CommitUpload
<1>6. CASE AbortUpload(d)  BY <1>6 DEF AbortUpload
<1> QED BY <1>1, <1>2, <1>3, <1>4, <1>5, <1>6 DEF Upload

LEMMA TypeWork ==
  ASSUME TypeInv, NEW d \in Docs, Work(d)
  PROVE  TypeInv'
<1> USE ConstantsAssumption
    DEF TypeInv, TypeOK, SelectedHasPrevious, Statuses, JobStates, RunStates, rowVars, jobVars,
        runVars, sweepVars, RunStep, EndJob, LeaveRun, UpdateStatus
<1>1. CASE StartJob(d)       BY <1>1 DEF StartJob
<1>2. CASE GiveUpJob(d)      BY <1>2 DEF GiveUpJob
<1>3. CASE LoadDocument(d)   BY <1>3 DEF LoadDocument
<1>4. CASE FetchAndChunk(d)  BY <1>4 DEF FetchAndChunk
<1>5. CASE SelectPrevious(d)
  <2>1. PreviousVersions(d) \subseteq Docs
    BY DEF PreviousVersions
  <2>2. Content[d] \subseteq Chunks
    OBVIOUS
  <2>3. /\ pc' \in [Docs -> RunStates] /\ toAdd' \in [Docs -> SUBSET Chunks]
        /\ prev' \in [Docs -> Docs \cup {NoDoc}]
    BY <1>5, <2>1, <2>2 DEF SelectPrevious
  <2>4. \A e \in Docs : pc'[e] = "selected" => prev'[e] # NoDoc
    BY <1>5, <2>1 DEF SelectPrevious
  <2> QED BY <1>5, <2>3, <2>4 DEF SelectPrevious
<1>6. CASE ComputeDiff(d)    BY <1>6 DEF ComputeDiff, StaleChunks
<1>7. CASE StoreChunks(d)    BY <1>7 DEF StoreChunks
<1>8. CASE StoreRejected(d)  BY <1>8 DEF StoreRejected
<1>9. CASE FinishJob(d)      BY <1>9 DEF FinishJob
<1>10. CASE MarkFailed(d)    BY <1>10 DEF MarkFailed
<1> QED BY <1>1, <1>2, <1>3, <1>4, <1>5, <1>6, <1>7, <1>8, <1>9, <1>10 DEF Work

LEMMA TypeWorkFault ==
  ASSUME TypeInv, NEW d \in Docs, WorkFault(d)
  PROVE  TypeInv'
<1> USE DEF TypeInv, TypeOK, SelectedHasPrevious, JobStates, RunStates, rowVars, jobVars,
        runVars, sweepVars, EndJob, LeaveRun
<1>1. CASE RaiseInJob(d)  BY <1>1 DEF RaiseInJob
<1>2. CASE TimeoutJob(d)  BY <1>2 DEF TimeoutJob
<1>3. CASE CrashWorker(d) BY <1>3 DEF CrashWorker
<1>4. CASE LoseJob(d)     BY <1>4 DEF LoseJob
<1> QED BY <1>1, <1>2, <1>3, <1>4 DEF WorkFault

LEMMA TypeDelete ==
  ASSUME TypeInv, NEW d \in Docs, Delete(d) \/ GrowOld(d)
  PROVE  TypeInv'
<1> USE DEF TypeInv, TypeOK, SelectedHasPrevious, Statuses, RemovalStates, rowVars, jobVars,
        runVars, sweepVars, RemovalStep
<1>1. CASE FindDeleted(d)    BY <1>1 DEF FindDeleted
<1>2. CASE WipeDeleted(d)    BY <1>2 DEF WipeDeleted, WipeObject
<1>3. CASE CommitDelete(d)   BY <1>3 DEF CommitDelete, DropRows
<1>4. CASE RollbackDelete(d) BY <1>4 DEF RollbackDelete
<1>5. CASE GrowOld(d)        BY <1>5 DEF GrowOld
<1> QED BY <1>1, <1>2, <1>3, <1>4, <1>5 DEF Delete

LEMMA TypeSweep ==
  ASSUME TypeInv, Sweep
  PROVE  TypeInv'
<1> USE DEF TypeInv, TypeOK, SelectedHasPrevious, Statuses, rowVars, jobVars, runVars, sweepVars
<1>1. CASE SelectSwept   BY <1>1 DEF SelectSwept, Sweepable
<1>2. CASE CommitSweep   BY <1>2 DEF CommitSweep, DropRows
<1>3. CASE RollbackSweep BY <1>3 DEF RollbackSweep
<1>4. ASSUME NEW d \in Docs, WipeSwept(d) PROVE TypeInv'
  BY <1>4 DEF WipeSwept, WipeObject
<1> QED BY <1>1, <1>2, <1>3, <1>4 DEF Sweep

LEMMA TypeStep == TypeInv /\ [Next]_vars => TypeInv'
<1> SUFFICES ASSUME TypeInv, [Next]_vars PROVE TypeInv'
  OBVIOUS
<1>1. CASE UNCHANGED vars
  BY <1>1 DEF vars, TypeInv, TypeOK, SelectedHasPrevious, rowVars, jobVars, runVars, sweepVars
<1> QED BY <1>1, TypeUpload, TypeWork, TypeWorkFault, TypeDelete, TypeSweep DEF Next

LEMMA TypeInvariant == Spec => []TypeInv
BY TypeInit, TypeStep, PTL DEF Spec

\* Type correctness: every variable of the pipeline keeps its type, in particular a run
\* never looks up the chunks of a document that is none.
THEOREM TypeCorrect == Spec => []TypeOK
<1>1. TypeInv => TypeOK
  BY DEF TypeInv
<1> QED BY <1>1, TypeInvariant, PTL

-----------------------------------------------------------------------------
(***************************************************************************)
(* Rows, runs and the cleanup.                                             *)
(***************************************************************************)

LEMMA RowInit == Init => RowInv
BY DEF Init, RowInv, RowsCommitted, RunsExclusive, SweptStayFailed, InTry, JobGone, Closed

LEMMA RowUpload ==
  ASSUME TypeInv, RowInv, NEW d \in Docs, Upload(d)
  PROVE  RowInv'
<1> USE DEF TypeInv, TypeOK, RowInv, RowsCommitted, RunsExclusive, SweptStayFailed, InTry,
        JobGone, Closed, UploadStates, rowVars, jobVars, runVars, sweepVars, UploadStep
<1>1. CASE InsertRow(d)    BY <1>1 DEF InsertRow
<1>2. CASE PutObject(d)    BY <1>2 DEF PutObject
<1>3. CASE EnqueueJob(d)   BY <1>3 DEF EnqueueJob
<1>4. CASE EnqueueFails(d) BY <1>4 DEF EnqueueFails
<1>5. CASE CommitUpload(d) BY <1>5 DEF CommitUpload
<1>6. CASE AbortUpload(d)  BY <1>6 DEF AbortUpload
<1> QED BY <1>1, <1>2, <1>3, <1>4, <1>5, <1>6 DEF Upload

LEMMA RowWork ==
  ASSUME TypeInv, RowInv, NEW d \in Docs, Work(d)
  PROVE  RowInv'
<1> USE DEF TypeInv, TypeOK, RowInv, RowsCommitted, RunsExclusive, SweptStayFailed, InTry,
        JobGone, Closed, JobStates, RunStates, rowVars, jobVars, runVars, sweepVars, RunStep,
        EndJob, LeaveRun, UpdateStatus
<1>1. CASE StartJob(d)       BY <1>1 DEF StartJob
<1>2. CASE GiveUpJob(d)      BY <1>2 DEF GiveUpJob
<1>3. CASE LoadDocument(d)   BY <1>3 DEF LoadDocument
<1>4. CASE FetchAndChunk(d)  BY <1>4 DEF FetchAndChunk
<1>5. CASE SelectPrevious(d) BY <1>5 DEF SelectPrevious
<1>6. CASE ComputeDiff(d)    BY <1>6 DEF ComputeDiff
<1>7. CASE StoreChunks(d)    BY <1>7 DEF StoreChunks
<1>8. CASE StoreRejected(d)  BY <1>8 DEF StoreRejected
<1>9. CASE FinishJob(d)      BY <1>9 DEF FinishJob
<1>10. CASE MarkFailed(d)    BY <1>10 DEF MarkFailed
<1> QED BY <1>1, <1>2, <1>3, <1>4, <1>5, <1>6, <1>7, <1>8, <1>9, <1>10 DEF Work

LEMMA RowWorkFault ==
  ASSUME TypeInv, RowInv, NEW d \in Docs, WorkFault(d)
  PROVE  RowInv'
<1> USE DEF TypeInv, TypeOK, RowInv, RowsCommitted, RunsExclusive, SweptStayFailed, InTry,
        JobGone, Closed, JobStates, RunStates, rowVars, jobVars, runVars, sweepVars, EndJob,
        LeaveRun
<1>1. CASE RaiseInJob(d)  BY <1>1 DEF RaiseInJob
<1>2. CASE TimeoutJob(d)  BY <1>2 DEF TimeoutJob
<1>3. CASE CrashWorker(d) BY <1>3 DEF CrashWorker
<1>4. CASE LoseJob(d)     BY <1>4 DEF LoseJob
<1> QED BY <1>1, <1>2, <1>3, <1>4 DEF WorkFault

LEMMA RowDelete ==
  ASSUME TypeInv, RowInv, NEW d \in Docs, Delete(d) \/ GrowOld(d)
  PROVE  RowInv'
<1> USE DEF TypeInv, TypeOK, RowInv, RowsCommitted, RunsExclusive, SweptStayFailed, InTry,
        JobGone, Closed, rowVars, jobVars, runVars, sweepVars, RemovalStep
<1>1. CASE FindDeleted(d)    BY <1>1 DEF FindDeleted
<1>2. CASE WipeDeleted(d)    BY <1>2 DEF WipeDeleted
<1>3. CASE CommitDelete(d)   BY <1>3 DEF CommitDelete, DropRows
<1>4. CASE RollbackDelete(d) BY <1>4 DEF RollbackDelete
<1>5. CASE GrowOld(d)        BY <1>5 DEF GrowOld
<1> QED BY <1>1, <1>2, <1>3, <1>4, <1>5 DEF Delete

LEMMA RowSweep ==
  ASSUME TypeInv, RowInv, Sweep
  PROVE  RowInv'
<1> USE DEF TypeInv, TypeOK, RowInv, RowsCommitted, RunsExclusive, SweptStayFailed, InTry,
        JobGone, Closed, rowVars, jobVars, runVars, sweepVars
<1>1. CASE SelectSwept   BY <1>1 DEF SelectSwept, Sweepable
<1>2. CASE CommitSweep   BY <1>2 DEF CommitSweep, DropRows
<1>3. CASE RollbackSweep BY <1>3 DEF RollbackSweep
<1>4. ASSUME NEW d \in Docs, WipeSwept(d) PROVE RowInv'
  BY <1>4 DEF WipeSwept
<1> QED BY <1>1, <1>2, <1>3, <1>4 DEF Sweep

LEMMA RowStep == TypeInv /\ RowInv /\ [Next]_vars => RowInv'
<1> SUFFICES ASSUME TypeInv, RowInv, [Next]_vars PROVE RowInv'
  OBVIOUS
<1>1. CASE UNCHANGED vars
  BY <1>1 DEF vars, RowInv, RowsCommitted, RunsExclusive, SweptStayFailed, JobGone, Closed,
              rowVars, jobVars, runVars, sweepVars
<1> QED BY <1>1, RowUpload, RowWork, RowWorkFault, RowDelete, RowSweep DEF Next

LEMMA RowInvariant == Spec => []RowInv
BY RowInit, RowStep, TypeInvariant, PTL DEF Spec

\* The cleanup deletes failed documents only: whatever workers do between its query and
\* its commit, a live document disappears by its tenant's DELETE alone.
THEOREM CleanupCorrect == Spec => CleanupSparesLive
<1> DEFINE Spared == \A d \in Docs :
             status[d] \in {"pending", "processing", "completed"} /\ status'[d] = "absent"
               => removal[d] = "wiped"
<1>1. TypeInv /\ RowInv /\ [Next]_vars => [Spared]_vars
  <2> SUFFICES ASSUME TypeInv, RowInv, Next PROVE Spared
    OBVIOUS
  <2> USE DEF TypeInv, TypeOK, Statuses, rowVars
  <2>1. ASSUME NEW d \in Docs, Upload(d) PROVE Spared
    BY <2>1 DEF Upload, InsertRow, PutObject, EnqueueJob, EnqueueFails, CommitUpload,
                AbortUpload
  <2>2. ASSUME NEW d \in Docs, Work(d) PROVE Spared
    BY <2>2 DEF Work, StartJob, GiveUpJob, LoadDocument, FetchAndChunk, SelectPrevious,
                ComputeDiff, StoreChunks, StoreRejected, FinishJob, MarkFailed, UpdateStatus
  <2>3. ASSUME NEW d \in Docs, WorkFault(d) PROVE Spared
    BY <2>3 DEF WorkFault, RaiseInJob, TimeoutJob, CrashWorker, LoseJob
  <2>4. ASSUME NEW d \in Docs, Delete(d) \/ GrowOld(d) PROVE Spared
    BY <2>4 DEF Delete, FindDeleted, WipeDeleted, CommitDelete, RollbackDelete, GrowOld,
                DropRows, RemovalStep
  <2>5. CASE Sweep
    BY <2>5 DEF Sweep, SelectSwept, WipeSwept, CommitSweep, RollbackSweep, DropRows, RowInv,
                SweptStayFailed
  <2> QED BY <2>1, <2>2, <2>3, <2>4, <2>5 DEF Next
<1> QED BY <1>1, TypeInvariant, RowInvariant, PTL DEF Spec, CleanupSparesLive

-----------------------------------------------------------------------------
(***************************************************************************)
(* The pipeline implements DocumentLifecycle.                              *)
(***************************************************************************)

\* A step that leaves uploads and statuses alone does not move any document.
LEMMA PhaseStutters ==
  ASSUME UNCHANGED <<upload, status>>
  PROVE  UNCHANGED Phase
BY DEF Phase, Closed

\* A step that changes the status of an existing row moves that document alone.
LEMMA PhaseOfRow ==
  ASSUME TypeInv, NEW d \in Docs, NEW s \in Statuses, UNCHANGED upload,
         status' = UpdateStatus(d, s)
  PROVE  \/ UNCHANGED Phase
         \/ status[d] # "absent" /\ Phase[d] = status[d] /\ Phase' = [Phase EXCEPT ![d] = s]
BY DEF TypeInv, TypeOK, Phase, Closed, UpdateStatus, Statuses

LEMMA PhaseInit == Init => Lifecycle!Init
BY DEF Init, Lifecycle!Init, Phase, Closed

LEMMA PhaseUpload ==
  ASSUME TypeInv, RowInv, NEW d \in Docs, Upload(d)
  PROVE  [Lifecycle!Next]_Phase
<1> USE DEF TypeInv, TypeOK, RowInv, RowsCommitted, Phase, Closed, rowVars, UploadStep
<1>1. CASE InsertRow(d) \/ PutObject(d) \/ EnqueueJob(d) \/ EnqueueFails(d)
  <2>1. UNCHANGED Phase
    BY <1>1 DEF InsertRow, PutObject, EnqueueJob, EnqueueFails
  <2> QED BY <2>1
<1>2. CASE CommitUpload(d)
  <2>1. Lifecycle!Register(d)
    BY <1>2 DEF CommitUpload, Lifecycle!Register, Lifecycle!Move
  <2> QED BY <2>1 DEF Lifecycle!Next
<1>3. CASE AbortUpload(d)
  <2>1. Lifecycle!Abandon(d)
    BY <1>3 DEF AbortUpload, Lifecycle!Abandon, Lifecycle!Move
  <2> QED BY <2>1 DEF Lifecycle!Next
<1> QED BY <1>1, <1>2, <1>3 DEF Upload

LEMMA PhaseWork ==
  ASSUME TypeInv, RowInv, NEW d \in Docs, Work(d) \/ WorkFault(d)
  PROVE  [Lifecycle!Next]_Phase
<1> USE DEF rowVars
<1>1. CASE StartJob(d)
  <2>1. UNCHANGED Phase \/ Lifecycle!Begin(d)
    BY <1>1, PhaseOfRow DEF StartJob, Lifecycle!Begin, Lifecycle!Move, Lifecycle!Phases,
                            Statuses, TypeInv, TypeOK
  <2> QED BY <2>1 DEF Lifecycle!Next
<1>2. CASE StoreChunks(d)
  <2>1. status[d] \in {"absent", "pending", "processing"}
    BY <1>2 DEF StoreChunks, RunStep, RowInv, RunsExclusive, InTry
  <2>2. UNCHANGED Phase \/ Lifecycle!Complete(d)
    BY <1>2, <2>1, PhaseOfRow DEF StoreChunks, Lifecycle!Complete, Lifecycle!Move, Statuses
  <2> QED BY <2>2 DEF Lifecycle!Next
<1>3. CASE MarkFailed(d)
  <2>1. CASE UNCHANGED status
    BY <1>3, <2>1, PhaseStutters DEF MarkFailed
  <2>2. CASE status' = UpdateStatus(d, "failed")
    <3>1. CASE status[d] = "failed"
      <4>1. UNCHANGED status
        BY <2>2, <3>1 DEF UpdateStatus, TypeInv, TypeOK
      <4> QED BY <2>1, <4>1
    <3>2. CASE status[d] # "failed"
      <4>1. UNCHANGED Phase \/ Lifecycle!Fail(d)
        BY <1>3, <2>2, <3>2, PhaseOfRow
           DEF MarkFailed, Lifecycle!Fail, Lifecycle!Move, Statuses, TypeInv, TypeOK
      <4> QED BY <4>1 DEF Lifecycle!Next
    <3> QED BY <3>1, <3>2
  <2> QED BY <1>3, <2>1, <2>2 DEF MarkFailed
<1>4. CASE \/ GiveUpJob(d) \/ LoadDocument(d) \/ FetchAndChunk(d) \/ SelectPrevious(d)
           \/ ComputeDiff(d) \/ StoreRejected(d) \/ FinishJob(d) \/ WorkFault(d)
  BY <1>4, PhaseStutters
     DEF GiveUpJob, LoadDocument, FetchAndChunk, SelectPrevious, ComputeDiff, StoreRejected,
         FinishJob, WorkFault, RaiseInJob, TimeoutJob, CrashWorker, LoseJob
<1> QED BY <1>1, <1>2, <1>3, <1>4 DEF Work

\* The deletion of rows, one or several, is one Remove.
LEMMA PhaseRemove ==
  ASSUME TypeInv, RowInv, NEW D \in SUBSET Docs, DropRows(D), UNCHANGED upload,
         \A d \in D : Closed(d)
  PROVE  [Lifecycle!Next]_Phase
<1>1. Lifecycle!Remove(D)
  BY DEF Lifecycle!Remove, Phase, Closed, DropRows, TypeInv, TypeOK, Statuses
<1> QED BY <1>1 DEF Lifecycle!Next

LEMMA PhaseDelete ==
  ASSUME TypeInv, RowInv, NEW d \in Docs, Delete(d) \/ GrowOld(d)
  PROVE  [Lifecycle!Next]_Phase
<1>1. CASE CommitDelete(d)
  <2>1. Closed(d)
    BY <1>1 DEF CommitDelete, RemovalStep, RowInv, SweptStayFailed
  <2> QED BY <1>1, <2>1, PhaseRemove DEF CommitDelete
<1>2. CASE FindDeleted(d) \/ WipeDeleted(d) \/ RollbackDelete(d) \/ GrowOld(d)
  BY <1>2, PhaseStutters
     DEF FindDeleted, WipeDeleted, RollbackDelete, GrowOld, rowVars
<1> QED BY <1>1, <1>2 DEF Delete

LEMMA PhaseSweep ==
  ASSUME TypeInv, RowInv, Sweep
  PROVE  [Lifecycle!Next]_Phase
<1>1. CASE CommitSweep
  <2>1. \A d \in sweepDone : Closed(d)
    BY DEF RowInv, SweptStayFailed, TypeInv, TypeOK
  <2> QED BY <1>1, <2>1, PhaseRemove DEF CommitSweep, TypeInv, TypeOK
<1>2. CASE SelectSwept \/ RollbackSweep \/ \E d \in Docs : WipeSwept(d)
  BY <1>2, PhaseStutters DEF SelectSwept, RollbackSweep, WipeSwept, rowVars
<1> QED BY <1>1, <1>2 DEF Sweep

LEMMA PhaseStep == TypeInv /\ RowInv /\ [Next]_vars => [Lifecycle!Next]_Phase
<1> SUFFICES ASSUME TypeInv, RowInv, [Next]_vars PROVE [Lifecycle!Next]_Phase
  OBVIOUS
<1>1. CASE UNCHANGED vars
  BY <1>1, PhaseStutters DEF vars, rowVars
<1> QED BY <1>1, PhaseUpload, PhaseWork, PhaseDelete, PhaseSweep DEF Next

\* Every document goes through the phases of DocumentLifecycle only: rows do not come
\* back, a settled document leaves its state by a new run or a deletion only, and nothing
\* becomes pending twice.
THEOREM ImplementsLifecycle == Spec => FollowsLifecycle
BY PhaseInit, PhaseStep, TypeInvariant, RowInvariant, PTL
   DEF Spec, FollowsLifecycle, Lifecycle!Spec

-----------------------------------------------------------------------------
(***************************************************************************)
(* Chunks and diffs.                                                       *)
(***************************************************************************)

\* Only the transaction that stores the chunks completes a document, and gives it its time.
LEMMA TimeStep == TypeInv /\ RowInv /\ CompletionsTimed /\ [Next]_vars => CompletionsTimed'
<1> SUFFICES ASSUME TypeInv, RowInv, CompletionsTimed, [Next]_vars PROVE CompletionsTimed'
  OBVIOUS
<1> USE ConstantsAssumption
    DEF TypeInv, TypeOK, CompletionsTimed, Closed, rowVars, jobVars, runVars, sweepVars
<1>1. ASSUME NEW d \in Docs, Upload(d) PROVE CompletionsTimed'
  BY <1>1 DEF Upload, InsertRow, PutObject, EnqueueJob, EnqueueFails, CommitUpload, AbortUpload,
              UploadStep, UploadStates
<1>2. ASSUME NEW d \in Docs, Work(d) PROVE CompletionsTimed'
  <2>1. CASE StartJob(d) \/ MarkFailed(d)
    BY <2>1 DEF StartJob, MarkFailed, UpdateStatus, RunStep
  <2>2. CASE GiveUpJob(d) \/ FinishJob(d)
    BY <2>2 DEF GiveUpJob, FinishJob, EndJob, LeaveRun
  <2>3. CASE LoadDocument(d) \/ FetchAndChunk(d) \/ ComputeDiff(d) \/ StoreRejected(d)
    BY <2>3 DEF LoadDocument, FetchAndChunk, ComputeDiff, StoreRejected, RunStep
  <2>4. CASE SelectPrevious(d)
    <3>1. \A p \in PreviousVersions(d) : p \in Docs /\ status[p] = "completed"
      BY DEF PreviousVersions
    <3> QED BY <2>4, <3>1 DEF SelectPrevious
  <2>5. CASE StoreChunks(d)
    <3>1. status[d] # "absent" => Closed(d)
      BY DEF RowInv, RowsCommitted
    <3>2. /\ UNCHANGED <<upload, prev>>
          /\ status' = UpdateStatus(d, "completed")
          /\ processedAt' = [processedAt EXCEPT
               ![d] = IF status[d] = "absent" THEN @ ELSE clock + 1]
          /\ chunks' = [chunks EXCEPT ![d] = @ \cup toAdd[d]]
          /\ toAdd[d] # {} => status[d] # "absent"
      BY <2>5 DEF StoreChunks, StoreAllowed
    <3> QED BY <3>1, <3>2 DEF UpdateStatus
  <2> QED BY <1>2, <2>1, <2>2, <2>3, <2>4, <2>5 DEF Work
<1>3. ASSUME NEW d \in Docs, WorkFault(d) PROVE CompletionsTimed'
  BY <1>3 DEF WorkFault, RaiseInJob, TimeoutJob, CrashWorker, LoseJob, EndJob, LeaveRun
<1>4. ASSUME NEW d \in Docs, Delete(d) \/ GrowOld(d) PROVE CompletionsTimed'
  BY <1>4 DEF Delete, FindDeleted, WipeDeleted, CommitDelete, RollbackDelete, GrowOld, DropRows
<1>5. CASE Sweep
  BY <1>5 DEF Sweep, SelectSwept, WipeSwept, CommitSweep, RollbackSweep, DropRows
<1>6. CASE UNCHANGED vars
  BY <1>6 DEF vars
<1> QED BY <1>1, <1>2, <1>3, <1>4, <1>5, <1>6 DEF Next

LEMMA TimeInvariant == Spec => []CompletionsTimed
<1>1. Init => CompletionsTimed
  BY DEF Init, CompletionsTimed
<1> QED BY <1>1, TimeStep, TypeInvariant, RowInvariant, PTL DEF Spec

LEMMA IndexInit == Init => IndexInv
BY DEF Init, IndexInv, ChunksOwned, DiffsSound, FreshIndexedWhole, FirstCompletion, SameFile

\* A step that leaves the rows and the locals of all runs alone.
LEMMA IndexStutters ==
  ASSUME IndexInv, UNCHANGED <<status, chunks, processedAt, runVars>>
  PROVE  IndexInv'
BY DEF IndexInv, ChunksOwned, DiffsSound, FreshIndexedWhole, FirstCompletion, SameFile, runVars

\* The step that ends a run.
LEMMA IndexLeave ==
  ASSUME TypeInv, IndexInv, NEW d \in Docs, LeaveRun(d),
         UNCHANGED <<chunks, status, processedAt>>
  PROVE  IndexInv'
<1> USE DEF TypeInv, TypeOK, LeaveRun
<1>1. ChunksOwned'
  BY DEF IndexInv, ChunksOwned
<1>2. DiffsSound'
  BY DEF IndexInv, DiffsSound, SameFile
<1>3. FreshIndexedWhole'
  BY DEF IndexInv, FreshIndexedWhole, FirstCompletion, SameFile
<1> QED BY <1>1, <1>2, <1>3 DEF IndexInv

\* The step of a run that only moves it on, without a diff at hand afterwards.
LEMMA IndexMove ==
  ASSUME TypeInv, IndexInv, NEW d \in Docs, NEW s \in RunStates \ {"diffed"},
         pc' = [pc EXCEPT ![d] = s], UNCHANGED <<chunks, status, processedAt, prev, toAdd, toDelete>>,
         s \in {"off", "marked", "loaded", "chunked"} => prev[d] = NoDoc
  PROVE  IndexInv'
BY DEF TypeInv, TypeOK, IndexInv, ChunksOwned, DiffsSound, FreshIndexedWhole, FirstCompletion, SameFile

\* The transaction that stores a diff.
LEMMA IndexStore ==
  ASSUME TypeInv, RowInv, CompletionsTimed, IndexInv, NEW d \in Docs, StoreChunks(d)
  PROVE  IndexInv'
<1> USE ConstantsAssumption
    DEF TypeInv, TypeOK, StoreChunks, StoreAllowed, UpdateStatus, RunStep
<1>1. toAdd[d] \subseteq Content[d] /\ prev[d] # d
  BY DEF IndexInv, DiffsSound
<1>2. \A e \in Docs \ {d} : status'[e] = status[e] /\ pc'[e] = pc[e] /\ chunks'[e] = chunks[e]
  OBVIOUS
<1>3. chunks'[d] = chunks[d] \cup toAdd[d] /\ chunks[d] \subseteq Content[d]
  BY DEF IndexInv, ChunksOwned
<1>4. ChunksOwned'
  <2>1. chunks'[d] # {} => status'[d] = "completed"
    BY <1>3 DEF IndexInv, ChunksOwned
  <2>2. chunks'[d] \subseteq Content[d]
    BY <1>1, <1>3
  <2> QED BY <2>1, <2>2, <1>2 DEF IndexInv, ChunksOwned
<1>5. DiffsSound'
  <2>1. pc'[d] = "stored" /\ UNCHANGED <<toAdd, toDelete, prev>>
    OBVIOUS
  <2> QED BY <2>1, <1>2 DEF IndexInv, DiffsSound, SameFile
<1>6. FreshIndexedWhole'
  <2> SUFFICES ASSUME NEW e \in Docs, FirstCompletion(e)'
               PROVE  /\ chunks'[e] \in {{}, Content[e]}
                      /\ status'[e] = "completed" => chunks'[e] = Content[e]
    BY DEF FreshIndexedWhole
  <2>1. FirstCompletion(e)
    <3>1. \A o \in Docs : processedAt'[o] = 0 => processedAt[o] = 0
      OBVIOUS
    <3> QED BY <3>1 DEF FirstCompletion, SameFile
  <2>2. CASE e = d
    <3>1. prev[d] = NoDoc
      BY <2>1, <2>2 DEF FirstCompletion, CompletionsTimed, IndexInv, DiffsSound
    <3>2. toAdd[d] = Content[d]
      BY <3>1 DEF IndexInv, DiffsSound
    <3>3. chunks'[d] = Content[d]
      BY <3>2, <1>3
    <3> QED BY <3>3, <2>2
  <2>3. CASE e # d
    BY <2>1, <2>3, <1>2 DEF IndexInv, FreshIndexedWhole
  <2> QED BY <2>2, <2>3
<1> QED BY <1>4, <1>5, <1>6 DEF IndexInv

LEMMA IndexWork ==
  ASSUME TypeInv, RowInv, CompletionsTimed, IndexInv, NEW d \in Docs, Work(d)
  PROVE  IndexInv'
<1>1. CASE StartJob(d)
  <2>1. pc[d] = "off" /\ prev[d] = NoDoc
    BY <1>1 DEF StartJob, RowInv, RunsExclusive, IndexInv, DiffsSound
  <2> QED
    BY <1>1, <2>1 DEF StartJob, UpdateStatus, TypeInv, TypeOK, IndexInv, ChunksOwned,
                      DiffsSound, FreshIndexedWhole, FirstCompletion, SameFile
<1>2. CASE GiveUpJob(d) \/ FinishJob(d)
  BY <1>2, IndexLeave DEF GiveUpJob, FinishJob, EndJob, rowVars
<1>3. CASE MarkFailed(d)
  BY <1>3 DEF MarkFailed, RunStep, UpdateStatus, TypeInv, TypeOK, IndexInv, ChunksOwned,
              DiffsSound, FreshIndexedWhole, FirstCompletion, SameFile
<1>4. CASE LoadDocument(d) \/ FetchAndChunk(d) \/ StoreRejected(d)
  BY <1>4, IndexMove
     DEF LoadDocument, FetchAndChunk, StoreRejected, RunStep, RunStates, rowVars, IndexInv,
         DiffsSound
<1>5. CASE SelectPrevious(d)
  <2>1. \A p \in PreviousVersions(d) : p \in Docs /\ p # d /\ SameFile(d, p)
    BY DEF PreviousVersions, SameFile
  <2>2. UNCHANGED <<chunks, status, processedAt, toDelete>>
    BY <1>5 DEF SelectPrevious, rowVars
  <2>3. pc[d] = "chunked" /\ prev[d] = NoDoc
    BY <1>5 DEF SelectPrevious, RunStep, IndexInv, DiffsSound
  <2>4. DiffsSound'
    <3> USE DEF TypeInv, TypeOK, IndexInv, DiffsSound, SameFile
    <3>1. CASE PreviousVersions(d) = {} /\ pc' = [pc EXCEPT ![d] = "diffed"]
               /\ toAdd' = [toAdd EXCEPT ![d] = Content[d]] /\ UNCHANGED prev
      BY <2>2, <2>3, <3>1
    <3>2. CASE pc' = [pc EXCEPT ![d] = "selected"] /\ UNCHANGED toAdd
               /\ \E p \in PreviousVersions(d) : prev' = [prev EXCEPT ![d] = p]
      BY <2>1, <2>2, <3>2
    <3> QED BY <1>5, <3>1, <3>2 DEF SelectPrevious, RunStep
  <2> QED BY <2>2, <2>4 DEF IndexInv, ChunksOwned, FreshIndexedWhole, FirstCompletion, SameFile
<1>6. CASE ComputeDiff(d)
  <2>1. prev[d] # NoDoc
    BY <1>6 DEF ComputeDiff, RunStep, TypeInv, SelectedHasPrevious
  <2>2. UNCHANGED <<chunks, status, processedAt, prev>>
    BY <1>6 DEF ComputeDiff, rowVars
  <2>3. DiffsSound'
    BY <1>6, <2>1 DEF ComputeDiff, RunStep, StaleChunks, TypeInv, TypeOK, IndexInv, DiffsSound,
                      SameFile
  <2> QED BY <2>2, <2>3 DEF IndexInv, ChunksOwned, FreshIndexedWhole, FirstCompletion, SameFile
<1>7. CASE StoreChunks(d)
  BY <1>7, IndexStore
<1> QED BY <1>1, <1>2, <1>3, <1>4, <1>5, <1>6, <1>7 DEF Work

LEMMA IndexWorkFault ==
  ASSUME TypeInv, RowInv, IndexInv, NEW d \in Docs, WorkFault(d)
  PROVE  IndexInv'
<1>1. CASE RaiseInJob(d)
  BY <1>1, IndexMove DEF RaiseInJob, RunStates, rowVars
<1>2. CASE TimeoutJob(d) \/ CrashWorker(d) \/ LoseJob(d)
  BY <1>2, IndexLeave DEF TimeoutJob, CrashWorker, LoseJob, EndJob, rowVars
<1> QED BY <1>1, <1>2 DEF WorkFault

LEMMA IndexDrop ==
  ASSUME TypeInv, IndexInv, NEW D \in SUBSET Docs, DropRows(D),
         UNCHANGED <<processedAt, runVars>>
  PROVE  IndexInv'
BY DEF DropRows, TypeInv, TypeOK, IndexInv, ChunksOwned, DiffsSound, FreshIndexedWhole, FirstCompletion, SameFile,
       runVars

LEMMA IndexStep ==
  TypeInv /\ RowInv /\ CompletionsTimed /\ IndexInv /\ [Next]_vars => IndexInv'
<1> SUFFICES ASSUME TypeInv, RowInv, CompletionsTimed, IndexInv, [Next]_vars PROVE IndexInv'
  OBVIOUS
<1>1. ASSUME NEW d \in Docs, Upload(d) PROVE IndexInv'
  <2>1. CASE CommitUpload(d)
    <3>1. status[d] = "absent"
      BY <2>1 DEF CommitUpload, UploadStep, RowInv, RowsCommitted
    <3> QED BY <2>1, <3>1 DEF CommitUpload, TypeInv, TypeOK, IndexInv, ChunksOwned, DiffsSound,
                              FreshIndexedWhole, FirstCompletion, SameFile, runVars
  <2>2. CASE InsertRow(d) \/ PutObject(d) \/ EnqueueJob(d) \/ EnqueueFails(d) \/ AbortUpload(d)
    BY <2>2, IndexStutters DEF InsertRow, PutObject, EnqueueJob, EnqueueFails, AbortUpload, rowVars
  <2> QED BY <1>1, <2>1, <2>2 DEF Upload
<1>2. ASSUME NEW d \in Docs, Delete(d) \/ GrowOld(d) PROVE IndexInv'
  <2>1. CASE CommitDelete(d)
    BY <2>1, IndexDrop DEF CommitDelete
  <2>2. CASE FindDeleted(d) \/ WipeDeleted(d) \/ RollbackDelete(d) \/ GrowOld(d)
    BY <2>2, IndexStutters DEF FindDeleted, WipeDeleted, RollbackDelete, GrowOld, rowVars
  <2> QED BY <1>2, <2>1, <2>2 DEF Delete
<1>3. CASE Sweep
  <2>1. CASE CommitSweep
    BY <2>1, IndexDrop DEF CommitSweep, TypeInv, TypeOK
  <2>2. CASE SelectSwept \/ RollbackSweep \/ \E d \in Docs : WipeSwept(d)
    BY <2>2, IndexStutters DEF SelectSwept, RollbackSweep, WipeSwept, rowVars
  <2> QED BY <1>3, <2>1, <2>2 DEF Sweep
<1>4. CASE UNCHANGED vars
  BY <1>4, IndexStutters DEF vars, rowVars
<1> QED BY <1>1, <1>2, <1>3, <1>4, IndexWork, IndexWorkFault DEF Next

LEMMA IndexInvariant == Spec => []IndexInv
BY IndexInit, IndexStep, TypeInvariant, RowInvariant, TimeInvariant, PTL DEF Spec

\* No chunk rows without the document they belong to, and none that it does not contain.
THEOREM ChunksCorrect == Spec => []ChunksOwned
<1>1. IndexInv => ChunksOwned
  BY DEF IndexInv
<1> QED BY <1>1, IndexInvariant, PTL

\* Until another version of its file is completed, a document is indexed as a whole or not at
\* all, under every fault.
THEOREM FreshCorrect == Spec => []FreshIndexedWhole
<1>1. IndexInv => FreshIndexedWhole
  BY DEF IndexInv
<1> QED BY <1>1, IndexInvariant, PTL

-----------------------------------------------------------------------------
(***************************************************************************)
(* What can be found of the completed versions.                            *)
(***************************************************************************)

\* A step that completes nothing and hands no run a diff, and after which chunks are missing
\* only of documents that are gone.
LEMMA CoverKept ==
  ASSUME TypeInv, CompletionsTimed, IndexInv, CoverInv, UNCHANGED processedAt,
         \A x \in Docs : status'[x] = "completed" => status[x] = "completed",
         \A x \in Docs : status[x] = "absent" => processedAt[x] = 0 \/ status'[x] = "absent",
         \A x \in Docs : chunks[x] \subseteq chunks'[x] \/ status'[x] = "absent",
         \A x \in Docs : pc'[x] = "diffed" =>
           pc[x] = "diffed" /\ prev'[x] = prev[x] /\ toAdd'[x] = toAdd[x]
  PROVE  CoverInv'
<1> USE DEF TypeInv, TypeOK
<1>1. \A x \in Docs : Lost(x) => Lost(x)'
  BY DEF Lost
<1>2. \A x \in Docs : chunks[x] \subseteq chunks'[x] \/ Lost(x)'
  BY DEF Lost, CompletionsTimed
<1>3. DiffsCover'
  <2> SUFFICES ASSUME NEW x \in Docs, pc'[x] = "diffed", prev'[x] # NoDoc
               PROVE  \/ Content[x] \subseteq toAdd'[x] \cup chunks'[prev'[x]]
                      \/ processedAt'[prev'[x]] > 0 /\ status'[prev'[x]] = "absent"
    BY DEF DiffsCover, Lost
  <2>1. Content[x] \subseteq toAdd[x] \cup chunks[prev[x]] \/ Lost(prev[x])
    BY DEF CoverInv, DiffsCover
  <2>2. prev[x] \in Docs /\ prev'[x] = prev[x] /\ toAdd'[x] = toAdd[x]
    OBVIOUS
  <2>3. \/ Content[x] \subseteq toAdd[x] \cup chunks'[prev[x]]
        \/ processedAt'[prev[x]] > 0 /\ status'[prev[x]] = "absent"
    BY <2>1, <2>2, <1>1, <1>2 DEF Lost
  <2> QED BY <2>2, <2>3
<1>4. SearchableUntilLost'
  <2> SUFFICES ASSUME NEW x \in Docs, status'[x] = "completed",
                      \A e \in Docs : SameFile(x, e) => ~Lost(e)',
                      NEW k \in Content[x]
               PROVE  \E e \in Docs : SameFile(x, e) /\ k \in chunks'[e]
    BY DEF SearchableUntilLost, SameFile, Lost
  <2>1. \A e \in Docs : SameFile(x, e) => ~Lost(e) /\ chunks[e] \subseteq chunks'[e]
    BY <1>1, <1>2
  <2>2. \E e \in Docs : SameFile(x, e) /\ k \in chunks[e]
    BY <2>1 DEF CoverInv, SearchableUntilLost
  <2> QED BY <2>1, <2>2
<1> QED BY <1>3, <1>4 DEF CoverInv

\* The diff is made against the rows the previous version has now.
LEMMA CoverDiff ==
  ASSUME TypeInv, CoverInv, NEW d \in Docs, SelectPrevious(d) \/ ComputeDiff(d)
  PROVE  CoverInv'
<1> USE DEF TypeInv, TypeOK
<1>1. UNCHANGED <<chunks, status, processedAt>>
  BY DEF SelectPrevious, ComputeDiff, rowVars
<1>2. SearchableUntilLost'
  BY <1>1 DEF CoverInv, SearchableUntilLost, SameFile, Lost
<1>3. \A x \in Docs \ {d} : pc'[x] = pc[x] /\ prev'[x] = prev[x] /\ toAdd'[x] = toAdd[x]
  BY DEF SelectPrevious, ComputeDiff, RunStep
<1>4. pc'[d] = "diffed" /\ prev'[d] # NoDoc =>
        \/ prev'[d] = prev[d] /\ toAdd'[d] = Content[d] \ chunks[prev[d]]
        \/ toAdd'[d] = Content[d]
  BY DEF SelectPrevious, ComputeDiff, RunStep
<1>5. DiffsCover'
  BY <1>1, <1>3, <1>4 DEF CoverInv, DiffsCover, Lost
<1> QED BY <1>2, <1>5 DEF CoverInv

LEMMA CoverStore ==
  ASSUME TypeInv, RowInv, CompletionsTimed, IndexInv, CoverInv, NEW d \in Docs, StoreChunks(d)
  PROVE  CoverInv'
<1> USE ConstantsAssumption DEF TypeInv, TypeOK
<1>1. /\ pc[d] = "diffed" /\ pc' = [pc EXCEPT ![d] = "stored"] /\ UNCHANGED <<prev, toAdd>>
      /\ chunks' = [chunks EXCEPT ![d] = @ \cup toAdd[d]]
      /\ \A x \in Docs \ {d} : status'[x] = status[x] /\ processedAt'[x] = processedAt[x]
      /\ IF status[d] = "absent"
         THEN status'[d] = "absent" /\ processedAt'[d] = processedAt[d]
         ELSE status'[d] = "completed"
  BY DEF StoreChunks, RunStep, UpdateStatus
<1>2. \A x \in Docs : Lost(x)' = Lost(x)
  BY <1>1 DEF Lost
<1>3. \A x \in Docs : chunks[x] \subseteq chunks'[x]
  BY <1>1
<1>4. DiffsCover'
  BY <1>1, <1>2, <1>3 DEF CoverInv, DiffsCover
<1>5. SearchableUntilLost'
  <2> SUFFICES ASSUME NEW x \in Docs, status'[x] = "completed",
                      \A e \in Docs : SameFile(x, e) => ~Lost(e)',
                      NEW k \in Content[x]
               PROVE  \E e \in Docs : SameFile(x, e) /\ k \in chunks'[e]
    BY DEF SearchableUntilLost, SameFile, Lost
  <2>1. CASE x = d
    <3>1. CASE prev[d] = NoDoc
      <4>1. toAdd[d] = Content[d]
        BY <1>1, <3>1 DEF IndexInv, DiffsSound
      <4> QED BY <1>1, <2>1, <4>1 DEF SameFile
    <3>2. CASE prev[d] # NoDoc
      <4>1. prev[d] \in Docs /\ SameFile(d, prev[d])
        BY <3>2 DEF IndexInv, DiffsSound
      <4>2. Content[d] \subseteq toAdd[d] \cup chunks[prev[d]]
        BY <1>1, <1>2, <2>1, <3>2, <4>1 DEF CoverInv, DiffsCover
      <4> QED BY <1>1, <1>3, <2>1, <4>1, <4>2 DEF SameFile
    <3> QED BY <3>1, <3>2
  <2>2. CASE x # d
    BY <1>1, <1>2, <1>3, <2>2 DEF CoverInv, SearchableUntilLost
  <2> QED BY <2>1, <2>2
<1> QED BY <1>4, <1>5 DEF CoverInv

LEMMA CoverStep ==
  TypeInv /\ RowInv /\ CompletionsTimed /\ IndexInv /\ CoverInv /\ [Next]_vars => CoverInv'
<1> SUFFICES ASSUME TypeInv, RowInv, CompletionsTimed, IndexInv, CoverInv, [Next]_vars
             PROVE  CoverInv'
  OBVIOUS
<1> USE DEF TypeInv, TypeOK, rowVars, jobVars, runVars
<1>1. ASSUME NEW d \in Docs, Upload(d) PROVE CoverInv'
  <2>1. UNCHANGED <<chunks, processedAt, runVars>>
    BY <1>1 DEF Upload, InsertRow, PutObject, EnqueueJob, EnqueueFails, CommitUpload, AbortUpload
  <2>2. /\ \A x \in Docs \ {d} : status'[x] = status[x]
        /\ \/ status'[d] = status[d]
           \/ status'[d] = "pending" /\ ~Closed(d)
    BY <1>1 DEF Upload, InsertRow, PutObject, EnqueueJob, EnqueueFails, CommitUpload,
                AbortUpload, UploadStep, Closed
  <2>3. ~Closed(d) => processedAt[d] = 0
    BY DEF CompletionsTimed
  <2> QED BY <2>1, <2>2, <2>3, CoverKept
<1>2. ASSUME NEW d \in Docs, Work(d) PROVE CoverInv'
  <2>1. CASE SelectPrevious(d) \/ ComputeDiff(d)
    BY <2>1, CoverDiff
  <2>2. CASE StoreChunks(d)
    BY <2>2, CoverStore
  <2>3. CASE \/ StartJob(d) \/ GiveUpJob(d) \/ LoadDocument(d) \/ FetchAndChunk(d)
             \/ StoreRejected(d) \/ FinishJob(d) \/ MarkFailed(d)
    <3>1. UNCHANGED <<chunks, processedAt>>
      BY <2>3 DEF StartJob, GiveUpJob, LoadDocument, FetchAndChunk, StoreRejected, FinishJob,
                  MarkFailed
    <3>2. \A x \in Docs : /\ status'[x] = "completed" => status[x] = "completed"
                          /\ status[x] = "absent" => status'[x] = "absent"
      BY <2>3 DEF StartJob, GiveUpJob, LoadDocument, FetchAndChunk, StoreRejected, FinishJob,
                  MarkFailed, UpdateStatus
    <3>3. \A x \in Docs : pc'[x] = "diffed" =>
            pc[x] = "diffed" /\ prev'[x] = prev[x] /\ toAdd'[x] = toAdd[x]
      BY <2>3 DEF StartJob, GiveUpJob, LoadDocument, FetchAndChunk, StoreRejected, FinishJob,
                  MarkFailed, RunStep, EndJob, LeaveRun
    <3> QED BY <3>1, <3>2, <3>3, CoverKept
  <2> QED BY <1>2, <2>1, <2>2, <2>3 DEF Work
<1>3. ASSUME NEW d \in Docs, WorkFault(d) PROVE CoverInv'
  <2>1. UNCHANGED <<chunks, status, processedAt>>
    BY <1>3 DEF WorkFault, RaiseInJob, TimeoutJob, CrashWorker, LoseJob
  <2>2. \A x \in Docs : pc'[x] = "diffed" =>
          pc[x] = "diffed" /\ prev'[x] = prev[x] /\ toAdd'[x] = toAdd[x]
    BY <1>3 DEF WorkFault, RaiseInJob, TimeoutJob, CrashWorker, LoseJob, EndJob, LeaveRun
  <2> QED BY <2>1, <2>2, CoverKept
<1>4. ASSUME NEW d \in Docs, Delete(d) \/ GrowOld(d) PROVE CoverInv'
  <2>1. UNCHANGED <<processedAt, runVars>>
    BY <1>4 DEF Delete, FindDeleted, WipeDeleted, CommitDelete, RollbackDelete, GrowOld
  <2>2. \A x \in Docs : \/ status'[x] = status[x] /\ chunks'[x] = chunks[x]
                        \/ status'[x] = "absent"
    BY <1>4 DEF Delete, FindDeleted, WipeDeleted, CommitDelete, RollbackDelete, GrowOld, DropRows
  <2> QED BY <2>1, <2>2, CoverKept
<1>5. CASE Sweep
  <2>1. UNCHANGED <<processedAt, runVars>>
    BY <1>5 DEF Sweep, SelectSwept, WipeSwept, CommitSweep, RollbackSweep
  <2>2. \A x \in Docs : \/ status'[x] = status[x] /\ chunks'[x] = chunks[x]
                        \/ status'[x] = "absent"
    BY <1>5 DEF Sweep, SelectSwept, WipeSwept, CommitSweep, RollbackSweep, DropRows
  <2> QED BY <2>1, <2>2, CoverKept
<1>6. CASE UNCHANGED vars
  BY <1>6, CoverKept DEF vars
<1> QED BY <1>1, <1>2, <1>3, <1>4, <1>5, <1>6 DEF Next

LEMMA CoverInvariant == Spec => []CoverInv
<1>1. Init => CoverInv
  BY DEF Init, CoverInv, DiffsCover, SearchableUntilLost
<1> QED BY <1>1, CoverStep, TypeInvariant, RowInvariant, TimeInvariant, IndexInvariant, PTL DEF Spec

\* Every chunk of a completed version can be found in the rows of its file until one of the
\* versions of the file is deleted, under every fault and in every order of the jobs.
THEOREM SearchableCorrect == Spec => []SearchableUntilLost
<1>1. CoverInv => SearchableUntilLost
  BY DEF CoverInv
<1> QED BY <1>1, CoverInvariant, PTL

-----------------------------------------------------------------------------
(***************************************************************************)
(* Versions.                                                               *)
(***************************************************************************)

VersionInv == TakenUp /\ VersionsSettled

LEMMA VersionInit == Init => VersionInv
BY DEF Init, VersionInv, TakenUp, VersionsSettled

LEMMA VersionStutters ==
  ASSUME VersionInv, UNCHANGED <<status, chunks, jobVars, runVars>>
  PROVE  VersionInv'
BY DEF VersionInv, TakenUp, VersionsSettled, jobVars, runVars

\* The step that ends a run without completing the document.
LEMMA VersionLeave ==
  ASSUME TypeInv, VersionInv, NEW d \in Docs, LeaveRun(d), UNCHANGED <<chunks, tries>>,
         NEW s \in {"queued", "done"}, job' = [job EXCEPT ![d] = s],
         UNCHANGED status
  PROVE  VersionInv'
<1> USE DEF TypeInv, TypeOK, LeaveRun
<1>1. TakenUp'
  BY DEF VersionInv, TakenUp
<1>2. VersionsSettled'
  BY DEF VersionInv, VersionsSettled
<1> QED BY <1>1, <1>2 DEF VersionInv

\* The step of a run that moves it on: from where it might still store chunks, or into the
\* except handler.
LEMMA VersionMove ==
  ASSUME TypeInv, VersionInv, NEW d \in Docs, NEW s \in RunStates \ {"diffed"},
         pc' = [pc EXCEPT ![d] = s],
         s = "raised" \/ pc[d] \notin {"off", "stored", "raised", "reported"},
         UNCHANGED <<chunks, status, jobVars, prev, toDelete>>
  PROVE  VersionInv'
<1>1. TakenUp'
  BY DEF VersionInv, TakenUp, jobVars
<1>2. VersionsSettled'
  BY DEF TypeInv, TypeOK, VersionInv, VersionsSettled, jobVars
<1> QED BY <1>1, <1>2 DEF VersionInv

\* No run has a document as its previous version that is about to store chunks in its
\* first delivery.
LEMMA NotPrevious ==
  ASSUME VersionInv, NEW d \in Docs, NEW e \in Docs, prev[e] = d, d # NoDoc, tries[d] = 1
  PROVE  pc[d] \in {"off", "stored", "raised", "reported"}
BY DEF VersionInv, VersionsSettled

LEMMA VersionStore ==
  ASSUME TypeInv, RowInv, IndexInv, VersionInv, NEW d \in Docs, StoreChunks(d)
  PROVE  VersionInv'
<1> USE ConstantsAssumption DEF TypeInv, TypeOK, rowVars, jobVars
<1>1. job[d] = "running" /\ pc[d] = "diffed" /\ pc' = [pc EXCEPT ![d] = "stored"]
  BY DEF StoreChunks, RunStep, RowInv, RunsExclusive
<1>2. UNCHANGED <<jobVars, prev>>
  BY DEF StoreChunks
<1>3. TakenUp'
  BY <1>1, <1>2 DEF StoreChunks, UpdateStatus, VersionInv, TakenUp
<1>4. VersionsSettled'
  <2> SUFFICES ASSUME NEW e \in Docs, prev[e] # NoDoc, tries[prev[e]] = 1
               PROVE  /\ pc'[prev[e]] \in {"off", "stored", "raised", "reported"}
                      /\ pc'[e] = "diffed" => chunks'[prev[e]] \subseteq Content[e] \cup toDelete'[e]
    BY <1>2 DEF VersionsSettled
  <2>1. prev[e] # d
    BY <1>1, NotPrevious
  <2>2. chunks'[prev[e]] = chunks[prev[e]] /\ toDelete'[e] = toDelete[e]
    BY <2>1 DEF StoreChunks
  <2>3. /\ pc[prev[e]] \in {"off", "stored", "raised", "reported"}
        /\ pc[e] = "diffed" => chunks[prev[e]] \subseteq Content[e] \cup toDelete[e]
    BY DEF VersionInv, VersionsSettled
  <2> QED BY <1>1, <2>1, <2>2, <2>3
<1> QED BY <1>3, <1>4 DEF VersionInv

LEMMA VersionWork ==
  ASSUME TypeInv, RowInv, IndexInv, VersionInv, NEW d \in Docs, Work(d)
  PROVE  VersionInv'
<1>1. CASE StartJob(d)
  <2> USE ConstantsAssumption DEF StartJob, UpdateStatus, TypeInv, TypeOK
  <2>1. TakenUp'
    BY <1>1 DEF VersionInv, TakenUp
  <2>2. VersionsSettled'
    <3> SUFFICES ASSUME NEW e \in Docs, prev[e] # NoDoc, tries'[prev[e]] = 1
                 PROVE  /\ pc'[prev[e]] \in {"off", "stored", "raised", "reported"}
                        /\ pc'[e] = "diffed"
                             => chunks'[prev[e]] \subseteq Content[e] \cup toDelete'[e]
      BY <1>1 DEF VersionsSettled
    <3>1. prev[e] # d
      BY <1>1 DEF VersionInv, TakenUp
    <3> QED BY <1>1, <3>1 DEF VersionInv, VersionsSettled
  <2> QED BY <2>1, <2>2 DEF VersionInv
<1>2. CASE GiveUpJob(d) \/ FinishJob(d)
  BY <1>2, VersionLeave DEF GiveUpJob, FinishJob, EndJob, rowVars
<1>3. CASE MarkFailed(d)
  BY <1>3 DEF MarkFailed, RunStep, UpdateStatus, TypeInv, TypeOK, VersionInv, TakenUp,
              VersionsSettled, jobVars
<1>4. CASE LoadDocument(d) \/ FetchAndChunk(d) \/ StoreRejected(d)
  BY <1>4, VersionMove
     DEF LoadDocument, FetchAndChunk, StoreRejected, RunStep, RunStates, rowVars
<1>5. CASE SelectPrevious(d)
  <2> USE ConstantsAssumption DEF TypeInv, TypeOK
  <2>1. \A p \in PreviousVersions(d) : p \in Docs \ {d} /\ status[p] = "completed"
    BY DEF PreviousVersions
  <2>2. \A p \in PreviousVersions(d) :
           tries[p] >= 1 /\ pc[p] \in {"off", "stored", "raised", "reported"}
    BY <2>1 DEF RowInv, RunsExclusive, InTry, RunStates, VersionInv, TakenUp
  <2>3. pc[d] = "chunked" /\ prev[d] = NoDoc
    BY <1>5 DEF SelectPrevious, RunStep, IndexInv, DiffsSound
  <2>4. UNCHANGED <<chunks, status, jobVars, toDelete>>
    BY <1>5 DEF SelectPrevious, rowVars
  <2>5. \/ pc' = [pc EXCEPT ![d] = "diffed"] /\ UNCHANGED prev
        \/ /\ pc' = [pc EXCEPT ![d] = "selected"]
           /\ \E p \in PreviousVersions(d) : prev' = [prev EXCEPT ![d] = p]
    BY <1>5 DEF SelectPrevious, RunStep
  <2>6. TakenUp'
    BY <2>1, <2>2, <2>4, <2>5 DEF VersionInv, TakenUp, jobVars
  <2>7. VersionsSettled'
    <3>1. ASSUME NEW e \in Docs, e # d, prev'[e] # NoDoc, tries'[prev'[e]] = 1
          PROVE  /\ pc'[prev'[e]] \in {"off", "stored", "raised", "reported"}
                 /\ pc'[e] = "diffed" => chunks'[prev'[e]] \subseteq Content[e] \cup toDelete'[e]
      <4>1. prev'[e] = prev[e] /\ pc'[e] = pc[e] /\ tries' = tries
        BY <2>4, <2>5, <3>1 DEF jobVars
      <4>2. prev[e] # d
        BY <4>1, <3>1, <2>3, NotPrevious
      <4> QED BY <4>1, <4>2, <3>1, <2>4, <2>5 DEF VersionInv, VersionsSettled
    <3>2. prev'[d] # NoDoc => pc'[d] = "selected" /\ prev'[d] \in PreviousVersions(d)
      BY <2>1, <2>3, <2>5
    <3>3. \A p \in PreviousVersions(d) : pc'[p] = pc[p]
      BY <2>1, <2>5
    <3> QED BY <3>1, <3>2, <3>3, <2>2 DEF VersionsSettled
  <2> QED BY <2>6, <2>7 DEF VersionInv
<1>6. CASE ComputeDiff(d)
  <2> USE ConstantsAssumption DEF TypeInv, TypeOK
  <2>1. UNCHANGED <<chunks, status, jobVars, prev>>
    BY <1>6 DEF ComputeDiff, rowVars
  <2>2. pc[d] = "selected" /\ pc' = [pc EXCEPT ![d] = "diffed"]
    BY <1>6 DEF ComputeDiff, RunStep
  <2>3. toDelete' = [toDelete EXCEPT ![d] = chunks[prev[d]] \ Content[d]]
    BY <1>6 DEF ComputeDiff, StaleChunks
  <2>4. TakenUp'
    BY <2>1 DEF VersionInv, TakenUp, jobVars
  <2>5. VersionsSettled'
    <3> SUFFICES ASSUME NEW e \in Docs, prev[e] # NoDoc, tries[prev[e]] = 1
                 PROVE  /\ pc'[prev[e]] \in {"off", "stored", "raised", "reported"}
                        /\ pc'[e] = "diffed"
                             => chunks[prev[e]] \subseteq Content[e] \cup toDelete'[e]
      BY <2>1 DEF VersionsSettled, jobVars
    <3>1. prev[e] # d
      BY <2>2, NotPrevious
    <3> QED BY <2>2, <2>3, <3>1 DEF VersionInv, VersionsSettled
  <2> QED BY <2>4, <2>5 DEF VersionInv
<1>7. CASE StoreChunks(d)
  BY <1>7, VersionStore
<1> QED BY <1>1, <1>2, <1>3, <1>4, <1>5, <1>6, <1>7 DEF Work

LEMMA VersionWorkFault ==
  ASSUME TypeInv, VersionInv, NEW d \in Docs, WorkFault(d)
  PROVE  VersionInv'
<1>1. CASE RaiseInJob(d)
  BY <1>1, VersionMove DEF RaiseInJob, RunStates, rowVars
<1>2. CASE TimeoutJob(d) \/ CrashWorker(d) \/ LoseJob(d)
  BY <1>2, VersionLeave DEF TimeoutJob, CrashWorker, LoseJob, EndJob, rowVars
<1> QED BY <1>1, <1>2 DEF WorkFault

LEMMA VersionDrop ==
  ASSUME TypeInv, VersionInv, NEW D \in SUBSET Docs, DropRows(D), UNCHANGED <<jobVars, runVars>>
  PROVE  VersionInv'
<1>1. \A d \in Docs : chunks'[d] \subseteq chunks[d]
  BY DEF DropRows
<1>2. \A d \in Docs : status'[d] = "completed" => status[d] = "completed"
  BY DEF DropRows
<1>3. TakenUp'
  BY <1>2 DEF VersionInv, TakenUp, jobVars, runVars
<1>4. VersionsSettled'
  BY <1>1 DEF VersionInv, VersionsSettled, jobVars, runVars, TypeInv, TypeOK
<1> QED BY <1>3, <1>4 DEF VersionInv

LEMMA VersionStep == TypeInv /\ RowInv /\ IndexInv /\ VersionInv /\ [Next]_vars => VersionInv'
<1> SUFFICES ASSUME TypeInv, RowInv, IndexInv, VersionInv, [Next]_vars PROVE VersionInv'
  OBVIOUS
<1>1. ASSUME NEW d \in Docs, Upload(d) PROVE VersionInv'
  <2>1. CASE CommitUpload(d)
    BY <2>1 DEF CommitUpload, TypeInv, TypeOK, VersionInv, TakenUp, VersionsSettled, jobVars,
                runVars
  <2>2. CASE EnqueueJob(d)
    BY <2>2 DEF EnqueueJob, TypeInv, TypeOK, VersionInv, TakenUp, VersionsSettled, rowVars,
                runVars
  <2>3. CASE InsertRow(d) \/ PutObject(d) \/ EnqueueFails(d) \/ AbortUpload(d)
    BY <2>3, VersionStutters DEF InsertRow, PutObject, EnqueueFails, AbortUpload, rowVars
  <2> QED BY <1>1, <2>1, <2>2, <2>3 DEF Upload
<1>2. ASSUME NEW d \in Docs, Delete(d) \/ GrowOld(d) PROVE VersionInv'
  <2>1. CASE CommitDelete(d)
    BY <2>1, VersionDrop DEF CommitDelete
  <2>2. CASE FindDeleted(d) \/ WipeDeleted(d) \/ RollbackDelete(d) \/ GrowOld(d)
    BY <2>2, VersionStutters DEF FindDeleted, WipeDeleted, RollbackDelete, GrowOld, rowVars
  <2> QED BY <1>2, <2>1, <2>2 DEF Delete
<1>3. CASE Sweep
  <2>1. CASE CommitSweep
    BY <2>1, VersionDrop DEF CommitSweep, TypeInv, TypeOK
  <2>2. CASE SelectSwept \/ RollbackSweep \/ \E d \in Docs : WipeSwept(d)
    BY <2>2, VersionStutters DEF SelectSwept, RollbackSweep, WipeSwept, rowVars
  <2> QED BY <1>3, <2>1, <2>2 DEF Sweep
<1>4. CASE UNCHANGED vars
  BY <1>4, VersionStutters DEF vars, rowVars
<1> QED BY <1>1, <1>2, <1>3, <1>4, VersionWork, VersionWorkFault DEF Next

LEMMA VersionInvariant == Spec => []VersionInv
BY VersionInit, VersionStep, TypeInvariant, RowInvariant, IndexInvariant, PTL DEF Spec

\* The invariant the runs check is inductive, and holds in every reachable state.
THEOREM InductiveInvariant == Spec => []IInv
<1>1. TypeInv /\ RowInv /\ CompletionsTimed /\ IndexInv /\ CoverInv /\ VersionInv => IInv
  BY DEF IInv, VersionInv
<1> QED BY <1>1, TypeInvariant, RowInvariant, TimeInvariant, IndexInvariant, CoverInvariant,
           VersionInvariant, PTL

\* Storing a new version clears the version it was compared with of all chunks the new
\* one lacks, unless that version's job was delivered more than once.
THEOREM DiffsCorrect == Spec => DiffedVersionCleared
<1> DEFINE Cleared == \A d \in Docs :
             pc[d] = "diffed" /\ pc'[d] = "stored" /\ prev[d] # NoDoc
               => tries[prev[d]] # 1 \/ chunks'[prev[d]] \subseteq Content[d]
<1>1. TypeInv /\ IndexInv /\ VersionInv /\ [Next]_vars => [Cleared]_vars
  <2> SUFFICES ASSUME TypeInv, IndexInv, VersionInv, Next,
                      NEW d \in Docs, pc[d] = "diffed", pc'[d] = "stored", prev[d] # NoDoc,
                      tries[prev[d]] = 1
               PROVE  chunks'[prev[d]] \subseteq Content[d]
    OBVIOUS
  <2>1. StoreChunks(d)
    <3> USE DEF TypeInv, TypeOK, runVars
    <3>1. ASSUME NEW e \in Docs, Upload(e) \/ Delete(e) \/ GrowOld(e) PROVE FALSE
      BY <3>1 DEF Upload, InsertRow, PutObject, EnqueueJob, EnqueueFails, CommitUpload,
                  AbortUpload, Delete, FindDeleted, WipeDeleted, CommitDelete, RollbackDelete,
                  GrowOld
    <3>2. ASSUME NEW e \in Docs, WorkFault(e) PROVE FALSE
      BY <3>2 DEF WorkFault, RaiseInJob, TimeoutJob, CrashWorker, LoseJob, EndJob, LeaveRun
    <3>3. CASE Sweep
      BY <3>3 DEF Sweep, SelectSwept, WipeSwept, CommitSweep, RollbackSweep
    <3>4. ASSUME NEW e \in Docs, Work(e) PROVE StoreChunks(d)
      <4>1. CASE StoreChunks(e)
        <5>1. e = d
          BY <4>1 DEF StoreChunks, RunStep
        <5> QED BY <4>1, <5>1
      <4>2. CASE StartJob(e) \/ GiveUpJob(e) \/ FinishJob(e)
        BY <4>2 DEF StartJob, GiveUpJob, FinishJob, EndJob, LeaveRun
      <4>3. CASE \/ LoadDocument(e) \/ FetchAndChunk(e) \/ SelectPrevious(e) \/ ComputeDiff(e)
                 \/ StoreRejected(e) \/ MarkFailed(e)
        BY <4>3 DEF LoadDocument, FetchAndChunk, SelectPrevious, ComputeDiff, StoreRejected,
                    MarkFailed, RunStep
      <4> QED BY <3>4, <4>1, <4>2, <4>3 DEF Work
    <3> QED BY <3>1, <3>2, <3>3, <3>4 DEF Next
  <2>2. chunks[prev[d]] \subseteq Content[d] \cup toDelete[d]
    BY DEF VersionInv, VersionsSettled
  <2>3. prev[d] \in Docs /\ prev[d] # d
    BY DEF TypeInv, TypeOK, IndexInv, DiffsSound
  <2>4. chunks'[prev[d]] = chunks[prev[d]] /\ toDelete[d] = {}
    BY <2>1, <2>3 DEF StoreChunks, StoreAllowed
  <2> QED BY <2>2, <2>4
<1> QED BY <1>1, TypeInvariant, IndexInvariant, VersionInvariant, PTL
        DEF Spec, DiffedVersionCleared
=============================================================================
