------------------------ MODULE UploadAdmissionProofs ------------------------
(***************************************************************************)
(* Proofs about UploadAdmission, for any plan, any files and any number of *)
(* requests: the document limit is overshot by no more than the files of   *)
(* the requests that run at the same time, the storage limit by less than  *)
(* one limit for each of them, a file gets in no more than once for each,  *)
(* and a batch is reported as its documents are.  What open requests will  *)
(* still commit is reserved: room for a batch (RoomForAdmitted), a place   *)
(* for a copy (CopiesReserved), bytes (BytesReserved).                     *)
(***************************************************************************)
EXTENDS UploadAdmission, FiniteSetTheorems, TLAPS

-----------------------------------------------------------------------------
(***************************************************************************)
(* Finite sets and their sizes.                                            *)
(***************************************************************************)

LEMMA LengthsAreNaturals ==
  ASSUME NEW r \in Requests
  PROVE  Len(Files[r]) \in Nat
  BY AdmissionAssumption

LEMMA FilesCounted ==
  ASSUME NEW r \in Requests
  PROVE  /\ IsFiniteSet(1 .. Len(Files[r]))
         /\ Cardinality(1 .. Len(Files[r])) = Len(Files[r])
<1> DEFINE n == Len(Files[r])
<1>1. n \in Nat
  BY LengthsAreNaturals
<1> HIDE DEF n
<1>2. /\ IsFiniteSet(1 .. n)
      /\ Cardinality(1 .. n) = IF 1 > n THEN 0 ELSE n - 1 + 1
  BY <1>1, FS_Interval
<1>3. IsFiniteSet(1 .. n) /\ Cardinality(1 .. n) = n
  BY <1>1, <1>2
<1>. QED BY <1>3 DEF n

\* Finitely many requests carry finitely many documents.
LEMMA DocsFinite == IsFiniteSet(Docs)
<1> DEFINE DocsOf == [r \in Requests |-> {r} \X (1 .. Len(Files[r]))]
           Parts  == {DocsOf[r] : r \in Requests}
<1>1. ASSUME NEW r \in Requests PROVE IsFiniteSet(DocsOf[r])
  <2>1. IsFiniteSet({r})
    BY FS_Singleton
  <2>2. IsFiniteSet(1 .. Len(Files[r]))
    BY FilesCounted
  <2>. QED BY <2>1, <2>2, FS_Product
<1>2. IsFiniteSet(Parts)
  <2>1. DocsOf \in Surjection(Requests, Parts)
    BY DEF Surjection
  <2>. QED BY <2>1, FS_Surjection, AdmissionAssumption
<1>3. Docs = UNION Parts
  BY DEF Docs
<1>. QED BY <1>1, <1>2, <1>3, FS_UNION

\* What is committed, visible or flushed is finite, and so are the requests at work.
LEMMA SetsFinite ==
  /\ IsFiniteSet(Committed) /\ Cardinality(Committed) \in Nat
  /\ IsFiniteSet(Admitted) /\ Cardinality(Admitted) \in Nat
  /\ IsFiniteSet(Open) /\ Cardinality(Open) \in Nat
  /\ \A r \in Requests : IsFiniteSet(Own(r)) /\ IsFiniteSet(Visible(r))
<1>1. /\ Committed \in SUBSET Docs
      /\ Admitted \in SUBSET Requests
      /\ Open \in SUBSET Requests
      /\ \A r \in Requests : Own(r) \in SUBSET Docs /\ Visible(r) \in SUBSET Docs
  BY DEF Committed, Admitted, Open, Own, Visible
<1>. QED BY <1>1, DocsFinite, AdmissionAssumption, FS_Subset, FS_CardinalityType

\* A request flushes no more rows than it has files.
LEMMA OwnSize ==
  ASSUME NEW r \in Requests
  PROVE  Cardinality(Own(r)) <= Len(Files[r])
<1> DEFINE D == {r} \X (1 .. Len(Files[r]))
<1>1. IsFiniteSet(D) /\ Cardinality(D) = Len(Files[r])
  <2>1. IsFiniteSet({r}) /\ Cardinality({r}) = 1
    BY FS_Singleton
  <2> DEFINE T == 1 .. Len(Files[r])
  <2>2. IsFiniteSet(T) /\ Cardinality(T) = Len(Files[r])
    BY FilesCounted
  <2>3. D = {r} \X T
    OBVIOUS
  <2> HIDE DEF T, D
  <2>4. IsFiniteSet(D) /\ Cardinality(D) = Cardinality({r}) * Cardinality(T)
    BY <2>1, <2>2, <2>3, FS_Product
  <2>. QED BY <2>1, <2>2, <2>4, LengthsAreNaturals
<1>2. Own(r) \in SUBSET D
  BY DEF Own, Docs
<1>. QED BY <1>1, <1>2, FS_Subset

LEMMA ScaleMonotone ==
  ASSUME NEW k \in Nat, NEW m \in Nat, NEW n \in Nat, m <= n
  PROVE  k * m <= k * n
<1>1. PICK i \in Nat : n = m + i
  BY n - m \in Nat, n = m + (n - m)
<1>2. k * n = k * m + k * i /\ k * i \in Nat /\ k * m \in Nat
  BY <1>1
<1>. QED BY <1>2

-----------------------------------------------------------------------------
LEMMA StepTyped ==
  ASSUME TypeOK, [Next]_vars
  PROVE  TypeOK'
<1> USE DEF TypeOK
<1>1. ASSUME NEW r \in Requests, Admit(r) PROVE TypeOK'
  <2> USE DEF Working, Answers, Go, SkipFile, docVars
  <2>1. CASE Receive(r)
    BY <2>1 DEF Receive
  <2>2. CASE CheckDuplicate(r)
    BY <2>2 DEF CheckDuplicate
  <2>3. CASE CheckDocuments(r)
    BY <2>3 DEF CheckDocuments
  <2>4. CASE CheckStorage(r)
    BY <2>4 DEF CheckStorage
  <2>5. CASE InsertDocument(r)
    <3>1. row' \in [Docs -> {"absent", "flushed", "gone"} \cup Statuses]
      BY <2>5 DEF InsertDocument
    <3>2. pc' \in [Requests -> {"idle"} \cup Working \cup Answers] /\ at' \in [Requests -> Nat]
      BY <2>5 DEF InsertDocument
    <3>. QED BY <2>5, <3>1, <3>2 DEF InsertDocument
  <2>6. CASE RecordBatch(r)
    BY <2>6 DEF RecordBatch
  <2>7. CASE Enqueue(r)
    BY <2>7 DEF Enqueue, Own
  <2>8. CASE CommitRequest(r)
    BY <2>8 DEF CommitRequest, Statuses
  <2>9. CASE AbortRequest(r)
    BY <2>9 DEF AbortRequest
  <2>. QED
    BY <1>1, <2>1, <2>2, <2>3, <2>4, <2>5, <2>6, <2>7, <2>8, <2>9 DEF Admit
<1>2. ASSUME NEW x \in Docs, Live(x) PROVE TypeOK'
  BY <1>2 DEF Live, BeginRun, CompleteRun, FailRun, DeleteDocument, SetStatus, Statuses
<1>3. CASE UNCHANGED vars
  BY <1>3 DEF vars, docVars
<1>. QED BY <1>1, <1>2, <1>3 DEF Next

\* Only Receive opens a request, and it looks at how many are open and at how many files
\* the request has.
LEMMA StepRequestsBounded ==
  ASSUME TypeOK, RequestsBounded, [Next]_vars
  PROVE  RequestsBounded'
<1>1. ASSUME NEW r \in Requests, Receive(r) PROVE RequestsBounded'
  <2>1. Open' = Open \cup {r} /\ Cardinality(Open) < MaxOpen
    BY <1>1 DEF Receive, Go, Open, Working, TypeOK
  <2>2. Cardinality(Open') <= MaxOpen
    <3>1. Cardinality(Open') = IF r \in Open THEN Cardinality(Open) ELSE Cardinality(Open) + 1
      BY <2>1, SetsFinite, FS_AddElement
    <3>. QED BY <2>1, <3>1, SetsFinite, AdmissionAssumption
  <2>3. \A q \in Requests : pc'[q] # "idle" => Len(Files[q]) <= MaxBatch
    BY <1>1, LengthsAreNaturals, AdmissionAssumption
    DEF Receive, Go, RequestsBounded, TypeOK
  <2>. QED BY <2>2, <2>3 DEF RequestsBounded
<1>2. CASE ~ \E r \in Requests : Receive(r)
  <2>1. /\ Open' \in SUBSET Open
        /\ \A q \in Requests : pc'[q] # "idle" => pc[q] # "idle"
    BY <1>2 DEF Next, Admit, Live, CheckDuplicate, CheckDocuments, CheckStorage,
                InsertDocument, RecordBatch, Enqueue, CommitRequest, AbortRequest, BeginRun,
                CompleteRun, FailRun, DeleteDocument, Go, SkipFile, Open, Working, Answers,
                vars, TypeOK
  <2>2. Cardinality(Open') <= Cardinality(Open)
    BY <2>1, SetsFinite, FS_Subset
  <2>3. Cardinality(Open') \in Nat
    BY <2>1, SetsFinite, FS_Subset, FS_CardinalityType
  <2>. QED BY <2>1, <2>2, <2>3, SetsFinite, AdmissionAssumption DEF RequestsBounded
<1>. QED BY <1>1, <1>2

-----------------------------------------------------------------------------
\* Whoever commits nothing and admits nobody leaves room for the others.
LEMMA RoomKept ==
  ASSUME RoomForAdmitted, Committed' \subseteq Committed, Admitted' \subseteq Admitted
  PROVE  RoomForAdmitted'
<1>1. /\ Cardinality(Committed') \in Nat /\ Cardinality(Committed') <= Cardinality(Committed)
      /\ Cardinality(Admitted') \in Nat /\ Cardinality(Admitted') <= Cardinality(Admitted)
  BY SetsFinite, FS_Subset, FS_CardinalityType
<1>2. MaxBatch * Cardinality(Admitted') <= MaxBatch * Cardinality(Admitted)
  BY <1>1, SetsFinite, ScaleMonotone, AdmissionAssumption
<1>. QED
  BY <1>1, <1>2, SetsFinite, AdmissionAssumption DEF RoomForAdmitted

\* A request is admitted only while the documents are below the limit, and no more
\* requests are admitted than are open.
LEMMA CheckLeavesRoom ==
  ASSUME TypeOK, RequestsBounded, RoomForAdmitted, NEW r \in Requests, CheckDocuments(r)
  PROVE  RoomForAdmitted'
<1>0. UNCHANGED row
  BY DEF CheckDocuments, docVars
<1>1. CASE UnderDocQuota(r)
  <2>1. Admitted' \in SUBSET Open /\ Committed' = Committed
    BY <1>0, <1>1 DEF CheckDocuments, Admitted, Open, Working, Committed, TypeOK
  <2>2. Cardinality(Committed) <= DocLimit - 1
    <3>1. Cardinality(Committed) <= Cardinality(Visible(r))
      BY SetsFinite, FS_Subset DEF Visible
    <3>. QED BY <1>1, <3>1, SetsFinite, FS_CardinalityType, AdmissionAssumption
         DEF UnderDocQuota
  <2>3. Cardinality(Admitted') \in Nat /\ Cardinality(Admitted') <= MaxOpen
    BY <2>1, SetsFinite, FS_Subset, FS_CardinalityType, AdmissionAssumption
    DEF RequestsBounded
  <2>4. /\ MaxBatch * Cardinality(Admitted') \in Nat
        /\ MaxBatch * Cardinality(Admitted') <= MaxBatch * MaxOpen
        /\ MaxBatch * MaxOpen \in Nat /\ MaxBatch * MaxOpen = MaxOpen * MaxBatch
    BY <2>3, ScaleMonotone, AdmissionAssumption
  <2>. QED
    BY <2>1, <2>2, <2>3, <2>4, SetsFinite, AdmissionAssumption DEF RoomForAdmitted
<1>2. CASE ~UnderDocQuota(r)
  <2>1. Admitted' \subseteq Admitted /\ Committed' \subseteq Committed
    BY <1>0, <1>2 DEF CheckDocuments, Admitted, Committed, TypeOK
  <2>. QED BY <2>1, RoomKept
<1>. QED BY <1>1, <1>2

\* What moves from one term of a bounded sum to the other leaves the sum bounded.
LEMMA MovesUnderBound ==
  \A c, d, x, y, m, b \in Int : d <= c + m /\ x = y + m /\ c + x <= b => d + y <= b
OBVIOUS

\* A commit uses the room that its request held.
LEMMA CommitUsesRoom ==
  ASSUME TypeOK, RequestsBounded, RoomForAdmitted, NEW r \in Requests, CommitRequest(r)
  PROVE  RoomForAdmitted'
<1>1. Committed' = Committed \cup Own(r)
  BY DEF CommitRequest, Committed, Own, Statuses, TypeOK
<1>2. r \in Admitted /\ Admitted' = Admitted \ {r}
  BY DEF CommitRequest, Go, Admitted, TypeOK
<1>3. Cardinality(Own(r)) \in Nat /\ Cardinality(Own(r)) <= MaxBatch
  BY OwnSize, SetsFinite, FS_CardinalityType, LengthsAreNaturals, AdmissionAssumption
  DEF CommitRequest, Go, RequestsBounded
<1>4. /\ Cardinality(Committed') \in Nat
      /\ Cardinality(Committed') <= Cardinality(Committed) + MaxBatch
  <2>1. Cardinality(Committed \cap Own(r)) \in Nat
    BY SetsFinite, FS_Intersection, FS_CardinalityType
  <2>2. /\ IsFiniteSet(Committed')
        /\ Cardinality(Committed')
             = Cardinality(Committed) + Cardinality(Own(r)) - Cardinality(Committed \cap Own(r))
    BY <1>1, SetsFinite, FS_Union
  <2>. QED BY <1>3, <2>1, <2>2, SetsFinite, FS_CardinalityType, AdmissionAssumption
<1>5. Cardinality(Admitted') = Cardinality(Admitted) - 1 /\ Cardinality(Admitted') \in Nat
  BY <1>2, SetsFinite, FS_RemoveElement, FS_CardinalityType
<1>6. MaxBatch * Cardinality(Admitted) = MaxBatch * Cardinality(Admitted') + MaxBatch
  <2>1. \A m, n \in Nat : m * (n + 1) = m * n + m
    OBVIOUS
  <2>2. MaxBatch \in Nat /\ Cardinality(Admitted) = Cardinality(Admitted') + 1
    BY <1>5, SetsFinite, FS_CardinalityType, AdmissionAssumption
  <2>. QED BY <1>5, <2>1, <2>2, Zenon
<1>7. MaxBatch \in Int /\ DocLimit - 1 + MaxOpen * MaxBatch \in Int
  BY AdmissionAssumption
<1>8. MaxBatch * Cardinality(Admitted) \in Int /\ MaxBatch * Cardinality(Admitted') \in Int
  BY <1>5, SetsFinite, AdmissionAssumption
<1>9. Cardinality(Committed) \in Int /\ Cardinality(Committed') \in Int
  BY <1>4, SetsFinite
<1>10. Cardinality(Committed) + MaxBatch * Cardinality(Admitted)
         <= DocLimit - 1 + MaxOpen * MaxBatch
  BY DEF RoomForAdmitted
<1>11. Cardinality(Committed') + MaxBatch * Cardinality(Admitted')
         <= DocLimit - 1 + MaxOpen * MaxBatch
  BY <1>4, <1>6, <1>7, <1>8, <1>9, <1>10, MovesUnderBound, ZenonT(30)
<1>. QED BY <1>11 DEF RoomForAdmitted

LEMMA StepRoom ==
  ASSUME TypeOK, RequestsBounded, RoomForAdmitted, [Next]_vars
  PROVE  RoomForAdmitted'
<1>1. ASSUME NEW r \in Requests, Admit(r) PROVE RoomForAdmitted'
  <2>1. CASE CheckDocuments(r)
    BY <2>1, CheckLeavesRoom
  <2>2. CASE CommitRequest(r)
    BY <2>2, CommitUsesRoom
  <2>3. CASE ~CheckDocuments(r) /\ ~CommitRequest(r)
    <3>1. Admitted' \subseteq Admitted
      BY <1>1, <2>3 DEF Admit, Receive, CheckDuplicate, CheckStorage, InsertDocument,
            RecordBatch, Enqueue, AbortRequest, Go, SkipFile, Admitted, TypeOK
    <3>2. Committed' \subseteq Committed
      BY <1>1, <2>3 DEF Admit, Receive, CheckDuplicate, CheckStorage, InsertDocument,
            RecordBatch, Enqueue, AbortRequest, docVars, Committed, Statuses, Own, TypeOK
    <3>. QED BY <3>1, <3>2, RoomKept
  <2>. QED BY <2>1, <2>2, <2>3
<1>2. ASSUME NEW x \in Docs, Live(x) PROVE RoomForAdmitted'
  <2>1. Admitted' = Admitted /\ Committed' \subseteq Committed
    BY <1>2 DEF Live, BeginRun, CompleteRun, FailRun, DeleteDocument, SetStatus, Statuses,
                Admitted, Committed, TypeOK
  <2>. QED BY <2>1, RoomKept
<1>3. CASE UNCHANGED vars
  <2>1. Admitted' = Admitted /\ Committed' = Committed
    BY <1>3 DEF vars, docVars, Admitted, Committed
  <2>. QED BY <2>1, RoomKept
<1>. QED BY <1>1, <1>2, <1>3 DEF Next

-----------------------------------------------------------------------------
(***************************************************************************)
(* A request looks at one of its files at a time.                          *)
(***************************************************************************)

\* A document is a request and the place of one of its files.
LEMMA DocShape ==
  ASSUME NEW x \in Docs
  PROVE  /\ x = <<x[1], x[2]>> /\ x[1] \in Requests /\ x[2] \in 1 .. Len(Files[x[1]])
         /\ ContentOf(x) \in Contents /\ Size[ContentOf(x)] \in Nat
<1>1. PICK r \in Requests : x \in {r} \X (1 .. Len(Files[r]))
  BY DEF Docs
<1>2. x = <<x[1], x[2]>> /\ x[1] = r /\ x[2] \in 1 .. Len(Files[r])
  BY <1>1
<1>3. Files[r] \in Seq(Contents)
  BY AdmissionAssumption
<1>4. Files[r][x[2]] \in Contents
  BY <1>2, <1>3
<1>5. ContentOf(x) \in Contents
  BY <1>2, <1>4 DEF ContentOf
<1>. QED BY <1>2, <1>5, AdmissionAssumption

\* The file that a request looks at is one of its documents.
LEMMA FileInTurn ==
  ASSUME NEW r \in Requests, NEW i \in Nat, i >= 1, i <= Len(Files[r])
  PROVE  /\ <<r, i>> \in Docs /\ ContentOf(<<r, i>>) = Files[r][i]
         /\ Files[r][i] \in Contents
<1>1. i \in 1 .. Len(Files[r])
  BY LengthsAreNaturals
<1>2. <<r, i>> \in Docs
  BY <1>1 DEF Docs
<1>. QED BY <1>2, DocShape DEF ContentOf

LEMMA StepPlaces ==
  ASSUME TypeOK, FilesInTurn, [Next]_vars, NEW q \in Requests
  PROVE  /\ at'[q] >= 1
         /\ q \notin Batches => at'[q] = 1
         /\ Checked(q)' => at'[q] <= Len(Files[q])
<1> USE DEF TypeOK, FilesInTurn, Checked
<1>1. ASSUME NEW r \in Requests, Admit(r)
      PROVE  /\ at'[q] >= 1
             /\ q \notin Batches => at'[q] = 1
             /\ Checked(q)' => at'[q] <= Len(Files[q])
  <2> USE DEF Go, SkipFile
  <2>1. CASE Receive(r)
    BY <2>1 DEF Receive
  <2>2. CASE CheckDuplicate(r)
    <3>1. r \notin Batches => at[r] <= Len(Files[r])
      BY AdmissionAssumption
    <3>. QED BY <2>2, <3>1 DEF CheckDuplicate
  <2>3. CASE CheckDocuments(r)
    BY <2>3 DEF CheckDocuments
  <2>4. CASE CheckStorage(r)
    BY <2>4 DEF CheckStorage
  <2>5. CASE InsertDocument(r)
    BY <2>5 DEF InsertDocument
  <2>6. CASE RecordBatch(r)
    BY <2>6 DEF RecordBatch
  <2>7. CASE Enqueue(r)
    BY <2>7 DEF Enqueue
  <2>8. CASE CommitRequest(r)
    BY <2>8 DEF CommitRequest
  <2>9. CASE AbortRequest(r)
    BY <2>9 DEF AbortRequest
  <2>. QED
    BY <1>1, <2>1, <2>2, <2>3, <2>4, <2>5, <2>6, <2>7, <2>8, <2>9 DEF Admit
<1>2. ASSUME NEW x \in Docs, Live(x) PROVE UNCHANGED <<pc, at>>
  BY <1>2 DEF Live, BeginRun, CompleteRun, FailRun, DeleteDocument, SetStatus
<1>3. CASE UNCHANGED vars
  BY <1>3 DEF vars
<1>. QED BY <1>1, <1>2, <1>3 DEF Next

\* Requests whose flushed rows are still theirs to commit.
LEMMA StepFlushed ==
  ASSUME TypeOK, FilesInTurn, [Next]_vars, NEW x \in Docs, row'[x] = "flushed"
  PROVE  \/ pc'[x[1]] \in {"stored", "enqueued", "refused"}
         \/ x[1] \in Batches /\ pc'[x[1]] \in {"counted", "fresh", "approved"}
<1> DEFINE Held == \/ pc'[x[1]] \in {"stored", "enqueued", "refused"}
                   \/ x[1] \in Batches /\ pc'[x[1]] \in {"counted", "fresh", "approved"}
<1>0. /\ x[1] \in Requests
      /\ row[x] = "flushed" =>
           \/ pc[x[1]] \in {"stored", "enqueued", "refused"}
           \/ x[1] \in Batches /\ pc[x[1]] \in {"counted", "fresh", "approved"}
  BY DocShape DEF FilesInTurn
<1> USE DEF TypeOK
<1>1. ASSUME NEW r \in Requests, Admit(r) PROVE Held
  <2> USE DEF Go, SkipFile, docVars
  <2>1. CASE Receive(r)
    BY <1>0, <2>1 DEF Receive
  <2>2. CASE CheckDuplicate(r)
    BY <1>0, <2>2 DEF CheckDuplicate
  <2>3. CASE CheckDocuments(r)
    BY <1>0, <2>3 DEF CheckDocuments
  <2>4. CASE CheckStorage(r)
    BY <1>0, <2>4 DEF CheckStorage
  <2>5. CASE InsertDocument(r)
    <3>1. CASE x[1] = r
      BY <2>5, <3>1 DEF InsertDocument
    <3>2. CASE x[1] # r
      <4>1. row[x] = "flushed"
        BY <2>5, <3>2, DocShape DEF InsertDocument
      <4>. QED BY <1>0, <2>5, <3>2, <4>1 DEF InsertDocument
    <3>. QED BY <3>1, <3>2
  <2>6. CASE RecordBatch(r)
    <3>1. x[1] = r => Own(r) # {}
      BY <2>6 DEF RecordBatch, Own
    <3>. QED BY <1>0, <2>6, <3>1 DEF RecordBatch
  <2>7. CASE Enqueue(r)
    BY <1>0, <2>7 DEF Enqueue
  <2>8. CASE CommitRequest(r)
    <3>1. x \notin Own(r) /\ row[x] = "flushed"
      BY <2>8 DEF CommitRequest
    <3>2. x[1] # r
      BY <3>1 DEF Own
    <3>. QED BY <1>0, <2>8, <3>1, <3>2 DEF CommitRequest
  <2>9. CASE AbortRequest(r)
    <3>1. x \notin Own(r) /\ row[x] = "flushed"
      BY <2>9 DEF AbortRequest
    <3>2. x[1] # r
      BY <3>1 DEF Own
    <3>. QED BY <1>0, <2>9, <3>1, <3>2 DEF AbortRequest
  <2>. QED
    BY <1>1, <2>1, <2>2, <2>3, <2>4, <2>5, <2>6, <2>7, <2>8, <2>9 DEF Admit
<1>2. ASSUME NEW y \in Docs, Live(y) PROVE row[x] = "flushed" /\ UNCHANGED pc
  BY <1>2 DEF Live, BeginRun, CompleteRun, FailRun, DeleteDocument, SetStatus
<1>3. CASE UNCHANGED vars
  BY <1>0, <1>3 DEF vars, docVars
<1>. QED BY <1>0, <1>1, <1>2, <1>3 DEF Next

LEMMA StepFiles ==
  ASSUME TypeOK, FilesInTurn, [Next]_vars
  PROVE  FilesInTurn'
<1>1. \A q \in Requests :
        /\ at'[q] >= 1
        /\ q \notin Batches => at'[q] = 1
        /\ Checked(q)' => at'[q] <= Len(Files[q])
  BY StepPlaces
<1>2. \A x \in Docs : row'[x] = "flushed" =>
        \/ pc'[x[1]] \in {"stored", "enqueued", "refused"}
        \/ x[1] \in Batches /\ pc'[x[1]] \in {"counted", "fresh", "approved"}
  BY StepFlushed
<1>. QED BY <1>1, <1>2 DEF FilesInTurn

-----------------------------------------------------------------------------
(***************************************************************************)
(* What one step can do to a request and its rows.                         *)
(***************************************************************************)

\* Only InsertDocument flushes a row, that of the file the request looks at.
LEMMA OwnStep ==
  ASSUME TypeOK, [Next]_vars, NEW q \in Requests, NEW x \in Own(q)'
  PROVE  /\ x \in Docs /\ x[1] = q
         /\ \/ x \in Own(q)
            \/ InsertDocument(q) /\ x = <<q, at[q]>>
<1>0. x \in Docs /\ x[1] = q /\ row'[x] = "flushed"
  BY DEF Own
<1> SUFFICES row[x] = "flushed" \/ (InsertDocument(q) /\ x = <<q, at[q]>>)
  BY <1>0 DEF Own
<1>1. ASSUME NEW r \in Requests, Admit(r)
      PROVE  row[x] = "flushed" \/ (InsertDocument(q) /\ x = <<q, at[q]>>)
  <2>1. CASE InsertDocument(r)
    <3>1. row' = [row EXCEPT ![<<r, at[r]>>] = "flushed"]
      BY <2>1 DEF InsertDocument
    <3>2. x = <<r, at[r]>> => r = q
      BY <1>0
    <3>3. x # <<r, at[r]>> => row[x] = row'[x]
      BY <1>0, <3>1 DEF TypeOK
    <3>. QED BY <1>0, <2>1, <3>2, <3>3
  <2>2. CASE CommitRequest(r)
    BY <1>0, <2>2 DEF CommitRequest
  <2>3. CASE AbortRequest(r)
    BY <1>0, <2>3 DEF AbortRequest
  <2>4. CASE ~InsertDocument(r) /\ ~CommitRequest(r) /\ ~AbortRequest(r)
    BY <1>0, <1>1, <2>4 DEF Admit, Receive, CheckDuplicate, CheckDocuments, CheckStorage,
                            RecordBatch, Enqueue, docVars
  <2>. QED BY <2>1, <2>2, <2>3, <2>4
<1>2. ASSUME NEW y \in Docs, Live(y) PROVE row[x] = "flushed"
  BY <1>0, <1>2 DEF Live, BeginRun, CompleteRun, FailRun, DeleteDocument, SetStatus, TypeOK
<1>3. CASE UNCHANGED vars
  BY <1>0, <1>3 DEF vars, docVars
<1>. QED BY <1>1, <1>2, <1>3 DEF Next

\* A request has found no duplicate of its file, or finds none now.
LEMMA CheckedStep ==
  ASSUME TypeOK, [Next]_vars, NEW q \in Requests, Checked(q)'
  PROVE  /\ at'[q] = at[q] /\ ~InsertDocument(q)
         /\ \/ Checked(q)
            \/ CheckDuplicate(q) /\ Duplicates(q) = {}
<1> USE DEF TypeOK, Checked
<1>1. ASSUME NEW r \in Requests, Admit(r)
      PROVE  /\ at'[q] = at[q]
             /\ \/ Checked(q)
                \/ CheckDuplicate(q) /\ Duplicates(q) = {}
  <2> USE DEF Go, SkipFile
  <2>1. CASE Receive(r)
    BY <2>1 DEF Receive
  <2>2. CASE CheckDuplicate(r)
    BY <2>2 DEF CheckDuplicate
  <2>3. CASE CheckDocuments(r)
    BY <2>3 DEF CheckDocuments
  <2>4. CASE CheckStorage(r)
    BY <2>4 DEF CheckStorage
  <2>5. CASE InsertDocument(r)
    BY <2>5 DEF InsertDocument
  <2>6. CASE RecordBatch(r)
    BY <2>6 DEF RecordBatch
  <2>7. CASE Enqueue(r)
    BY <2>7 DEF Enqueue
  <2>8. CASE CommitRequest(r)
    BY <2>8 DEF CommitRequest
  <2>9. CASE AbortRequest(r)
    BY <2>9 DEF AbortRequest
  <2>. QED
    BY <1>1, <2>1, <2>2, <2>3, <2>4, <2>5, <2>6, <2>7, <2>8, <2>9 DEF Admit
<1>2. ASSUME NEW x \in Docs, Live(x) PROVE UNCHANGED <<pc, at>>
  BY <1>2 DEF Live, BeginRun, CompleteRun, FailRun, DeleteDocument, SetStatus
<1>3. ~InsertDocument(q)
  BY DEF InsertDocument, Go, SkipFile
<1>4. CASE UNCHANGED vars
  BY <1>3, <1>4 DEF vars
<1>. QED BY <1>1, <1>2, <1>3, <1>4 DEF Next

\* A request has been approved, or is now.
LEMMA ApprovedStep ==
  ASSUME TypeOK, [Next]_vars, NEW q \in Requests, pc'[q] = "approved"
  PROVE  /\ at'[q] = at[q]
         /\ \/ pc[q] = "approved"
            \/ CheckStorage(q) /\ UnderByteQuota(q)
<1> USE DEF TypeOK
<1>1. ASSUME NEW r \in Requests, Admit(r)
      PROVE  /\ at'[q] = at[q]
             /\ \/ pc[q] = "approved"
                \/ CheckStorage(q) /\ UnderByteQuota(q)
  <2> USE DEF Go, SkipFile
  <2>1. CASE CheckStorage(r)
    BY <2>1 DEF CheckStorage
  <2>2. CASE ~CheckStorage(r)
    BY <1>1, <2>2 DEF Admit, Receive, CheckDuplicate, CheckDocuments, InsertDocument,
                      RecordBatch, Enqueue, CommitRequest, AbortRequest
  <2>. QED BY <2>1, <2>2
<1>2. ASSUME NEW x \in Docs, Live(x) PROVE UNCHANGED <<pc, at>>
  BY <1>2 DEF Live, BeginRun, CompleteRun, FailRun, DeleteDocument, SetStatus
<1>3. CASE UNCHANGED vars
  BY <1>3 DEF vars
<1>. QED BY <1>1, <1>2, <1>3 DEF Next

\* A document is committed by its request and by nobody else, and failures are not
\* forgotten.
LEMMA CommittedStep ==
  ASSUME TypeOK, [Next]_vars
  PROVE  /\ failedOnce \subseteq failedOnce'
         /\ \A x \in Committed' :
              x \in Committed \/ \E r \in Requests : CommitRequest(r) /\ x \in Own(r)
<1>1. ASSUME NEW r \in Requests, Admit(r)
      PROVE  /\ failedOnce \subseteq failedOnce'
             /\ \A x \in Committed' :
                  x \in Committed \/ \E q \in Requests : CommitRequest(q) /\ x \in Own(q)
  <2>1. CASE CommitRequest(r)
    BY <2>1 DEF CommitRequest, Committed
  <2>2. CASE ~CommitRequest(r)
    BY <1>1, <2>2 DEF Admit, Receive, CheckDuplicate, CheckDocuments, CheckStorage,
          InsertDocument, RecordBatch, Enqueue, AbortRequest, docVars, Committed, Statuses,
          Own, TypeOK
  <2>. QED BY <2>1, <2>2
<1>2. ASSUME NEW y \in Docs, Live(y)
      PROVE  failedOnce \subseteq failedOnce' /\ Committed' \subseteq Committed
  BY <1>2 DEF Live, BeginRun, CompleteRun, FailRun, DeleteDocument, SetStatus, Statuses,
              Committed, TypeOK
<1>3. CASE UNCHANGED vars
  BY <1>3 DEF vars, docVars, Committed
<1>. QED BY <1>1, <1>2, <1>3 DEF Next

LEMMA CommitStep ==
  ASSUME TypeOK, NEW r \in Requests, CommitRequest(r)
  PROVE  /\ Committed' = Committed \cup Own(r)
         /\ Own(r)' = {} /\ ~Checked(r)' /\ UNCHANGED failedOnce
<1>1. Committed' = Committed \cup Own(r)
  BY DEF CommitRequest, Committed, Own, Statuses, TypeOK
<1>2. Own(r)' = {}
  BY DEF CommitRequest, Own
<1>3. ~Checked(r)'
  BY DEF CommitRequest, Go, Checked, TypeOK
<1>. QED BY <1>1, <1>2, <1>3 DEF CommitRequest

-----------------------------------------------------------------------------
(***************************************************************************)
(* Deduplication: who has a copy of a file under way has a place among the *)
(* requests that were open when there was no copy yet.                     *)
(***************************************************************************)

LEMMA CopiesFinite ==
  ASSUME NEW c
  PROVE  /\ IsFiniteSet(Copies(c)) /\ Cardinality(Copies(c)) \in Nat
         /\ IsFiniteSet(Carriers(c)) /\ Cardinality(Carriers(c)) \in Nat
<1>1. Copies(c) \in SUBSET Docs /\ Carriers(c) \in SUBSET Requests
  BY DEF Copies, Carriers, Committed
<1>. QED BY <1>1, DocsFinite, AdmissionAssumption, FS_Subset, FS_CardinalityType

\* Only requests at work carry a file.
LEMMA CarriersOpen ==
  ASSUME FilesInTurn, NEW c
  PROVE  Carriers(c) \subseteq Open
<1> SUFFICES ASSUME NEW q \in Requests, q \in Carriers(c) PROVE pc[q] \in Working
  BY DEF Carriers, Open
<1>1. CASE Checked(q)
  BY <1>1 DEF Checked, Working
<1>2. ASSUME NEW x \in Own(q) PROVE pc[q] \in Working
  BY DEF Own, FilesInTurn, Working
<1>. QED BY <1>1, <1>2 DEF Carriers

LEMMA StepFailures ==
  ASSUME TypeOK, CopiesReserved, [Next]_vars, NEW x \in Docs, row'[x] = "failed"
  PROVE  x \in failedOnce'
<1>1. row[x] = "failed" => x \in failedOnce
  BY DEF CopiesReserved
<1>2. ASSUME NEW r \in Requests, Admit(r) PROVE row[x] = "failed"
  BY <1>2 DEF Admit, Receive, CheckDuplicate, CheckDocuments, CheckStorage, InsertDocument,
        RecordBatch, Enqueue, CommitRequest, AbortRequest, docVars, TypeOK
<1>3. ASSUME NEW y \in Docs, Live(y) PROVE row[x] = "failed" \/ x \in failedOnce'
  BY <1>3 DEF Live, BeginRun, CompleteRun, FailRun, DeleteDocument, SetStatus, TypeOK
<1>4. CASE UNCHANGED vars
  BY <1>1, <1>4 DEF vars, docVars
<1>. QED BY <1>1, <1>2, <1>3, <1>4, CommittedStep DEF Next

\* A request does not flush the same content twice.
LEMMA StepDistinct ==
  ASSUME TypeOK, FilesInTurn, CopiesReserved, [Next]_vars,
         NEW q \in Requests, NEW x \in Own(q)'
  PROVE  /\ Checked(q)' => ContentOf(x) # Files[q][at'[q]]
         /\ \A y \in Own(q)' : ContentOf(x) = ContentOf(y) => x = y
<1>1. ASSUME Checked(q)' PROVE ContentOf(x) # Files[q][at'[q]]
  <2>1. at'[q] = at[q] /\ x \in Own(q)
    BY <1>1, CheckedStep, OwnStep
  <2>2. CASE Checked(q)
    BY <2>1, <2>2 DEF CopiesReserved
  <2>3. CASE Duplicates(q) = {}
    BY <2>1, <2>3 DEF Duplicates, Visible, Own
  <2>. QED BY <1>1, <2>2, <2>3, CheckedStep
<1>2. ASSUME NEW y \in Own(q)', ContentOf(x) = ContentOf(y) PROVE x = y
  <2>1. CASE x \in Own(q) /\ y \in Own(q)
    BY <1>2, <2>1 DEF CopiesReserved
  <2>2. CASE InsertDocument(q) /\ (x \notin Own(q) \/ y \notin Own(q))
    <3>1. Checked(q)
      BY <2>2 DEF InsertDocument, Checked
    <3>2. ContentOf(<<q, at[q]>>) = Files[q][at[q]]
      BY DEF ContentOf
    <3>3. \A z \in Own(q) : ContentOf(z) # Files[q][at[q]]
      BY <3>1 DEF CopiesReserved
    <3>. QED BY <1>2, <2>2, <3>2, <3>3, OwnStep
  <2>. QED BY <2>1, <2>2, OwnStep
<1>. QED BY <1>1, <1>2

\* A request begins to carry a file only when it finds no duplicate of it.
LEMMA CarriersStep ==
  ASSUME TypeOK, [Next]_vars, NEW c, NEW q \in Requests, q \in Carriers(c)'
  PROVE  \/ q \in Carriers(c)
         \/ CheckDuplicate(q) /\ Duplicates(q) = {} /\ Files[q][at[q]] = c
<1>1. CASE Checked(q)' /\ Files[q][at'[q]] = c
  BY <1>1, CheckedStep DEF Carriers
<1>2. ASSUME NEW x \in Own(q)', ContentOf(x) = c PROVE q \in Carriers(c)
  <2>1. CASE x \in Own(q)
    BY <1>2, <2>1 DEF Carriers
  <2>2. CASE InsertDocument(q) /\ x = <<q, at[q]>>
    BY <1>2, <2>2 DEF Carriers, InsertDocument, Checked, ContentOf
  <2>. QED BY <2>1, <2>2, OwnStep
<1>. QED BY <1>1, <1>2 DEF Carriers

LEMMA StepReserved ==
  ASSUME TypeOK, RequestsBounded, FilesInTurn, CopiesReserved, [Next]_vars,
         NEW c \in Contents
  PROVE  Cardinality(Copies(c)') + Cardinality(Carriers(c)') <= MaxOpen
<1>0. /\ Cardinality(Copies(c)) + Cardinality(Carriers(c)) <= MaxOpen
      /\ MaxOpen \in Nat
      /\ Cardinality(Copies(c)) \in Nat /\ Cardinality(Carriers(c)) \in Nat
  BY CopiesFinite, AdmissionAssumption DEF CopiesReserved
<1> DEFINE Finds(r) == CheckDuplicate(r) /\ Duplicates(r) = {} /\ Files[r][at[r]] = c
           Commits(r) == CommitRequest(r) /\ \E x \in Own(r) : ContentOf(x) = c
<1>1. ASSUME NEW r \in Requests, Finds(r)
      PROVE  Cardinality(Copies(c)') + Cardinality(Carriers(c)') <= MaxOpen
  <2>1. ASSUME NEW x \in Committed, ContentOf(x) = c PROVE x \in failedOnce
    <3>1. x \in Docs /\ row[x] = "failed"
      BY <1>1, <2>1 DEF Duplicates, Visible, Committed
    <3>. QED BY <3>1 DEF CopiesReserved
  <2>2. UNCHANGED <<row, failedOnce>>
    BY <1>1 DEF CheckDuplicate, docVars
  <2>3. Copies(c)' = {}
    BY <2>1, <2>2 DEF Copies, Committed
  <2>4. Carriers(c)' \in SUBSET Open
    <3>1. \A q \in Requests : Finds(q) => q \in Open
      BY DEF CheckDuplicate, Go, SkipFile, Open, Working
    <3>. QED BY <3>1, CarriersStep, CarriersOpen DEF Carriers
  <2>5. Cardinality(Carriers(c)') <= Cardinality(Open) /\ Cardinality(Open) <= MaxOpen
    BY <2>4, SetsFinite, FS_Subset DEF RequestsBounded
  <2>6. Cardinality(Copies(c)') = 0 /\ Cardinality(Carriers(c)') \in Nat
    BY <2>3, <2>4, SetsFinite, FS_EmptySet, FS_Subset, FS_CardinalityType
  <2>. QED BY <1>0, <2>5, <2>6, SetsFinite
<1>2. ASSUME ~ \E r \in Requests : Finds(r)
      PROVE  Cardinality(Copies(c)') + Cardinality(Carriers(c)') <= MaxOpen
  <2>1. Carriers(c)' \in SUBSET Carriers(c)
    BY <1>2, CarriersStep DEF Carriers
  <2>2. ASSUME NEW r \in Requests, Commits(r)
        PROVE  Cardinality(Copies(c)') + Cardinality(Carriers(c)') <= MaxOpen
    <3>1. PICK x \in Own(r) : ContentOf(x) = c
      BY <2>2
    <3>2. r \in Carriers(c) /\ r \notin Carriers(c)'
      BY <2>2, <3>1, CommitStep DEF Carriers
    <3>3. Carriers(c)' \in SUBSET (Carriers(c) \ {r})
      BY <2>1, <3>2
    <3>4. /\ Cardinality(Carriers(c)') \in Nat
          /\ Cardinality(Carriers(c)') <= Cardinality(Carriers(c)) - 1
      BY <3>2, <3>3, CopiesFinite, FS_RemoveElement, FS_Subset, FS_CardinalityType
    <3>5. Copies(c)' \in SUBSET (Copies(c) \cup {x})
      <4>1. \A y \in Own(r) : ContentOf(y) = c => y = x
        BY <3>1 DEF CopiesReserved
      <4>. QED BY <2>2, <4>1, CommitStep DEF Copies
    <3>6. /\ Cardinality(Copies(c)') \in Nat
          /\ Cardinality(Copies(c)') <= Cardinality(Copies(c)) + 1
      <4> DEFINE C == Copies(c)
      <4>0. IsFiniteSet(C) /\ Cardinality(C) \in Nat
        BY CopiesFinite
      <4> HIDE DEF C
      <4>1. /\ IsFiniteSet(C \cup {x})
            /\ Cardinality(C \cup {x}) = IF x \in C THEN Cardinality(C) ELSE Cardinality(C) + 1
        BY <4>0, FS_AddElement
      <4>2. Cardinality(C \cup {x}) \in Nat /\ Cardinality(C \cup {x}) <= Cardinality(C) + 1
        BY <4>0, <4>1
      <4> USE DEF C
      <4>. QED BY <1>0, <3>5, <4>1, <4>2, FS_Subset, FS_CardinalityType
    <3>. QED BY <1>0, <3>4, <3>6
  <2>3. ASSUME ~ \E r \in Requests : Commits(r)
        PROVE  Cardinality(Copies(c)') + Cardinality(Carriers(c)') <= MaxOpen
    <3>1. Copies(c)' \in SUBSET Copies(c)
      BY <2>3, CommittedStep DEF Copies
    <3>2. /\ Cardinality(Copies(c)') <= Cardinality(Copies(c))
          /\ Cardinality(Carriers(c)') <= Cardinality(Carriers(c))
          /\ Cardinality(Copies(c)') \in Nat /\ Cardinality(Carriers(c)') \in Nat
      BY <2>1, <3>1, CopiesFinite, FS_Subset, FS_CardinalityType
    <3>. QED BY <1>0, <3>2
  <2>. QED BY <2>2, <2>3
<1>. QED BY <1>1, <1>2

LEMMA StepCopies ==
  ASSUME TypeOK, RequestsBounded, FilesInTurn, CopiesReserved, [Next]_vars
  PROVE  CopiesReserved'
<1>1. \A x \in Docs : row'[x] = "failed" => x \in failedOnce'
  BY StepFailures
<1>2. \A q \in Requests : \A x \in Own(q)' :
        /\ Checked(q)' => ContentOf(x) # Files[q][at'[q]]
        /\ \A y \in Own(q)' : ContentOf(x) = ContentOf(y) => x = y
  BY StepDistinct
<1>3. \A c \in Contents : Cardinality(Copies(c)') + Cardinality(Carriers(c)') <= MaxOpen
  BY StepReserved
<1>. QED BY <1>1, <1>2, <1>3 DEF CopiesReserved

-----------------------------------------------------------------------------
(***************************************************************************)
(* Bytes, and the sets of bytes they count.                                *)
(***************************************************************************)

BytesOf(x) == {x} \X (1 .. Size[ContentOf(x)])

BytesIn(S) == UNION {BytesOf(x) : x \in S}

LEMMA BytesOfDocument ==
  ASSUME NEW x \in Docs
  PROVE  IsFiniteSet(BytesOf(x)) /\ Cardinality(BytesOf(x)) = Size[ContentOf(x)]
<1> DEFINE n == Size[ContentOf(x)]
           T == 1 .. n
<1>1. n \in Nat
  BY DocShape
<1> HIDE DEF n
<1>2. IsFiniteSet(T) /\ Cardinality(T) = n
  BY <1>1, FS_Interval
<1>3. IsFiniteSet({x}) /\ Cardinality({x}) = 1
  BY FS_Singleton
<1> HIDE DEF T
<1>4. IsFiniteSet({x} \X T) /\ Cardinality({x} \X T) = Cardinality({x}) * Cardinality(T)
  BY <1>2, <1>3, FS_Product
<1>5. Cardinality({x} \X T) = n
  BY <1>1, <1>2, <1>3, <1>4
<1>. QED BY <1>4, <1>5 DEF BytesOf, T, n

LEMMA BytesFinite ==
  ASSUME NEW S \in SUBSET Docs
  PROVE  /\ IsFiniteSet(BytesIn(S)) /\ Bytes(S) = Cardinality(BytesIn(S)) /\ Bytes(S) \in Nat
<1>1. IsFiniteSet(S)
  BY DocsFinite, FS_Subset
<1> DEFINE B == [x \in S |-> BytesOf(x)]
           Parts == {B[x] : x \in S}
<1>2. IsFiniteSet(Parts)
  <2>1. B \in Surjection(S, Parts)
    BY DEF Surjection
  <2>. QED BY <1>1, <2>1, FS_Surjection
<1>3. \A T \in Parts : IsFiniteSet(T)
  BY BytesOfDocument
<1>4. BytesIn(S) = UNION Parts
  BY DEF BytesIn
<1>5. IsFiniteSet(BytesIn(S))
  BY <1>2, <1>3, <1>4, FS_UNION
<1>6. Bytes(S) = Cardinality(BytesIn(S))
  BY DEF Bytes, BytesIn, BytesOf
<1>. QED BY <1>5, <1>6, FS_CardinalityType

\* Fewer files have no more bytes.
LEMMA BytesMonotone ==
  ASSUME NEW S \in SUBSET Docs, NEW T \in SUBSET S
  PROVE  Bytes(T) <= Bytes(S)
<1>1. BytesIn(T) \in SUBSET BytesIn(S)
  BY DEF BytesIn
<1>2. T \in SUBSET Docs
  OBVIOUS
<1>. QED BY <1>1, <1>2, BytesFinite, FS_Subset

\* The bytes of two sets of files together are no more than the bytes of each, added up.
LEMMA BytesSubadditive ==
  ASSUME NEW S \in SUBSET Docs, NEW T \in SUBSET Docs
  PROVE  Bytes(S \cup T) <= Bytes(S) + Bytes(T)
<1> DEFINE A == BytesIn(S)
           B == BytesIn(T)
<1>1. BytesIn(S \cup T) = A \cup B /\ S \cup T \in SUBSET Docs
  BY DEF BytesIn
<1>2. /\ IsFiniteSet(A) /\ Cardinality(A) \in Nat /\ Bytes(S) = Cardinality(A)
      /\ IsFiniteSet(B) /\ Cardinality(B) \in Nat /\ Bytes(T) = Cardinality(B)
      /\ Bytes(S \cup T) = Cardinality(A \cup B)
  BY <1>1, BytesFinite
<1> HIDE DEF A, B
<1>3. Cardinality(A \cup B) = Cardinality(A) + Cardinality(B) - Cardinality(A \cap B)
  BY <1>2, FS_Union
<1>4. Cardinality(A \cap B) \in Nat
  BY <1>2, FS_Intersection, FS_CardinalityType
<1>. QED BY <1>2, <1>3, <1>4

LEMMA BytesOfOne ==
  ASSUME NEW x \in Docs
  PROVE  Bytes({x}) = Size[ContentOf(x)]
<1>1. BytesIn({x}) = BytesOf(x) /\ {x} \in SUBSET Docs
  BY DEF BytesIn
<1>. QED BY <1>1, BytesFinite, BytesOfDocument

\* Finitely many sets of at most L elements have together at most L for each.
LEMMA UnionBound ==
  ASSUME NEW Q, IsFiniteSet(Q), NEW L \in Nat, NEW F,
         \A q \in Q : IsFiniteSet(F[q]) /\ Cardinality(F[q]) <= L
  PROVE  /\ IsFiniteSet(UNION {F[q] : q \in Q})
         /\ Cardinality(UNION {F[q] : q \in Q}) <= Cardinality(Q) * L
<1> DEFINE U == UNION {F[q] : q \in Q}
           n(q) == Cardinality(F[q])
           g == [q \in Q |-> CHOOSE f : f \in Bijection(1 .. n(q), F[q])]
           owner == [b \in U |-> CHOOSE q \in Q : b \in F[q]]
           place == [b \in U |-> CHOOSE i \in 1 .. n(owner[b]) : g[owner[b]][i] = b]
           h == [b \in U |-> <<owner[b], place[b]>>]
           T == 1 .. L
<1>1. ASSUME NEW q \in Q
      PROVE  n(q) \in Nat /\ n(q) <= L /\ g[q] \in Bijection(1 .. n(q), F[q])
  <2>1. n(q) \in Nat /\ n(q) <= L /\ ExistsBijection(1 .. n(q), F[q])
    BY FS_CardinalityType
  <2>2. \E f : f \in Bijection(1 .. n(q), F[q])
    BY <2>1 DEF ExistsBijection
  <2>3. g[q] = CHOOSE f : f \in Bijection(1 .. n(q), F[q])
    OBVIOUS
  <2>. QED BY <2>1, <2>2, <2>3
<1>2. ASSUME NEW b \in U
      PROVE  /\ owner[b] \in Q /\ b \in F[owner[b]]
             /\ place[b] \in 1 .. n(owner[b]) /\ g[owner[b]][place[b]] = b
  <2>1. owner[b] \in Q /\ b \in F[owner[b]]
    <3>1. \E q \in Q : b \in F[q]
      OBVIOUS
    <3>2. owner[b] = CHOOSE q \in Q : b \in F[q]
      OBVIOUS
    <3>. QED BY <3>1, <3>2
  <2> DEFINE q == owner[b]
  <2> HIDE DEF owner
  <2>2. \E i \in 1 .. n(q) : g[q][i] = b
    BY <1>1, <2>1 DEF Bijection, Surjection
  <2>3. place[b] = CHOOSE i \in 1 .. n(q) : g[q][i] = b
    OBVIOUS
  <2>. QED BY <2>1, <2>2, <2>3
<1>3. IsFiniteSet(T) /\ Cardinality(T) = L
  BY FS_Interval
<1>4. IsFiniteSet(Q \X T) /\ Cardinality(Q \X T) = Cardinality(Q) * L
  BY <1>3, FS_Product
<1>5. h \in Injection(U, Q \X T)
  <2> HIDE DEF owner, place, g, U
  <2>1. ASSUME NEW b \in U PROVE h[b] \in Q \X T
    <3>1. place[b] \in T
      BY <1>1, <1>2
    <3>. QED BY <1>2, <3>1
  <2>2. ASSUME NEW b \in U, NEW e \in U, h[b] = h[e] PROVE b = e
    <3>1. owner[b] = owner[e] /\ place[b] = place[e]
      BY <2>2
    <3>2. b = g[owner[b]][place[b]] /\ e = g[owner[e]][place[e]]
      BY <1>2
    <3>. QED BY <3>1, <3>2
  <2>3. h \in [U -> Q \X T]
    BY <2>1
  <2> HIDE DEF h, T
  <2>. QED BY <2>2, <2>3 DEF Injection, IsInjective
<1> HIDE DEF h, T, U
<1>6. IsFiniteSet(U) /\ Cardinality(U) <= Cardinality(Q \X T)
  BY <1>4, <1>5, FS_Injection
<1>. QED BY <1>4, <1>6 DEF U

-----------------------------------------------------------------------------
(***************************************************************************)
(* The storage quota: what is committed and what will be has no more bytes *)
(* than one limit for each request that runs.                              *)
(***************************************************************************)

UnderWay == UNION {Coming(r) : r \in Requests}

LEMMA ComingFiles ==
  ASSUME TypeOK, FilesInTurn, NEW r \in Requests
  PROVE  Coming(r) \in SUBSET Docs
<1>1. pc[r] = "approved" => <<r, at[r]>> \in Docs
  BY FileInTurn DEF FilesInTurn, Checked, TypeOK
<1>. QED BY <1>1 DEF Coming, Own

\* Only an approval adds to what is coming.
LEMMA ComingStep ==
  ASSUME TypeOK, [Next]_vars, NEW q \in Requests, NEW x \in Coming(q)'
  PROVE  \/ x \in Coming(q)
         \/ CheckStorage(q) /\ UnderByteQuota(q) /\ x = <<q, at[q]>>
<1>1. CASE x \in Own(q)'
  BY <1>1, OwnStep DEF Coming, InsertDocument
<1>2. CASE pc'[q] = "approved" /\ x = <<q, at'[q]>>
  BY <1>2, ApprovedStep DEF Coming
<1>. QED BY <1>1, <1>2 DEF Coming

\* What a step commits was coming.
LEMMA CommittedComing ==
  ASSUME TypeOK, [Next]_vars
  PROVE  Committed' \subseteq Committed \cup UnderWay
BY CommittedStep DEF UnderWay, Coming

\* The quota that a request passes holds for what is committed and the files it brings.
LEMMA QuotaHolds ==
  ASSUME TypeOK, FilesInTurn, NEW r \in Requests, CheckStorage(r), UnderByteQuota(r)
  PROVE  /\ Committed \cup Own(r) \cup {<<r, at[r]>>} \in SUBSET Docs
         /\ Bytes(Committed \cup Own(r) \cup {<<r, at[r]>>}) <= ByteLimit - 1
<1>1. Checked(r)
  BY DEF CheckStorage, Go, SkipFile, Checked
<1>2. /\ <<r, at[r]>> \in Docs /\ ContentOf(<<r, at[r]>>) = Files[r][at[r]]
      /\ Size[Files[r][at[r]]] \in Nat
  BY <1>1, FileInTurn, AdmissionAssumption DEF FilesInTurn, TypeOK
<1>3. Visible(r) \in SUBSET Docs /\ Visible(r) = Committed \cup Own(r)
  BY DEF Visible, Committed, Own
<1>4. Bytes(Visible(r)) + Size[Files[r][at[r]]] <= ByteLimit - 1
  <2>1. Bytes(Visible(r)) \in Nat
    BY <1>3, BytesFinite
  <2>2. Bytes(Visible(r)) + Size[Files[r][at[r]]] < ByteLimit
    BY DEF UnderByteQuota
  <2>. QED BY <1>2, <2>1, <2>2, AdmissionAssumption
<1>5. Bytes({<<r, at[r]>>}) = Size[Files[r][at[r]]]
  BY <1>2, BytesOfOne
<1>6. Bytes(Visible(r) \cup {<<r, at[r]>>}) <= Bytes(Visible(r)) + Bytes({<<r, at[r]>>})
  BY <1>2, <1>3, BytesSubadditive
<1>7. /\ Bytes(Visible(r)) \in Nat
      /\ Bytes(Visible(r) \cup {<<r, at[r]>>}) \in Nat
  BY <1>2, <1>3, BytesFinite
<1>8. Bytes(Visible(r) \cup {<<r, at[r]>>}) <= ByteLimit - 1
  BY <1>2, <1>4, <1>5, <1>6, <1>7, AdmissionAssumption
<1>. QED BY <1>2, <1>3, <1>8

\* No request brings more than the limit.
LEMMA StepOneLimit ==
  ASSUME TypeOK, FilesInTurn, BytesReserved, [Next]_vars, FilesInTurn', TypeOK',
         NEW q \in Requests
  PROVE  Coming(q)' \in SUBSET Docs /\ Bytes(Coming(q)') <= ByteLimit - 1
<1>0. Coming(q) \in SUBSET Docs /\ Bytes(Coming(q)) <= ByteLimit - 1
  BY ComingFiles DEF BytesReserved
<1>1. CASE CheckStorage(q) /\ UnderByteQuota(q)
  <2> DEFINE S == Committed \cup Own(q) \cup {<<q, at[q]>>}
  <2>1. pc[q] # "approved"
    BY <1>1 DEF CheckStorage, Go, SkipFile
  <2>2. Coming(q)' \in SUBSET S
    BY <2>1, ComingStep DEF Coming
  <2>3. S \in SUBSET Docs /\ Bytes(S) <= ByteLimit - 1
    BY <1>1, QuotaHolds
  <2> HIDE DEF S
  <2>4. Coming(q)' \in SUBSET Docs
    BY <2>2, <2>3
  <2>5. Bytes(Coming(q)') <= Bytes(S)
    BY <2>2, <2>3, BytesMonotone
  <2>. QED BY <2>3, <2>4, <2>5, BytesFinite, AdmissionAssumption
<1>2. CASE ~(CheckStorage(q) /\ UnderByteQuota(q))
  <2>1. Coming(q)' \in SUBSET Coming(q)
    BY <1>2, ComingStep
  <2>2. Bytes(Coming(q)') <= Bytes(Coming(q)) /\ Coming(q)' \in SUBSET Docs
    BY <1>0, <2>1, BytesMonotone
  <2>. QED BY <1>0, <2>2, BytesFinite, AdmissionAssumption
<1>. QED BY <1>1, <1>2

\* A request that passes the quota found no more than one limit; the others that run bring
\* no more than one each.
LEMMA ApprovalBounded ==
  ASSUME TypeOK, RequestsBounded, FilesInTurn, BytesReserved, [Next]_vars,
         NEW r \in Requests, CheckStorage(r), UnderByteQuota(r)
  PROVE  /\ Committed' \cup UnderWay' \in SUBSET Docs
         /\ Bytes(Committed' \cup UnderWay') <= MaxOpen * (ByteLimit - 1)
<1> DEFINE L == ByteLimit - 1
           Q == Open \ {r}
           F == [q \in Q |-> BytesIn(Coming(q))]
           S == Committed \cup Own(r) \cup {<<r, at[r]>>}
           Rest == UNION {Coming(q) : q \in Q}
<1>1. L \in Nat /\ MaxOpen \in Nat /\ MaxOpen - 1 \in Nat
  BY AdmissionAssumption
<1>2. IsFiniteSet(Q) /\ Cardinality(Q) \in Nat /\ Cardinality(Q) <= MaxOpen - 1
  <2>1. r \in Open
    BY DEF CheckStorage, Go, SkipFile, Open, Working
  <2>2. IsFiniteSet(Q) /\ Cardinality(Q) = Cardinality(Open) - 1
    BY <2>1, SetsFinite, FS_RemoveElement
  <2>. QED BY <2>2, SetsFinite, FS_CardinalityType, AdmissionAssumption DEF RequestsBounded
<1>3. S \in SUBSET Docs /\ Bytes(S) <= L /\ Bytes(S) \in Nat
  BY QuotaHolds, BytesFinite
<1>4. Rest \in SUBSET Docs /\ Bytes(Rest) <= Cardinality(Q) * L /\ Bytes(Rest) \in Nat
  <2>1. ASSUME NEW q \in Q
        PROVE  Coming(q) \in SUBSET Docs /\ Bytes(Coming(q)) <= L
    BY ComingFiles DEF BytesReserved, Open
  <2>2. \A q \in Q : IsFiniteSet(F[q]) /\ Cardinality(F[q]) <= L
    BY <2>1, BytesFinite
  <2>3. BytesIn(Rest) = UNION {F[q] : q \in Q}
    BY DEF BytesIn
  <2>4. Rest \in SUBSET Docs
    BY <2>1
  <2> HIDE DEF F, Q, L
  <2>5. Cardinality(UNION {F[q] : q \in Q}) <= Cardinality(Q) * L
    BY <1>1, <1>2, <2>2, UnionBound
  <2>. QED BY <2>3, <2>4, <2>5, BytesFinite
<1>5. Committed' \cup UnderWay' \in SUBSET (S \cup Rest)
  <2>1. UNCHANGED row
    BY DEF CheckStorage, docVars
  <2>2. Committed' \subseteq Committed
    BY <2>1 DEF Committed
  <2>3. ASSUME NEW q \in Requests, NEW x \in Coming(q)' PROVE x \in S \cup Rest
    <3>1. CASE q = r
      <4>1. pc[r] # "approved"
        BY DEF CheckStorage, Go, SkipFile
      <4>. QED BY <2>3, <3>1, <4>1, ComingStep DEF Coming
    <3>2. CASE q # r
      <4>1. ~CheckStorage(q)
        BY <3>2 DEF CheckStorage, Go, SkipFile, TypeOK
      <4>2. x \in Coming(q)
        BY <2>3, <4>1, ComingStep
      <4>3. q \in Open
        BY <4>2 DEF Coming, Own, Open, FilesInTurn, Working
      <4>. QED BY <3>2, <4>2, <4>3
    <3>. QED BY <3>1, <3>2
  <2>. QED BY <2>2, <2>3 DEF UnderWay
<1> HIDE DEF L, Q, S, Rest
<1>6. Bytes(S \cup Rest) <= Bytes(S) + Bytes(Rest) /\ S \cup Rest \in SUBSET Docs
  BY <1>3, <1>4, BytesSubadditive
<1>7. Bytes(Committed' \cup UnderWay') <= Bytes(S \cup Rest)
  BY <1>5, <1>6, BytesMonotone
<1>8. Committed' \cup UnderWay' \in SUBSET Docs
  BY <1>5, <1>6
<1>9. /\ Cardinality(Q) * L <= (MaxOpen - 1) * L
      /\ Cardinality(Q) * L \in Nat /\ (MaxOpen - 1) * L \in Nat
  <2>1. L * Cardinality(Q) <= L * (MaxOpen - 1)
    BY <1>1, <1>2, ScaleMonotone
  <2>2. \A m, n \in Nat : m * n = n * m /\ m * n \in Nat
    OBVIOUS
  <2>. QED BY <1>1, <1>2, <2>1, <2>2
<1>10. MaxOpen * L = (MaxOpen - 1) * L + L
  <2>1. \A m, n \in Int : m * n = (m - 1) * n + n
    OBVIOUS
  <2>. QED BY <1>1, <2>1
<1>11. Bytes(S \cup Rest) \in Nat /\ Bytes(Committed' \cup UnderWay') \in Nat
  BY <1>6, <1>8, BytesFinite
<1>12. Bytes(Committed' \cup UnderWay') <= MaxOpen * L
  <2>1. \A a, b, c, d, e, k \in Nat : a <= b /\ b <= c + d /\ c <= k /\ d <= e => a <= e + k
    OBVIOUS
  <2>2. Bytes(Rest) <= (MaxOpen - 1) * L
    BY <1>4, <1>9
  <2>. QED BY <1>1, <1>3, <1>4, <1>6, <1>7, <1>9, <1>10, <1>11, <2>1, <2>2
<1>. QED BY <1>8, <1>12 DEF L

LEMMA StepBytes ==
  ASSUME TypeOK, RequestsBounded, FilesInTurn, BytesReserved, [Next]_vars,
         TypeOK', FilesInTurn'
  PROVE  BytesReserved'
<1>1. \A q \in Requests : Bytes(Coming(q)') <= ByteLimit - 1
  BY StepOneLimit
<1>2. Bytes(Committed' \cup UnderWay') <= MaxOpen * (ByteLimit - 1)
  <2>1. CASE \E r \in Requests : CheckStorage(r) /\ UnderByteQuota(r)
    BY <2>1, ApprovalBounded
  <2>2. CASE ~ \E r \in Requests : CheckStorage(r) /\ UnderByteQuota(r)
    <3>1. UnderWay' \subseteq UnderWay
      BY <2>2, ComingStep DEF UnderWay
    <3>2. Committed' \cup UnderWay' \in SUBSET (Committed \cup UnderWay)
      BY <3>1, CommittedComing
    <3>3. Committed \cup UnderWay \in SUBSET Docs
      BY ComingFiles DEF Committed, UnderWay
    <3>4. Bytes(Committed' \cup UnderWay') <= Bytes(Committed \cup UnderWay)
      BY <3>2, <3>3, BytesMonotone
    <3>5. Bytes(Committed \cup UnderWay) \in Nat /\ Bytes(Committed' \cup UnderWay') \in Nat
      BY <3>2, <3>3, BytesFinite
    <3>6. MaxOpen * (ByteLimit - 1) \in Nat
      BY AdmissionAssumption
    <3>. QED BY <3>4, <3>5, <3>6 DEF BytesReserved, UnderWay
  <2>. QED BY <2>1, <2>2
<1>. QED BY <1>1, <1>2 DEF BytesReserved, UnderWay

-----------------------------------------------------------------------------
LEMMA InitInv == Init => AdmissionInv
<1> SUFFICES ASSUME Init PROVE AdmissionInv
  OBVIOUS
<1>1. TypeOK
  BY DEF Init, TypeOK
<1>2. Open = {} /\ Admitted = {} /\ Committed = {}
  BY DEF Init, Open, Working, Admitted, Committed, Statuses
<1>3. RequestsBounded
  BY <1>2, FS_EmptySet, AdmissionAssumption DEF RequestsBounded, Init
<1>4. RoomForAdmitted
  <2>1. MaxOpen * MaxBatch \in Nat /\ MaxBatch * 0 = 0 /\ DocLimit - 1 \in Nat
    BY AdmissionAssumption
  <2>. QED BY <1>2, <2>1, FS_EmptySet DEF RoomForAdmitted
<1>5. FilesInTurn
  BY DEF Init, FilesInTurn, Checked
<1>6. \A c : Copies(c) = {} /\ Carriers(c) = {}
  BY <1>2 DEF Init, Copies, Carriers, Checked, Own
<1>7. CopiesReserved
  <2>1. \A x \in Docs : row[x] # "failed"
    BY DEF Init
  <2>2. \A r \in Requests : Own(r) = {}
    BY DEF Init, Own
  <2>3. \A c \in Contents : Cardinality(Copies(c)) + Cardinality(Carriers(c)) <= MaxOpen
    <3>1. \A c : Cardinality(Copies(c)) = 0 /\ Cardinality(Carriers(c)) = 0
      BY <1>6, FS_EmptySet
    <3>. QED BY <3>1, AdmissionAssumption
  <2>. QED BY <2>1, <2>2, <2>3 DEF CopiesReserved
<1>8. BytesReserved
  <2>1. \A r \in Requests : Coming(r) = {}
    BY DEF Init, Coming, Own
  <2>2. UNION {Coming(r) : r \in Requests} = {}
    BY <2>1
  <2>3. Bytes({}) = 0
    BY FS_EmptySet DEF Bytes
  <2>4. ByteLimit - 1 \in Nat /\ MaxOpen * (ByteLimit - 1) \in Nat
    BY AdmissionAssumption
  <2>5. \A r \in Requests : Bytes(Coming(r)) <= ByteLimit - 1
    BY <2>1, <2>3, <2>4
  <2>6. Committed \cup UNION {Coming(r) : r \in Requests} = {}
    BY <1>2, <2>2
  <2>7. Bytes(Committed \cup UNION {Coming(r) : r \in Requests}) = 0
    BY <2>3, <2>6, Zenon
  <2>. QED BY <2>4, <2>5, <2>7 DEF BytesReserved
<1>. QED BY <1>1, <1>3, <1>4, <1>5, <1>7, <1>8 DEF AdmissionInv

\* In every reachable state, every admitted request still has room for a whole batch below
\* the bound.
THEOREM AdmissionInvariant == Spec => []AdmissionInv
<1>1. AdmissionInv /\ [Next]_vars => AdmissionInv'
  BY StepTyped, StepRequestsBounded, StepRoom, StepFiles, StepCopies, StepBytes
  DEF AdmissionInv
<1>. QED BY InitInv, <1>1, PTL DEF Spec

\* The document limit is overshot by no more than the files of the requests that run at
\* the same time.
THEOREM OvershootCorrect == Spec => []OvershootBounded
<1>1. AdmissionInv => OvershootBounded
  <2>1. MaxBatch * Cardinality(Admitted) \in Nat
    BY SetsFinite, AdmissionAssumption
  <2>. QED BY <2>1, SetsFinite, AdmissionAssumption
       DEF AdmissionInv, RoomForAdmitted, OvershootBounded
<1>. QED BY <1>1, AdmissionInvariant, PTL

\* The storage limit is overshot by no more than one limit for each further request that
\* runs at the same time, whatever the sizes of the files.
THEOREM StorageCorrect == Spec => []StorageBounded
<1>1. AdmissionInv => StorageBounded
  <2> SUFFICES ASSUME AdmissionInv PROVE StorageBounded
    OBVIOUS
  <2>1. Committed \cup UnderWay \in SUBSET Docs
    BY ComingFiles DEF AdmissionInv, Committed, UnderWay
  <2>2. Bytes(Committed) <= Bytes(Committed \cup UnderWay)
    BY <2>1, BytesMonotone
  <2>3. /\ Bytes(Committed) \in Nat /\ Bytes(Committed \cup UnderWay) \in Nat
        /\ MaxOpen * (ByteLimit - 1) \in Nat
    BY <2>1, BytesFinite, AdmissionAssumption
  <2>4. Bytes(Committed \cup UnderWay) <= MaxOpen * (ByteLimit - 1)
    BY DEF AdmissionInv, BytesReserved, UnderWay
  <2>. QED BY <2>2, <2>3, <2>4 DEF StorageBounded
<1>. QED BY <1>1, AdmissionInvariant, PTL

\* However often a file is uploaded, it is admitted at most once per request that runs at
\* the same time, until it fails.
THEOREM CopiesCorrect == Spec => []CopiesBounded
<1>1. AdmissionInv => CopiesBounded
  BY CopiesFinite, AdmissionAssumption DEF AdmissionInv, CopiesReserved, CopiesBounded
<1>. QED BY <1>1, AdmissionInvariant, PTL

-----------------------------------------------------------------------------
\* The sizes of two parts of a finite set that have nothing in common.
LEMMA PartsOf ==
  ASSUME NEW S, IsFiniteSet(S), NEW A \in SUBSET S, NEW B \in SUBSET S, A \cap B = {}
  PROVE  /\ Cardinality(S) \in Nat /\ Cardinality(A) \in Nat /\ Cardinality(B) \in Nat
         /\ Cardinality(A) = 0 <=> A = {}
         /\ Cardinality(B) = 0 <=> B = {}
         /\ Cardinality(A) + Cardinality(B) >= Cardinality(S) => S = A \cup B
<1>1. IsFiniteSet(A) /\ IsFiniteSet(B) /\ Cardinality(A \cap B) = 0
  BY FS_Subset, FS_EmptySet
<1>2. /\ Cardinality(S) \in Nat /\ Cardinality(A) \in Nat /\ Cardinality(B) \in Nat
  BY <1>1, FS_CardinalityType
<1>3. Cardinality(A \cup B) = Cardinality(A) + Cardinality(B)
  <2>1. Cardinality(A \cup B) = Cardinality(A) + Cardinality(B) - Cardinality(A \cap B)
    BY <1>1, FS_Union
  <2>. QED BY <1>1, <1>2, <2>1
<1>4. A \cup B \in SUBSET S
  OBVIOUS
<1>5. /\ Cardinality(A \cup B) <= Cardinality(S)
      /\ Cardinality(S) = Cardinality(A \cup B) => S = A \cup B
  BY <1>4, FS_Subset
<1>. QED BY <1>1, <1>2, <1>3, <1>5, FS_EmptySet

\* A batch is reported as completed, failed or partial only when every document it was
\* accepted with has been settled that way.
THEOREM BatchCorrect == Spec => []BatchHonest
<1>1. BatchHonest
  <2> SUFFICES ASSUME NEW r \in Batches
               PROVE  LET settled == {row[x] : x \in Accepted(r)} IN
                      /\ AggregateStatus(r) = "completed" => settled = {"completed"}
                      /\ AggregateStatus(r) = "failed" => settled = {"failed"}
                      /\ AggregateStatus(r) = "partial" => settled = {"completed", "failed"}
    BY DEF BatchHonest
  <2> DEFINE S == Accepted(r)
             A == {x \in S : row[x] = "completed"}
             B == {x \in S : row[x] = "failed"}
             waiting == Having(r, "pending") + Having(r, "processing")
  <2>1. IsFiniteSet(S)
    BY DocsFinite, FS_Subset, S \in SUBSET Docs DEF Accepted
  <2>2. A \cap B = {} /\ A \in SUBSET S /\ B \in SUBSET S
    OBVIOUS
  <2>3. /\ Having(r, "completed") = Cardinality(A) /\ Having(r, "failed") = Cardinality(B)
        /\ Total(r) = Cardinality(S)
    BY DEF Having, Total
  <2>4. waiting \in Nat
    <3>1. ASSUME NEW s PROVE Having(r, s) \in Nat
      <4>1. {x \in S : row[x] = s} \in SUBSET S
        OBVIOUS
      <4>. QED BY <2>1, <4>1, FS_Subset, FS_CardinalityType DEF Having
    <3>. QED BY <3>1
  <2> HIDE DEF S, A, B, waiting
  <2>5. /\ Cardinality(S) \in Nat /\ Cardinality(A) \in Nat /\ Cardinality(B) \in Nat
        /\ Cardinality(A) = 0 <=> A = {}
        /\ Cardinality(B) = 0 <=> B = {}
        /\ Cardinality(A) + Cardinality(B) >= Cardinality(S) => S = A \cup B
    BY <2>1, <2>2, PartsOf
  <2>6. AggregateStatus(r) \in {"completed", "failed", "partial"} =>
          /\ Cardinality(A) + Cardinality(B) # 0
          /\ Cardinality(A) + Cardinality(B) >= Cardinality(S)
          /\ AggregateStatus(r) = "completed" <=> Cardinality(B) = 0
          /\ AggregateStatus(r) = "failed" <=> Cardinality(B) # 0 /\ Cardinality(A) = 0
    BY <2>3, <2>4, <2>5 DEF AggregateStatus, waiting
  <2>7. /\ AggregateStatus(r) = "completed" => S = A /\ A # {}
        /\ AggregateStatus(r) = "failed" => S = B /\ B # {}
        /\ AggregateStatus(r) = "partial" => S = A \cup B /\ A # {} /\ B # {}
    BY <2>5, <2>6
  <2>. QED BY <2>7 DEF S, A, B
<1>. QED BY <1>1, PTL
=============================================================================
