-------------------------- MODULE DocumentLifecycle --------------------------
(***************************************************************************)
(* What a tenant may rely on about the life of one document, whatever the  *)
(* interleaving of upload requests, background jobs, deletions and the     *)
(* nightly cleanup.  A document is unborn until its upload request has     *)
(* ended; it is then either a row with a status or gone for good.          *)
(* DocumentPipeline implements this specification.                         *)
(***************************************************************************)

CONSTANT Docs

VARIABLE phase   \* the phase of the life of every document

Phases == {"unborn", "pending", "processing", "completed", "failed", "gone"}

Init == phase = [d \in Docs |-> "unborn"]

Move(d, from, to) ==
  /\ phase[d] \in from
  /\ phase' = [phase EXCEPT ![d] = to]

\* The upload request ends: with a pending row, or with nothing.
Register(d) == Move(d, {"unborn"}, "pending")
Abandon(d)  == Move(d, {"unborn"}, "gone")

\* A run of the background job begins.  Every delivery of the job does this,
\* so a document that had already settled may be taken up again.
Begin(d) == Move(d, Phases \ {"unborn", "gone"}, "processing")

\* A run ends well.  A job that was started before the row was visible settles
\* a document straight from pending; a redelivered one whose first run was cut
\* off settles a completed document once more.
Complete(d) == Move(d, {"pending", "processing"}, "completed")

\* A run ends badly, possibly after its own success was already stored.
Fail(d) == Move(d, {"pending", "processing", "completed"}, "failed")

\* Rows are deleted: one by its tenant, or several at once by the cleanup.
Remove(D) ==
  /\ \A d \in D : phase[d] # "unborn"
  /\ phase' = [d \in Docs |-> IF d \in D THEN "gone" ELSE phase[d]]

Next ==
  \/ \E d \in Docs :
       Register(d) \/ Abandon(d) \/ Begin(d) \/ Complete(d) \/ Fail(d)
  \/ \E D \in SUBSET Docs : Remove(D)

Spec == Init /\ [][Next]_phase
=============================================================================
