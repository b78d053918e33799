---------------------------- MODULE KnowledgeBase ----------------------------
(***************************************************************************)
(* Indexing and Answering together: a file is uploaded and processed,      *)
(* version after version, or deleted, while a request searches the chunks, *)
(* statement by statement, and answers.                                    *)
(***************************************************************************)
EXTENDS Answering

VARIABLE seen  \* the rows that were in the table at some moment of the request

kbVars == <<indexVars, askVars, seen>>

TypeOK == IndexTypeOK /\ AskTypeOK /\ seen \subseteq Row

Init == IndexInit /\ AskInit /\ seen = {}

\* The table changes while the request waits.
Observe == seen' = IF pc \in {"idle", "over"} THEN seen ELSE seen \cup rows'

IndexWork   == Work /\ Observe /\ UNCHANGED askVars
Managed     == Manage /\ Observe /\ UNCHANGED askVars
AskWork     == AskStep /\ UNCHANGED <<indexVars, seen>>
ClientGoes  == Leave /\ UNCHANGED <<indexVars, seen>>
ClientComes == (\E r \in Requests : Begin(r)) /\ seen' = rows /\ UNCHANGED indexVars

Next == IndexWork \/ Managed \/ AskWork \/ ClientGoes \/ ClientComes

\* Every call of a job and of a request has a timeout, and their retries are counted:
\* workers and servers together do not stop while one of them has something to do.
Fairness == WF_kbVars(IndexWork \/ AskWork)

Spec == Init /\ [][Next]_kbVars /\ Fairness

-----------------------------------------------------------------------------

\* Everything a request lists, gives to the model or names as a source was in the table
\* at some moment of the request and passes its filter, with jobs filling the table and
\* deletions emptying it between its sub-queries.
SourcesGrounded ==
  pc # "idle" =>
    \A r \in FoundRows \cup RowsIn(hits) \cup RowsIn(sources) :
      r \in seen /\ (req.filter = {} \/ r.doc \in req.filter)

\* Every request is answered, or left by its client.
RequestsEnd == pc # "idle" ~> pc = "over"
=============================================================================
