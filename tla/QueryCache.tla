------------------------------ MODULE QueryCache ------------------------------
(***************************************************************************)
(* The cache of query answers (cache/query_cache.py) of one tenant, with   *)
(* everyone who reads, fills and invalidates it:                           *)
(*                                                                         *)
(*   - queries (generation/router.py), which look an answer up, search the *)
(*     index on a miss, let the model write the answer and then cache it;  *)
(*   - upload and DELETE requests (documents/router.py), which invalidate  *)
(*     the cache before the middleware commits their transaction;          *)
(*   - the processing job (jobs/tasks.py), which invalidates it after the  *)
(*     transaction that stores the chunks, and never when it is cut off in *)
(*     between;                                                            *)
(*   - the nightly cleanup, which removes documents and leaves the cache   *)
(*     alone.                                                              *)
(*                                                                         *)
(* The index is the set of documents whose chunks a search can find; an    *)
(* answer is the part of the index its searches saw.  Streamed answers and *)
(* conversations bypass the cache, and the hit counters decide nothing.    *)
(***************************************************************************)

CONSTANTS
  Docs,
  Supersedes,  \* Supersedes[d]: earlier versions whose stale chunks leave when d is stored
  Keys,        \* cache keys: a question with its search filters
  Clients,
  NoEntry      \* no value under a key

Entries == [docs : SUBSET Docs, exact : BOOLEAN]

ASSUME CacheAssumption ==
  /\ Supersedes \in [Docs -> SUBSET Docs]
  /\ NoEntry \notin Entries

\* Everyone who calls invalidate_tenant.
Callers == {"upload", "job", "delete"} \X Docs

VARIABLES
  row,    \* the committed document: "absent", "pending", "indexed" or "gone"
  index,  \* the documents a search finds
  stage,  \* how far each caller of invalidate_tenant has come
  found,  \* the keys its scan returned
  entry,  \* the cached answers; exact: the index had not moved when it was cached
  pc,     \* where the query of each client stands
  asked,  \* the key of that query
  seen    \* what its searches saw

indexVars == <<row, index>>
callVars  == <<stage, found>>
queryVars == <<pc, asked, seen>>
vars == <<indexVars, callVars, entry, queryVars>>

TypeOK ==
  /\ row \in [Docs -> {"absent", "pending", "indexed", "gone"}]
  /\ index \subseteq Docs
  /\ stage \in [Callers -> {"waiting", "called", "scanned", "returned", "cut"}]
  /\ found \in [Callers -> SUBSET Keys]
  /\ entry \in [Keys -> Entries \cup {NoEntry}]
  /\ pc \in [Clients -> {"idle", "missed", "searched"}]
  /\ asked \in [Clients -> Keys]
  /\ seen \in [Clients -> SUBSET Docs]

Init ==
  /\ row = [d \in Docs |-> "absent"]
  /\ index = {}
  /\ stage = [c \in Callers |-> "waiting"]
  /\ found = [c \in Callers |-> {}]
  /\ entry = [k \in Keys |-> NoEntry]
  /\ pc = [q \in Clients |-> "idle"]
  /\ asked \in [Clients -> Keys]
  /\ seen = [q \in Clients |-> {}]

-----------------------------------------------------------------------------
(***************************************************************************)
(* invalidate_tenant.  The scan is not atomic, but what it does to one key *)
(* it does at one moment, and every property below is about single keys.   *)
(***************************************************************************)

Present == {k \in Keys : entry[k] # NoEntry}

Advance(c, from, to) ==
  /\ stage[c] = from
  /\ stage' = [stage EXCEPT ![c] = to]

ScanKeys(c) ==
  /\ \/ Present # {} /\ Advance(c, "called", "scanned")
     \/ Present = {} /\ Advance(c, "called", "returned")
  /\ found' = [found EXCEPT ![c] = Present]
  /\ UNCHANGED <<indexVars, entry, queryVars>>

DeleteKeys(c) ==
  /\ Advance(c, "scanned", "returned")
  /\ entry' = [k \in Keys |-> IF k \in found[c] THEN NoEntry ELSE entry[k]]
  /\ found' = [found EXCEPT ![c] = {}]
  /\ UNCHANGED <<indexVars, queryVars>>

-----------------------------------------------------------------------------
(***************************************************************************)
(* Documents come and go.                                                  *)
(***************************************************************************)

\* upload_document has enqueued the job and invalidates the cache; its row follows.
CallFromUpload(d) ==
  /\ Advance(<<"upload", d>>, "waiting", "called")
  /\ UNCHANGED <<indexVars, found, entry, queryVars>>

CommitUpload(d) ==
  /\ stage[<<"upload", d>>] = "returned"
  /\ row[d] = "absent"
  /\ row' = [row EXCEPT ![d] = "pending"]
  /\ UNCHANGED <<index, callVars, entry, queryVars>>

IndexWith(d) == (index \ Supersedes[d]) \cup {d}

\* The job holds no Redis connection, so it does not invalidate the cache.
StoreIndexOnly(d) ==
  /\ row[d] = "pending"
  /\ stage[<<"delete", d>>] = "waiting"
  /\ Advance(<<"job", d>>, "waiting", "returned")
  /\ row' = [row EXCEPT ![d] = "indexed"]
  /\ index' = IndexWith(d)
  /\ UNCHANGED <<found, entry, queryVars>>

\* The job's last transaction commits the chunks; invalidation comes next.  The row
\* lock of a DELETE that has been flushed keeps the transaction out.
StoreIndex(d) ==
  /\ row[d] = "pending"
  /\ stage[<<"delete", d>>] = "waiting"
  /\ Advance(<<"job", d>>, "waiting", "called")
  /\ row' = [row EXCEPT ![d] = "indexed"]
  /\ index' = IndexWith(d)
  /\ UNCHANGED <<found, entry, queryVars>>

\* A crash, the job timeout or an error of Redis stops the job before the invalidation
\* is through.  A redelivered job fails on its own chunks and does not get there either.
CutJob(d) ==
  /\ stage[<<"job", d>>] \in {"called", "scanned"}
  /\ stage' = [stage EXCEPT ![<<"job", d>>] = "cut"]
  /\ found' = [found EXCEPT ![<<"job", d>>] = {}]
  /\ UNCHANGED <<indexVars, entry, queryVars>>

RemoveDoc(d) ==
  /\ row' = [row EXCEPT ![d] = "gone"]
  /\ index' = index \ {d}

\* delete_document has flushed its DELETE and invalidates the cache.
CallFromDelete(d) ==
  /\ row[d] \in {"pending", "indexed"}
  /\ Advance(<<"delete", d>>, "waiting", "called")
  /\ UNCHANGED <<indexVars, found, entry, queryVars>>

\* The middleware commits it.
CommitDelete(d) ==
  /\ row[d] \in {"pending", "indexed"}
  /\ stage[<<"delete", d>>] = "returned"
  /\ RemoveDoc(d)
  /\ UNCHANGED <<callVars, entry, queryVars>>

\* invalidate_tenant or the commit raise, or the API process dies.
RollbackDelete(d) ==
  /\ row[d] \in {"pending", "indexed"}
  /\ stage[<<"delete", d>>] \in {"called", "scanned", "returned"}
  /\ stage' = [stage EXCEPT ![<<"delete", d>>] = "waiting"]
  /\ found' = [found EXCEPT ![<<"delete", d>>] = {}]
  /\ UNCHANGED <<indexVars, entry, queryVars>>

\* The cleanup deletes a document whose job failed after its chunks were stored.
PurgeFailed(d) ==
  /\ row[d] = "indexed"
  /\ stage[<<"job", d>>] = "cut"
  /\ stage[<<"delete", d>>] = "waiting"
  /\ RemoveDoc(d)
  /\ UNCHANGED <<callVars, entry, queryVars>>

-----------------------------------------------------------------------------
(***************************************************************************)
(* Queries.  A hit is answered from the entry and changes nothing.         *)
(***************************************************************************)

MissCache(q, k) ==
  /\ pc[q] = "idle"
  /\ entry[k] = NoEntry
  /\ pc' = [pc EXCEPT ![q] = "missed"]
  /\ asked' = [asked EXCEPT ![q] = k]
  /\ UNCHANGED <<indexVars, callVars, entry, seen>>

\* One search; a decomposed question is searched for several times and the results are
\* merged.
SearchIndex(q) ==
  /\ pc[q] \in {"missed", "searched"}
  /\ pc' = [pc EXCEPT ![q] = "searched"]
  /\ seen' = [seen EXCEPT ![q] = @ \cup index]
  /\ UNCHANGED <<indexVars, callVars, entry, asked>>

\* The model has written the answer; it is cached whatever has happened since.
CacheAnswer(q) ==
  /\ pc[q] = "searched"
  /\ entry' = [entry EXCEPT ![asked[q]] = [docs |-> seen[q], exact |-> seen[q] = index]]
  /\ pc' = [pc EXCEPT ![q] = "idle"]
  /\ seen' = [seen EXCEPT ![q] = {}]
  /\ UNCHANGED <<indexVars, callVars, asked>>

\* Search, model or cache fail: nothing is cached.
QueryFails(q) ==
  /\ pc[q] # "idle"
  /\ pc' = [pc EXCEPT ![q] = "idle"]
  /\ seen' = [seen EXCEPT ![q] = {}]
  /\ UNCHANGED <<indexVars, callVars, entry, asked>>

\* A mutant of Expire: entries are written without a time to live.
ExpireNever(k) == FALSE /\ k \in Keys /\ UNCHANGED vars

\* The time to live runs out, or Redis evicts the key.
Expire(k) ==
  /\ entry[k] # NoEntry
  /\ entry' = [entry EXCEPT ![k] = NoEntry]
  /\ UNCHANGED <<indexVars, callVars, queryVars>>

-----------------------------------------------------------------------------
Invalidate == \E c \in Callers : ScanKeys(c) \/ DeleteKeys(c)

Change(d) ==
  \/ CallFromUpload(d) \/ CommitUpload(d) \/ StoreIndex(d) \/ CutJob(d)
  \/ CallFromDelete(d) \/ CommitDelete(d) \/ RollbackDelete(d) \/ PurgeFailed(d)

Query(q) ==
  (\E k \in Keys : MissCache(q, k)) \/ SearchIndex(q) \/ CacheAnswer(q) \/ QueryFails(q)

Next ==
  \/ Invalidate
  \/ \E d \in Docs : Change(d)
  \/ \E q \in Clients : Query(q)
  \/ \E k \in Keys : Expire(k)

Spec == Init /\ [][Next]_vars

\* Entries are written with SETEX, so Redis removes each one; a query that has begun
\* ends, in an answer or an error.
Fairness ==
  /\ \A k \in Keys : WF_vars(Expire(k))
  /\ \A q \in Clients : WF_vars(pc[q] = "missed" /\ SearchIndex(q))
  /\ \A q \in Clients : WF_vars(CacheAnswer(q) \/ QueryFails(q))

FairSpec == Spec /\ Fairness

-----------------------------------------------------------------------------
(***************************************************************************)
(* Properties.                                                             *)
(***************************************************************************)

\* The answer under k misses nothing that is indexed, and what it has beyond that comes
\* from documents that were deleted, not from superseded versions.
Reflects(k) ==
  /\ index \subseteq entry[k].docs
  /\ \A d \in entry[k].docs \ index : row[d] = "gone"

Exact(k) == entry[k] # NoEntry /\ entry[k].exact

\* When every job has invalidated the cache after storing its chunks, the cached answers
\* reflect what was indexed, save for those whose query was overtaken by a change
\* between its searches and its caching (process_document, "so the newly indexed content
\* is reflected").
IndexingReflected ==
  (\A d \in Docs : stage[<<"job", d>>] \in {"waiting", "returned"})
    => \A k \in Keys : Exact(k) => Reflects(k)

\* Once documents stop changing, every stale answer eventually leaves the cache,
\* whoever failed to invalidate it: the time to live bounds the damage.
EventuallyFresh ==
  <>[](\A k \in Keys : entry[k] # NoEntry => entry[k].docs = index)

\* After a DELETE request has succeeded, no answer is cached that rests on the deleted
\* document, unless its query was under way (invalidate_tenant, "so that subsequent
\* queries reflect the updated knowledge base").
DeletionReflected ==
  \A k \in Keys : Exact(k) =>
    \A d \in entry[k].docs : ~(row[d] = "gone" /\ stage[<<"delete", d>>] = "returned")

\* The inductive invariant: an exact answer that no longer reflects the index is within
\* reach of a job's invalidation, or a job was cut off.
InReach(k) ==
  \E d \in Docs :
    \/ stage[<<"job", d>>] \in {"called", "cut"}
    \/ stage[<<"job", d>>] = "scanned" /\ k \in found[<<"job", d>>]

StaleInReach == \A k \in Keys : Exact(k) => Reflects(k) \/ InReach(k)

CacheInv == TypeOK /\ StaleInReach
=============================================================================
