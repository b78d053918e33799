--------------------------- MODULE QueryCacheProofs ---------------------------
(***************************************************************************)
(* Proofs about QueryCache, for any number of documents, keys and clients: *)
(* the type invariant and, from the inductive invariant CacheInv, that the *)
(* cached answers reflect what the jobs have indexed.                      *)
(***************************************************************************)
EXTENDS QueryCache, TLAPS

LEMMA CallersOfDoc ==
  ASSUME NEW d \in Docs
  PROVE  /\ <<"upload", d>> \in Callers
         /\ <<"job", d>> \in Callers
         /\ <<"delete", d>> \in Callers
  BY DEF Callers

\* The initial states have their types: nothing exists, nobody calls, no query runs.
LEMMA InitTyped == Init => TypeOK
  BY DEF Init, TypeOK, Entries

LEMMA StepTyped ==
  ASSUME TypeOK, [Next]_vars
  PROVE  TypeOK'
<1> USE DEF TypeOK
<1>1. CASE Invalidate
  <2>1. ASSUME NEW c \in Callers, ScanKeys(c) PROVE TypeOK'
    BY <2>1 DEF ScanKeys, Advance, Present, indexVars, queryVars
  <2>2. ASSUME NEW c \in Callers, DeleteKeys(c) PROVE TypeOK'
    BY <2>2 DEF DeleteKeys, Advance, indexVars, queryVars
  <2>. QED BY <1>1, <2>1, <2>2 DEF Invalidate
<1>2. ASSUME NEW d \in Docs, Change(d) PROVE TypeOK'
  <2>1. CASE CallFromUpload(d)
    BY <2>1, CallersOfDoc DEF CallFromUpload, Advance, indexVars, queryVars
  <2>2. CASE CommitUpload(d)
    BY <2>2 DEF CommitUpload, callVars, queryVars
  <2>3. CASE StoreIndex(d)
    BY <2>3, CallersOfDoc DEF StoreIndex, IndexWith, Advance, queryVars
  <2>4. CASE CutJob(d)
    BY <2>4, CallersOfDoc DEF CutJob, indexVars, queryVars
  <2>5. CASE CallFromDelete(d)
    BY <2>5, CallersOfDoc DEF CallFromDelete, Advance, indexVars, queryVars
  <2>6. CASE CommitDelete(d)
    BY <2>6 DEF CommitDelete, RemoveDoc, callVars, queryVars
  <2>7. CASE RollbackDelete(d)
    BY <2>7, CallersOfDoc DEF RollbackDelete, indexVars, queryVars
  <2>8. CASE PurgeFailed(d)
    BY <2>8 DEF PurgeFailed, RemoveDoc, callVars, queryVars
  <2>. QED
    BY <1>2, <2>1, <2>2, <2>3, <2>4, <2>5, <2>6, <2>7, <2>8 DEF Change
<1>3. ASSUME NEW q \in Clients, Query(q) PROVE TypeOK'
  <2>1. ASSUME NEW k \in Keys, MissCache(q, k) PROVE TypeOK'
    BY <2>1 DEF MissCache, indexVars, callVars
  <2>2. CASE SearchIndex(q)
    BY <2>2 DEF SearchIndex, indexVars, callVars
  <2>3. CASE CacheAnswer(q)
    BY <2>3 DEF CacheAnswer, Entries, indexVars, callVars
  <2>4. CASE QueryFails(q)
    BY <2>4 DEF QueryFails, indexVars, callVars
  <2>. QED BY <1>3, <2>1, <2>2, <2>3, <2>4 DEF Query
<1>4. ASSUME NEW k \in Keys, Expire(k) PROVE TypeOK'
  BY <1>4 DEF Expire, indexVars, callVars, queryVars
<1>5. CASE UNCHANGED vars
  BY <1>5 DEF vars, indexVars, callVars, queryVars
<1>. QED BY <1>1, <1>2, <1>3, <1>4, <1>5 DEF Next

-----------------------------------------------------------------------------
\* An answer that reflects the index goes on reflecting it when a document is removed:
\* what the answer has too much is then gone.
LEMMA RemovalReflected ==
  ASSUME TypeOK, NEW d \in Docs, RemoveDoc(d), UNCHANGED entry,
         NEW k \in Keys, Reflects(k)
  PROVE  Reflects(k)'
  BY DEF TypeOK, RemoveDoc, Reflects

\* A step that leaves rows, index and the calls of the jobs alone keeps what is in reach.
LEMMA ReachKept ==
  ASSUME TypeOK, NEW k \in Keys, Exact(k) => Reflects(k) \/ InReach(k),
         UNCHANGED <<row, index>>, entry'[k] = entry[k],
         \A d \in Docs : /\ stage'[<<"job", d>>] = stage[<<"job", d>>]
                         /\ found'[<<"job", d>>] = found[<<"job", d>>]
  PROVE  (Exact(k) => Reflects(k) \/ InReach(k))'
  BY DEF Exact, Reflects, InReach

\* The scan of a caller returns every key that is present, so what is stale stays in
\* reach of it; its deletion takes the key away.
LEMMA InvalidationKeeps ==
  ASSUME TypeOK, StaleInReach, NEW c \in Callers, ScanKeys(c) \/ DeleteKeys(c),
         NEW k \in Keys, Exact(k)'
  PROVE  (Reflects(k) \/ InReach(k))'
<1> USE DEF TypeOK
<1>1. CASE ScanKeys(c)
  <2>1. Exact(k) /\ k \in Present /\ UNCHANGED <<row, index, entry>>
    BY <1>1 DEF ScanKeys, Exact, Present, indexVars
  <2>2. CASE Reflects(k)
    BY <2>1, <2>2 DEF Reflects
  <2>3. CASE InReach(k)
    <3>1. PICK d \in Docs : \/ stage[<<"job", d>>] \in {"called", "cut"}
                            \/ stage[<<"job", d>>] = "scanned" /\ k \in found[<<"job", d>>]
      BY <2>3 DEF InReach
    <3>2. CASE c = <<"job", d>>
      BY <1>1, <2>1, <3>2, CallersOfDoc DEF ScanKeys, Advance, InReach
    <3>3. CASE c # <<"job", d>>
      BY <1>1, <3>1, <3>3, CallersOfDoc DEF ScanKeys, Advance, InReach
    <3>. QED BY <3>2, <3>3
  <2>. QED BY <2>1, <2>2, <2>3 DEF StaleInReach
<1>2. CASE DeleteKeys(c)
  <2>1. k \notin found[c] /\ entry'[k] = entry[k] /\ UNCHANGED <<row, index>>
    BY <1>2 DEF DeleteKeys, Exact, indexVars
  <2>2. Reflects(k) \/ InReach(k)
    BY <2>1 DEF Exact, StaleInReach
  <2>3. CASE Reflects(k)
    BY <2>1, <2>3 DEF Reflects
  <2>4. CASE InReach(k)
    <3>1. PICK d \in Docs : \/ stage[<<"job", d>>] \in {"called", "cut"}
                            \/ stage[<<"job", d>>] = "scanned" /\ k \in found[<<"job", d>>]
      BY <2>4 DEF InReach
    <3>2. c # <<"job", d>>
      BY <1>2, <2>1, <3>1 DEF DeleteKeys, Advance
    <3>. QED BY <1>2, <3>1, <3>2, CallersOfDoc DEF DeleteKeys, Advance, InReach
  <2>. QED BY <2>2, <2>3, <2>4
<1>. QED BY <1>1, <1>2

LEMMA ChangeKeeps ==
  ASSUME TypeOK, StaleInReach, NEW d \in Docs, Change(d), NEW k \in Keys, Exact(k)'
  PROVE  (Reflects(k) \/ InReach(k))'
<1> USE DEF TypeOK
<1>0. UNCHANGED entry /\ Exact(k) /\ (Reflects(k) \/ InReach(k))
  BY DEF Change, CallFromUpload, CommitUpload, StoreIndex, CutJob, CallFromDelete,
         CommitDelete, RollbackDelete, PurgeFailed, Exact, StaleInReach
<1>1. CASE CallFromUpload(d)
  BY <1>0, <1>1, ReachKept, CallersOfDoc
  DEF CallFromUpload, Advance, indexVars, StaleInReach, Exact
<1>2. CASE CommitUpload(d)
  BY <1>0, <1>2 DEF CommitUpload, callVars, Reflects, InReach
<1>3. CASE StoreIndex(d)
  BY <1>3, CallersOfDoc DEF StoreIndex, Advance, InReach
<1>4. CASE CutJob(d)
  <2>1. stage'[<<"job", d>>] = "cut"
    BY <1>4, CallersOfDoc DEF CutJob
  <2>. QED BY <2>1 DEF InReach
<1>5. CASE CallFromDelete(d)
  BY <1>0, <1>5, ReachKept, CallersOfDoc
  DEF CallFromDelete, Advance, indexVars, StaleInReach, Exact
<1>6. CASE CommitDelete(d) \/ PurgeFailed(d)
  <2>1. RemoveDoc(d) /\ UNCHANGED callVars
    BY <1>6 DEF CommitDelete, PurgeFailed
  <2>2. CASE Reflects(k)
    BY <1>0, <2>1, <2>2, RemovalReflected
  <2>3. CASE InReach(k)
    BY <2>1, <2>3 DEF InReach, callVars
  <2>. QED BY <1>0, <2>2, <2>3
<1>7. CASE RollbackDelete(d)
  BY <1>0, <1>7, ReachKept, CallersOfDoc
  DEF RollbackDelete, indexVars, StaleInReach, Exact
<1>. QED BY <1>1, <1>2, <1>3, <1>4, <1>5, <1>6, <1>7 DEF Change

LEMMA QueryKeeps ==
  ASSUME TypeOK, StaleInReach, NEW q \in Clients, Query(q), NEW k \in Keys, Exact(k)'
  PROVE  (Reflects(k) \/ InReach(k))'
<1>1. UNCHANGED <<row, index, stage, found>>
  BY DEF Query, MissCache, SearchIndex, CacheAnswer, QueryFails, indexVars, callVars
<1>2. CASE entry'[k] = entry[k]
  BY <1>1, <1>2 DEF StaleInReach, Exact, Reflects, InReach
<1>3. CASE entry'[k] # entry[k]
  <2>1. CacheAnswer(q)
    BY <1>3 DEF Query, MissCache, SearchIndex, QueryFails
  <2>2. k = asked[q] /\ entry'[k] = [docs |-> seen[q], exact |-> seen[q] = index]
    BY <1>3, <2>1 DEF CacheAnswer, TypeOK
  <2>3. seen[q] = index
    <3>1. [docs |-> seen[q], exact |-> seen[q] = index].exact
      BY <2>2 DEF Exact
    <3>. QED BY ONLY <3>1, Zenon
  <2>. QED BY <1>1, <2>2, <2>3 DEF Reflects, TypeOK
<1>. QED BY <1>2, <1>3

LEMMA StepInReach ==
  ASSUME CacheInv, [Next]_vars
  PROVE  StaleInReach'
<1> SUFFICES ASSUME NEW k \in Keys, Exact(k)' PROVE (Reflects(k) \/ InReach(k))'
  BY DEF StaleInReach
<1> USE DEF CacheInv
<1>1. CASE Invalidate
  BY <1>1, InvalidationKeeps DEF Invalidate
<1>2. ASSUME NEW d \in Docs, Change(d) PROVE (Reflects(k) \/ InReach(k))'
  BY <1>2, ChangeKeeps
<1>3. ASSUME NEW q \in Clients, Query(q) PROVE (Reflects(k) \/ InReach(k))'
  BY <1>3, QueryKeeps
<1>4. ASSUME NEW e \in Keys, Expire(e) PROVE (Reflects(k) \/ InReach(k))'
  <2>1. entry'[k] = entry[k] /\ UNCHANGED <<row, index, stage, found>>
    BY <1>4 DEF Expire, Exact, TypeOK, indexVars, callVars
  <2>. QED BY <2>1 DEF StaleInReach, Exact, Reflects, InReach
<1>5. CASE UNCHANGED vars
  BY <1>5 DEF vars, indexVars, callVars, StaleInReach, Exact, Reflects, InReach
<1>. QED BY <1>1, <1>2, <1>3, <1>4, <1>5 DEF Next

-----------------------------------------------------------------------------
\* In every reachable state, an exact answer that no longer reflects the index is within
\* reach of the invalidation of some job, unless a job was cut off.
THEOREM CacheInvariant == Spec => []CacheInv
<1>1. Init => CacheInv
  <2>1. Init => StaleInReach
    BY DEF Init, StaleInReach, Exact
  <2>. QED BY <2>1, InitTyped DEF CacheInv
<1>2. CacheInv /\ [Next]_vars => CacheInv'
  BY StepTyped, StepInReach DEF CacheInv
<1>. QED BY <1>1, <1>2, PTL DEF Spec

\* When all jobs have invalidated the cache, exact answers reflect what was indexed.
THEOREM IndexingCorrect == Spec => []IndexingReflected
<1>1. CacheInv => IndexingReflected
  BY DEF CacheInv, StaleInReach, InReach, IndexingReflected
<1>. QED BY <1>1, CacheInvariant, PTL
=============================================================================
