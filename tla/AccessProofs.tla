----------------------------- MODULE AccessProofs -----------------------------
(***************************************************************************)
(* Proofs about Access: for any number of slots, keys and requests, any    *)
(* times and any limit, retired keys lose their trust, fresh ones are      *)
(* found, the quota is overshot by less than the requests in flight, and   *)
(* the API keys agree with the audit log.                                  *)
(***************************************************************************)
EXTENDS Access, FiniteSetTheorems, TLAPS

-----------------------------------------------------------------------------
(***************************************************************************)
(* The inductive invariant.                                                *)
(***************************************************************************)

\* Which requests are where.
Staged ==
  \A s \in Slots :
    /\ at[s] \in Waiting => req[s].by = "jwt"
    /\ at[s] \in {"lookup", "verified"} => req[s].by = "api_key"
    /\ at[s] = "revoke" => req[s].does = "revoke"
    /\ "usage" \in wrote[s] => at[s] = "commit"
    /\ "key" \in wrote[s] => at[s] \in {"audit", "commit"} /\ req[s].does \in {"create", "revoke"}
    /\ at[s] = "audit" => "key" \in wrote[s]
    /\ at[s] = "commit" => ("key" \in wrote[s] <=> "audit" \in wrote[s])
    /\ "audit" \in wrote[s] => at[s] = "commit"

\* How long ago the keys that are trusted were retired; what a request has installed is
\* not expired when it looks its key up.
Trust ==
  /\ (cached /\ left >= 0) =>
       \A k \in cache : life[k] = "retired" => since[k] <= FetchTime + TTL - left
  /\ \A s \in Slots : at[s] \in Asked =>
       \A k \in answer[s] : life[k] = "retired" => since[k] <= age[s]
  /\ \A s \in Slots : at[s] \in Filled => cached /\ left >= TTL - age[s]

\* An answer on its way has every key that is current and older than its call, be it the
\* answer to this request or to another; what is installed has a good request's key.
Fresh ==
  /\ \A s \in Slots : at[s] \in Asked =>
       \A k \in Current : since[k] > age[s] => k \in answer[s]
  /\ \A s \in Slots : (at[s] # "free" /\ req[s].by = "jwt") =>
       /\ life[req[s].key] # "unpublished"
       /\ (good[s] /\ life[req[s].key] = "current") =>
            /\ since[req[s].key] > FetchTime
            /\ at[s] \in Filled => req[s].key \in cache

\* What is charged already or will be.
Admitted == {s \in Slots : at[s] = "admitted" \/ "usage" \in wrote[s]}

Charged == usage + Cardinality(Admitted) <= Limit - 1 + Cardinality(Slots)

\* What is written and not committed yet: rows are locked, new keys are new.
Pending ==
  /\ \A s, t \in Slots :
       ("key" \in wrote[s] /\ "key" \in wrote[t] /\ s # t) => req[s].target # req[t].target
  /\ \A s \in Slots :
       /\ "key" \in wrote[s] => (req[s].does = "create" <=> apiKey[req[s].target] = "none")
       /\ at[s] = "revoke" => apiKey[req[s].target] # "none"

\* A request that came with a revoked key still has one, and is not let in.
Revoked ==
  \A s \in Slots :
    /\ (at[s] # "free" /\ req[s].by = "api_key" /\ ~ good[s]) => apiKey[req[s].key] = "revoked"
    /\ at[s] = "verified" => good[s]

IInv == /\ TypeOK /\ Staged /\ Trust /\ Fresh /\ Charged /\ Pending /\ Revoked
        /\ FreshKeysAccepted /\ KeysAccounted
-----------------------------------------------------------------------------
(***************************************************************************)
(* Every step preserves each part of it.                                   *)
(***************************************************************************)

\* Types.
LEMMA TypedStep ==
  ASSUME TypeOK, Staged, [Next]_vars
  PROVE  TypeOK'
<1> USE DEF TypeOK, Current, Horizon, Go, keyServer, jwks, tables, fetching, Fetching,
    Asked, Filled, Waiting, Ended, Inside
<1>1. CASE UNCHANGED vars
  BY <1>1 DEF vars, keyServer, jwks, tables, fetching
<1>2. ASSUME NEW k \in Keys, Publish(k) PROVE TypeOK'
  BY <1>2, AccessAssumption DEF Publish
<1>3. ASSUME NEW k \in Keys, Retire(k) PROVE TypeOK'
  BY <1>3, AccessAssumption DEF Retire
<1>4. CASE Tick
  <2> USE DEF Tick
  <2>0. TTL \in Nat /\ FetchTime \in Nat
    BY AccessAssumption
  <2>1. since' \in [Keys -> 0 .. TTL + FetchTime + 1]
    BY <1>4, <2>0
  <2>2. left' \in -1 .. TTL
    BY <1>4, <2>0 DEF Elapsed
  <2>3. age' \in [Slots -> 0 .. FetchTime]
    BY <1>4, <2>0 DEF Calling
  <2>. QED BY <1>4, <2>1, <2>2, <2>3
<1>5. CASE NewMonth
  BY <1>5 DEF NewMonth
<1>6. CASE Restart
  <2>1. -1 \in -1 .. TTL /\ 0 \in 0 .. FetchTime
    BY AccessAssumption
  <2>2. /\ at' \in [Slots -> {"free"}] /\ req' \in [Slots -> {<<>>}]
        /\ \A t \in Slots : at'[t] = "free"
    BY <1>6 DEF Restart
  <2>. QED BY <1>6, <2>1, <2>2 DEF Restart
<1>7. ASSUME NEW s \in Slots, NEW r \in Requests, Arrive(s, r) PROVE TypeOK'
  BY <1>7 DEF Arrive, Entry, Missing, Expired, Good
<1>8. ASSUME NEW s \in Slots, Serve(s) PROVE TypeOK'
  BY <1>8 DEF Serve
<1>9. ASSUME NEW s \in Slots, Install(s) PROVE TypeOK'
  BY <1>9, AccessAssumption DEF Install
<1>26. ASSUME NEW s \in Slots, Find(s) PROVE TypeOK'
  BY <1>26, AccessAssumption DEF Find, Missing
<1>10. ASSUME NEW s \in Slots, FetchFails(s) PROVE TypeOK'
  BY <1>10, AccessAssumption DEF FetchFails, LeftAfterFailure
<1>11. ASSUME NEW s \in Slots, FetchBreaks(s) PROVE TypeOK'
  BY <1>11, AccessAssumption DEF FetchBreaks
<1>12. ASSUME NEW s \in Slots, Lookup(s) PROVE TypeOK'
  BY <1>12 DEF Lookup
<1>13. ASSUME NEW s \in Slots, CountUse(s) PROVE TypeOK'
  BY <1>13 DEF CountUse, Locked
<1>14. ASSUME NEW s \in Slots, Forbid(s) PROVE TypeOK'
  BY <1>14 DEF Forbid
<1>15. ASSUME NEW s \in Slots, CreateApiKey(s) PROVE TypeOK'
  BY <1>15 DEF CreateApiKey, Locked
<1>16. ASSUME NEW s \in Slots, FindApiKey(s) PROVE TypeOK'
  BY <1>16 DEF FindApiKey
<1>17. ASSUME NEW s \in Slots, RevokeApiKey(s) PROVE TypeOK'
  BY <1>17 DEF RevokeApiKey, Locked
<1>18. ASSUME NEW s \in Slots, AuditLog(s) PROVE TypeOK'
  <2>1. wrote' \in [Slots -> SUBSET {"key", "audit", "usage"}]
    <3>1. \/ wrote' = [wrote EXCEPT ![s] = wrote[s] \cup {"audit"}]
          \/ wrote' = [wrote EXCEPT ![s] = {}]
      BY <1>18 DEF AuditLog, AuditFailure
    <3>2. wrote[s] \cup {"audit"} \in SUBSET {"key", "audit", "usage"}
      OBVIOUS
    <3>. QED BY <3>1, <3>2
  <2>2. at'[s] \in {"commit", "over"} /\ \A t \in Slots \ {s} : at'[t] = at[t]
    BY <1>18 DEF AuditLog, AuditFailure
  <2>3. at' \in [Slots -> {"free", "lookup", "verified"} \cup Waiting \cup Inside \cup Ended]
    <3>1. \/ at' = [at EXCEPT ![s] = "commit"]
          \/ at' = [at EXCEPT ![s] = "over"]
      BY <1>18 DEF AuditLog, AuditFailure
    <3>. QED BY <3>1
  <2>. QED BY <1>18, <2>1, <2>2, <2>3 DEF AuditLog
<1>19. ASSUME NEW s \in Slots, CheckQuota(s) PROVE TypeOK'
  BY <1>19 DEF CheckQuota, UnderQueryQuota
<1>20. ASSUME NEW s \in Slots, AnswerFails(s) PROVE TypeOK'
  BY <1>20 DEF AnswerFails
<1>21. ASSUME NEW s \in Slots, RecordUsage(s) PROVE TypeOK'
  BY <1>21 DEF RecordUsage
<1>22. ASSUME NEW s \in Slots, Read(s) PROVE TypeOK'
  BY <1>22 DEF Read
<1>23. ASSUME NEW s \in Slots, Commit(s) PROVE TypeOK'
  <2>0. "key" \in wrote[s] \/ "audit" \in wrote[s] =>
          req[s].does \in {"create", "revoke"} /\ req[s].target \in ApiKeys
    BY <1>23, AccessAssumption DEF Commit, Staged
  <2>1. apiKey' \in [ApiKeys -> {"none", "live", "revoked"}]
    BY <1>23 DEF Commit, Made
  <2>2. audit' \subseteq {"create", "revoke"} \X ApiKeys
    BY <1>23, <2>0 DEF Commit
  <2>3. usage' \in Nat
    BY <1>23 DEF Commit
  <2>. QED BY <1>23, <2>1, <2>2, <2>3 DEF Commit
<1>24. ASSUME NEW s \in Slots, Rollback(s) PROVE TypeOK'
  BY <1>24 DEF Rollback
<1>25. ASSUME NEW s \in Slots, Leave(s) PROVE TypeOK'
  BY <1>25 DEF Leave
<1>. QED
  BY <1>1, <1>2, <1>3, <1>4, <1>5, <1>6, <1>7, <1>8, <1>9, <1>26, <1>10, <1>11, <1>12, <1>13,
    <1>14, <1>15, <1>16, <1>17, <1>18, <1>19, <1>20, <1>21, <1>22, <1>23, <1>24, <1>25 DEF
    Next, Token, ByKey, Manage, Ask, Finish

\* Stages.
LEMMA StagedStep ==
  ASSUME TypeOK, Staged, [Next]_vars
  PROVE  Staged'
<1> USE DEF TypeOK, Staged, Go, keyServer, jwks, tables, fetching, Fetching, Asked, Filled,
    Waiting, Ended, Inside
<1>1. CASE UNCHANGED vars
  BY <1>1 DEF vars, keyServer, jwks, tables, fetching
<1>2. ASSUME NEW k \in Keys, Publish(k) PROVE Staged'
  BY <1>2 DEF Publish
<1>3. ASSUME NEW k \in Keys, Retire(k) PROVE Staged'
  BY <1>3 DEF Retire
<1>4. CASE Tick
  BY <1>4 DEF Tick, Elapsed, Calling
<1>5. CASE NewMonth
  BY <1>5 DEF NewMonth
<1>6. CASE Restart
  BY <1>6 DEF Restart
<1>7. ASSUME NEW s \in Slots, NEW r \in Requests, Arrive(s, r) PROVE Staged'
  <2>1. r.by = "api_key" \/ r.by = "jwt"
    BY AccessAssumption
  <2>2. at'[s] \in {"lookup", "renew", "begin", "force"} /\ (at'[s] = "lookup" <=> r.by = "api_key")
    BY <1>7 DEF Arrive, Entry, Missing
  <2>3. req'[s] = r /\ wrote' = wrote /\ at[s] = "free"
    BY <1>7 DEF Arrive
  <2>4. \A t \in Slots \ {s} : at'[t] = at[t] /\ req'[t] = req[t]
    BY <1>7 DEF Arrive
  <2>. QED BY <2>1, <2>2, <2>3, <2>4
<1>8. ASSUME NEW s \in Slots, Serve(s) PROVE Staged'
  BY <1>8 DEF Serve
<1>9. ASSUME NEW s \in Slots, Install(s) PROVE Staged'
  BY <1>9 DEF Install
<1>26. ASSUME NEW s \in Slots, Find(s) PROVE Staged'
  BY <1>26 DEF Find, Missing
<1>10. ASSUME NEW s \in Slots, FetchFails(s) PROVE Staged'
  BY <1>10 DEF FetchFails, LeftAfterFailure
<1>11. ASSUME NEW s \in Slots, FetchBreaks(s) PROVE Staged'
  BY <1>11 DEF FetchBreaks
<1>12. ASSUME NEW s \in Slots, Lookup(s) PROVE Staged'
  BY <1>12 DEF Lookup
<1>13. ASSUME NEW s \in Slots, CountUse(s) PROVE Staged'
  BY <1>13 DEF CountUse, Locked
<1>14. ASSUME NEW s \in Slots, Forbid(s) PROVE Staged'
  BY <1>14 DEF Forbid
<1>15. ASSUME NEW s \in Slots, CreateApiKey(s) PROVE Staged'
  BY <1>15 DEF CreateApiKey, Locked
<1>16. ASSUME NEW s \in Slots, FindApiKey(s) PROVE Staged'
  BY <1>16 DEF FindApiKey
<1>17. ASSUME NEW s \in Slots, RevokeApiKey(s) PROVE Staged'
  BY <1>17 DEF RevokeApiKey, Locked
<1>18. ASSUME NEW s \in Slots, AuditLog(s) PROVE Staged'
  <2>1. \A t \in Slots \ {s} : at'[t] = at[t] /\ wrote'[t] = wrote[t]
    BY <1>18 DEF AuditLog
  <2>2. req' = req /\ at[s] = "audit" /\ "key" \in wrote[s] /\ "usage" \notin wrote[s]
    BY <1>18 DEF AuditLog
  <2>3. CASE at'[s] = "commit" /\ wrote'[s] = wrote[s] \cup {"audit"}
    <3>1. "usage" \notin wrote'[s] /\ "key" \in wrote'[s] /\ "audit" \in wrote'[s]
      BY <2>2, <2>3
    <3>2. /\ at'[s] \notin Waiting
          /\ at'[s] \notin {"lookup", "verified", "revoke", "audit"}
          /\ req[s].does \in {"create", "revoke"}
      BY <2>2, <2>3
    <3> SUFFICES ASSUME NEW t \in Slots
                 PROVE  /\ at'[t] \in Waiting => req'[t].by = "jwt"
                        /\ at'[t] \in {"lookup", "verified"} => req'[t].by = "api_key"
                        /\ at'[t] = "revoke" => req'[t].does = "revoke"
                        /\ "usage" \in wrote'[t] => at'[t] = "commit"
                        /\ "key" \in wrote'[t] => /\ at'[t] \in {"audit", "commit"}
                                                 /\ req'[t].does \in {"create", "revoke"}
                        /\ at'[t] = "audit" => "key" \in wrote'[t]
                        /\ at'[t] = "commit" => ("key" \in wrote'[t] <=> "audit" \in wrote'[t])
                        /\ "audit" \in wrote'[t] => at'[t] = "commit"
      BY Zenon
    <3>3. CASE t = s
      BY <2>2, <2>3, <3>1, <3>2, <3>3
    <3>4. CASE t # s
      BY <2>1, <2>2, <3>4
    <3>. QED BY <3>3, <3>4
  <2>4. CASE at'[s] = "over" /\ wrote'[s] = {}
    <3>1. "usage" \notin wrote'[s] /\ "key" \notin wrote'[s] /\ "audit" \notin wrote'[s]
      BY <2>4
    <3> SUFFICES ASSUME NEW t \in Slots
                 PROVE  /\ at'[t] \in Waiting => req'[t].by = "jwt"
                        /\ at'[t] \in {"lookup", "verified"} => req'[t].by = "api_key"
                        /\ at'[t] = "revoke" => req'[t].does = "revoke"
                        /\ "usage" \in wrote'[t] => at'[t] = "commit"
                        /\ "key" \in wrote'[t] => /\ at'[t] \in {"audit", "commit"}
                                                 /\ req'[t].does \in {"create", "revoke"}
                        /\ at'[t] = "audit" => "key" \in wrote'[t]
                        /\ at'[t] = "commit" => ("key" \in wrote'[t] <=> "audit" \in wrote'[t])
                        /\ "audit" \in wrote'[t] => at'[t] = "commit"
      BY Zenon
    <3>2. CASE t = s
      BY <2>2, <2>4, <3>1, <3>2
    <3>3. CASE t # s
      BY <2>1, <2>2, <3>3
    <3>. QED BY <3>2, <3>3
  <2>. QED BY <1>18, <2>3, <2>4 DEF AuditLog, AuditFailure
<1>19. ASSUME NEW s \in Slots, CheckQuota(s) PROVE Staged'
  BY <1>19 DEF CheckQuota, UnderQueryQuota
<1>20. ASSUME NEW s \in Slots, AnswerFails(s) PROVE Staged'
  BY <1>20 DEF AnswerFails
<1>21. ASSUME NEW s \in Slots, RecordUsage(s) PROVE Staged'
  BY <1>21 DEF RecordUsage
<1>22. ASSUME NEW s \in Slots, Read(s) PROVE Staged'
  BY <1>22 DEF Read
<1>23. ASSUME NEW s \in Slots, Commit(s) PROVE Staged'
  BY <1>23 DEF Commit, Made
<1>24. ASSUME NEW s \in Slots, Rollback(s) PROVE Staged'
  BY <1>24 DEF Rollback
<1>25. ASSUME NEW s \in Slots, Leave(s) PROVE Staged'
  BY <1>25 DEF Leave
<1>. QED
  BY <1>1, <1>2, <1>3, <1>4, <1>5, <1>6, <1>7, <1>8, <1>9, <1>26, <1>10, <1>11, <1>12, <1>13,
    <1>14, <1>15, <1>16, <1>17, <1>18, <1>19, <1>20, <1>21, <1>22, <1>23, <1>24, <1>25 DEF
    Next, Token, ByKey, Manage, Ask, Finish

\* The age of trust.
LEMMA TrustStep ==
  ASSUME TypeOK, Trust, [Next]_vars
  PROVE  Trust'
<1> USE DEF TypeOK, Trust, Current, Horizon, Go, keyServer, jwks, tables, fetching,
    Fetching, Asked, Filled, Waiting, Ended, Inside
<1>1. CASE UNCHANGED vars
  BY <1>1 DEF vars, keyServer, jwks, tables, fetching
<1>2. ASSUME NEW k \in Keys, Publish(k) PROVE Trust'
  BY <1>2 DEF Publish
<1>3. ASSUME NEW k \in Keys, Retire(k) PROVE Trust'
  <2> USE DEF Retire
  <2>1. \A j \in Keys \ {k} : life'[j] = life[j] /\ since'[j] = since[j]
    BY <1>3
  <2>2. /\ since'[k] = 0
        /\ cached' = cached /\ cache' = cache /\ left' = left /\ answer' = answer
        /\ age' = age /\ at' = at
    BY <1>3
  <2>3. /\ TTL \in Nat /\ FetchTime \in 0 .. TTL /\ left \in -1 .. TTL
        /\ \A t \in Slots : age[t] \in 0 .. FetchTime
    BY AccessAssumption
  <2>4. (cached /\ left >= 0) =>
          \A j \in cache : life'[j] = "retired" => since'[j] <= FetchTime + TTL - left
    BY <2>1, <2>2, <2>3
  <2>5. \A t \in Slots : at[t] \in Asked =>
          \A j \in answer[t] : life'[j] = "retired" => since'[j] <= age[t]
    <3> SUFFICES ASSUME NEW t \in Slots, at[t] \in Asked, NEW j \in answer[t],
                        life'[j] = "retired"
                 PROVE  since'[j] <= age[t]
      OBVIOUS
    <3>1. CASE j = k
      BY <2>2, <2>3, <3>1
    <3>2. CASE j # k
      <4>1. j \in Keys \ {k}
        BY <3>2
      <4>2. life[j] = "retired" /\ since'[j] = since[j]
        BY <2>1, <4>1
      <4>. QED BY <4>2
    <3>. QED BY <3>1, <3>2
  <2>. QED BY <2>2, <2>4, <2>5
<1>4. CASE Tick
  <2> USE DEF Tick
  <2>0. TTL \in Nat /\ FetchTime \in 0 .. TTL
    BY AccessAssumption
  <2>1. \A k \in Keys : since'[k] <= since[k] + 1 /\ since[k] \in Nat /\ since'[k] \in Nat
    BY <1>4, <2>0
  <2>2. life' = life /\ cached' = cached /\ cache' = cache /\ answer' = answer /\ at' = at
    BY <1>4
  <2>3. (cached' /\ left' >= 0) =>
          \A k \in cache' : life'[k] = "retired" => since'[k] <= FetchTime + TTL - left'
    <3>1. left' >= 0 => left' = left - 1 /\ left >= 0
      BY <1>4, <2>0 DEF Elapsed
    <3>. QED BY <2>0, <2>1, <2>2, <3>1
  <2>4. \A t \in Slots : at[t] \in Waiting => age'[t] = age[t] + 1 /\ age[t] < FetchTime
    BY <1>4 DEF Calling
  <2>5. \A t \in Slots : at'[t] \in Asked =>
          \A k \in answer'[t] : life'[k] = "retired" => since'[k] <= age'[t]
    BY <2>0, <2>1, <2>2, <2>4
  <2>6. \A t \in Slots : at'[t] \in Filled => cached' /\ left' >= TTL - age'[t]
    <3>1. left >= 0 => left' = left - 1
      BY <1>4, <2>0 DEF Elapsed
    <3>. QED BY <2>0, <2>2, <2>4, <3>1
  <2>. QED BY <2>3, <2>5, <2>6
<1>5. CASE NewMonth
  BY <1>5 DEF NewMonth
<1>6. CASE Restart
  BY <1>6 DEF Restart
<1>7. ASSUME NEW s \in Slots, NEW r \in Requests, Arrive(s, r) PROVE Trust'
  BY <1>7 DEF Arrive, Entry, Missing, Expired, Good
<1>8. ASSUME NEW s \in Slots, Serve(s) PROVE Trust'
  BY <1>8 DEF Serve
<1>9. ASSUME NEW s \in Slots, Install(s) PROVE Trust'
  <2> USE DEF Install
  <2>0. TTL \in Nat /\ FetchTime \in 0 .. TTL
    BY AccessAssumption
  <2>1. \A k \in answer[s] : life[k] = "retired" => since[k] <= FetchTime /\ since[k] \in Nat
    BY <1>9, <2>0
  <2>2. \A k \in cache' : life'[k] = "retired" => since'[k] <= FetchTime + TTL - left'
    BY <1>9, <2>0, <2>1
  <2>3. \A t \in Slots \ {s} : at'[t] = at[t] /\ answer'[t] = answer[t]
    BY <1>9
  <2>4. at'[s] \notin Asked /\ age' = age /\ life' = life /\ since' = since
    BY <1>9
  <2>5. \A t \in Slots : cached' /\ left' >= TTL - age'[t]
    BY <1>9, <2>0
  <2>. QED BY <1>9, <2>2, <2>3, <2>4, <2>5
<1>26. ASSUME NEW s \in Slots, Find(s) PROVE Trust'
  BY <1>26 DEF Find, Missing
<1>10. ASSUME NEW s \in Slots, FetchFails(s) PROVE Trust'
  BY <1>10 DEF FetchFails, LeftAfterFailure
<1>11. ASSUME NEW s \in Slots, FetchBreaks(s) PROVE Trust'
  BY <1>11 DEF FetchBreaks
<1>12. ASSUME NEW s \in Slots, Lookup(s) PROVE Trust'
  BY <1>12 DEF Lookup
<1>13. ASSUME NEW s \in Slots, CountUse(s) PROVE Trust'
  BY <1>13 DEF CountUse, Locked
<1>14. ASSUME NEW s \in Slots, Forbid(s) PROVE Trust'
  BY <1>14 DEF Forbid
<1>15. ASSUME NEW s \in Slots, CreateApiKey(s) PROVE Trust'
  BY <1>15 DEF CreateApiKey, Locked
<1>16. ASSUME NEW s \in Slots, FindApiKey(s) PROVE Trust'
  BY <1>16 DEF FindApiKey
<1>17. ASSUME NEW s \in Slots, RevokeApiKey(s) PROVE Trust'
  BY <1>17 DEF RevokeApiKey, Locked
<1>18. ASSUME NEW s \in Slots, AuditLog(s) PROVE Trust'
  <2>1. life' = life /\ since' = since /\ cached' = cached /\ cache' = cache /\ left' = left
    BY <1>18 DEF AuditLog
  <2>2. answer' = answer /\ age' = age
    BY <1>18 DEF AuditLog
  <2>3. \A t \in Slots : /\ at'[t] \in Asked => at[t] \in Asked
                         /\ at'[t] \in Filled => at[t] \in Filled
    BY <1>18 DEF AuditLog, AuditFailure
  <2>. QED BY <2>1, <2>2, <2>3
<1>19. ASSUME NEW s \in Slots, CheckQuota(s) PROVE Trust'
  BY <1>19 DEF CheckQuota, UnderQueryQuota
<1>20. ASSUME NEW s \in Slots, AnswerFails(s) PROVE Trust'
  BY <1>20 DEF AnswerFails
<1>21. ASSUME NEW s \in Slots, RecordUsage(s) PROVE Trust'
  BY <1>21 DEF RecordUsage
<1>22. ASSUME NEW s \in Slots, Read(s) PROVE Trust'
  BY <1>22 DEF Read
<1>23. ASSUME NEW s \in Slots, Commit(s) PROVE Trust'
  BY <1>23 DEF Commit, Made
<1>24. ASSUME NEW s \in Slots, Rollback(s) PROVE Trust'
  BY <1>24 DEF Rollback
<1>25. ASSUME NEW s \in Slots, Leave(s) PROVE Trust'
  BY <1>25 DEF Leave
<1>. QED
  BY <1>1, <1>2, <1>3, <1>4, <1>5, <1>6, <1>7, <1>8, <1>9, <1>26, <1>10, <1>11, <1>12, <1>13,
    <1>14, <1>15, <1>16, <1>17, <1>18, <1>19, <1>20, <1>21, <1>22, <1>23, <1>24, <1>25 DEF
    Next, Token, ByKey, Manage, Ask, Finish

\* What an answer has.
LEMMA FreshStep ==
  ASSUME TypeOK, Staged, Fresh, [Next]_vars
  PROVE  Fresh'
<1> USE DEF TypeOK, Staged, Fresh, Current, Go, keyServer, jwks, tables, fetching, Fetching,
    Asked, Filled, Waiting, Ended, Inside
<1>1. CASE UNCHANGED vars
  BY <1>1 DEF vars, keyServer, jwks, tables, fetching
<1>2. ASSUME NEW k \in Keys, Publish(k) PROVE Fresh'
  <2> USE DEF Publish
  <2>1. \A j \in Keys \ {k} : life'[j] = life[j] /\ since'[j] = since[j]
    BY <1>2
  <2>2. since'[k] = 0 /\ life[k] = "unpublished" /\ life'[k] = "current"
    BY <1>2
  <2>3. \A t \in Slots : age[t] \in Nat
    BY AccessAssumption
  <2>4. \A t \in Slots : at'[t] \in Asked =>
          \A j \in Current' : since'[j] > age'[t] => j \in answer'[t]
    BY <1>2, <2>1, <2>2, <2>3
  <2>5. \A t \in Slots : (at[t] # "free" /\ req[t].by = "jwt") => req[t].key \in Keys \ {k}
    BY <2>2, AccessAssumption
  <2>. QED BY <1>2, <2>1, <2>4, <2>5
<1>3. ASSUME NEW k \in Keys, Retire(k) PROVE Fresh'
  <2> USE DEF Retire
  <2>1. \A j \in Keys \ {k} : life'[j] = life[j] /\ since'[j] = since[j]
    BY <1>3
  <2>2. life'[k] = "retired"
    BY <1>3
  <2>3. \A t \in Slots : (at[t] # "free" /\ req[t].by = "jwt") => req[t].key \in Keys
    BY AccessAssumption
  <2>. QED BY <1>3, <2>1, <2>2, <2>3
<1>4. CASE Tick
  <2> USE DEF Tick
  <2>0. TTL \in Nat /\ FetchTime \in 0 .. TTL
    BY AccessAssumption
  <2>1. \A k \in Keys : since[k] \in Nat /\ since'[k] \in Nat
                         /\ (since'[k] = since[k] \/ since'[k] = since[k] + 1)
    BY <1>4, <2>0
  <2>2. \A t \in Slots : at[t] \in Asked => age[t] \in Nat /\ age'[t] = age[t] + 1
    BY <1>4, <2>0 DEF Calling
  <2>3. life' = life /\ at' = at /\ answer' = answer /\ req' = req /\ good' = good /\ cache' = cache
    BY <1>4
  <2>4. \A t \in Slots : at'[t] \in Asked =>
          \A j \in Current' : since'[j] > age'[t] => j \in answer'[t]
    <3> SUFFICES ASSUME NEW t \in Slots, at[t] \in Asked, NEW j \in Current,
                        since'[j] > age'[t]
                 PROVE  j \in answer[t]
      BY <2>3
    <3>1. j \in Keys /\ age'[t] = age[t] + 1 /\ age[t] \in Nat
      BY <2>2
    <3>2. since[j] \in Nat /\ since'[j] \in Nat /\ since'[j] <= since[j] + 1
      <4>1. since[j] \in Nat /\ since'[j] \in Nat /\ (since'[j] = since[j] \/ since'[j] = since[j] + 1)
        BY <2>1, <3>1
      <4>. QED BY ONLY <4>1
    <3>3. since'[j] > age'[t]
      OBVIOUS
    <3>4. since[j] > age[t]
      BY ONLY <3>1, <3>2, <3>3
    <3>. QED BY <3>4
  <2>5. \A t \in Slots : (at[t] # "free" /\ req[t].by = "jwt") => req[t].key \in Keys
    BY AccessAssumption
  <2>6. \A k \in Keys : since'[k] >= since[k]
    BY ONLY <2>1
  <2>7. \A t \in Slots : (at'[t] # "free" /\ req'[t].by = "jwt") =>
          /\ life'[req'[t].key] # "unpublished"
          /\ (good'[t] /\ life'[req'[t].key] = "current") =>
               /\ since'[req'[t].key] > FetchTime
               /\ at'[t] \in Filled => req'[t].key \in cache'
    <3> SUFFICES ASSUME NEW t \in Slots, at[t] # "free", req[t].by = "jwt"
                 PROVE  /\ life[req[t].key] # "unpublished"
                        /\ (good[t] /\ life[req[t].key] = "current") =>
                             /\ since'[req[t].key] > FetchTime
                             /\ at[t] \in Filled => req[t].key \in cache
      BY <2>3
    <3>1. life[req[t].key] # "unpublished"
      OBVIOUS
    <3>2. ASSUME good[t], life[req[t].key] = "current"
          PROVE  since'[req[t].key] > FetchTime
      <4>1. since[req[t].key] > FetchTime
        BY <3>2
      <4>2. /\ since[req[t].key] \in Nat /\ since'[req[t].key] \in Nat
            /\ since'[req[t].key] >= since[req[t].key]
        BY <2>1, <2>5, <2>6
      <4>3. FetchTime \in Nat
        BY <2>0
      <4>. QED BY ONLY <4>1, <4>2, <4>3
    <3>. QED BY <3>1, <3>2
  <2>. QED BY <2>4, <2>7
<1>5. CASE NewMonth
  BY <1>5 DEF NewMonth
<1>6. CASE Restart
  BY <1>6 DEF Restart
<1>7. ASSUME NEW s \in Slots, NEW r \in Requests, Arrive(s, r) PROVE Fresh'
  <2>1. /\ req'[s] = r /\ good'[s] = Good(r) /\ at'[s] \notin Asked \cup Filled
        /\ life' = life /\ since' = since /\ answer' = answer /\ age' = age /\ cache' = cache
    BY <1>7 DEF Arrive, Entry, Missing
  <2>2. r.by = "jwt" => life[r.key] # "unpublished"
    BY <1>7 DEF Arrive
  <2>3. (r.by = "jwt" /\ good'[s]) => since[r.key] > FetchTime
    BY <2>1 DEF Good
  <2>4. \A t \in Slots \ {s} : at'[t] = at[t] /\ req'[t] = req[t] /\ good'[t] = good[t]
    BY <1>7 DEF Arrive
  <2>5. \A t \in Slots : at'[t] \in Asked => at[t] \in Asked
    BY <2>1, <2>4
  <2>6. \A t \in Slots : at'[t] \in Asked =>
          \A k \in Current' : since'[k] > age'[t] => k \in answer'[t]
    BY <2>1, <2>5
  <2>7. \A t \in Slots \ {s} : (at'[t] # "free" /\ req'[t].by = "jwt") =>
          /\ life'[req'[t].key] # "unpublished"
          /\ (good'[t] /\ life'[req'[t].key] = "current") =>
               /\ since'[req'[t].key] > FetchTime
               /\ at'[t] \in Filled => req'[t].key \in cache'
    BY <2>1, <2>4
  <2>. QED BY <2>1, <2>2, <2>3, <2>6, <2>7
<1>8. ASSUME NEW s \in Slots, Serve(s) PROVE Fresh'
  <2>1. /\ answer'[s] = Current /\ at'[s] \notin Filled
        /\ life' = life /\ since' = since /\ age' = age /\ cache' = cache
        /\ req' = req /\ good' = good
    BY <1>8 DEF Serve
  <2>2. \A t \in Slots \ {s} : at'[t] = at[t] /\ answer'[t] = answer[t]
    BY <1>8 DEF Serve
  <2>3. at[s] # "free"
    BY <1>8 DEF Serve
  <2>4. \A t \in Slots : at'[t] \in Asked =>
          \A k \in Current' : since'[k] > age'[t] => k \in answer'[t]
    <3>1. Current' = Current
      BY <2>1
    <3>. QED BY <2>1, <2>2, <3>1
  <2>5. \A t \in Slots : /\ at'[t] # "free" => at[t] # "free"
                         /\ at'[t] \in Filled => at[t] \in Filled
    BY <2>1, <2>2, <2>3
  <2>. QED BY <2>1, <2>4, <2>5
<1>9. ASSUME NEW s \in Slots, Install(s) PROVE Fresh'
  <2>1. /\ at[s] \in Asked /\ at'[s] \in Filled /\ cache' = answer[s]
        /\ life' = life /\ since' = since /\ age' = age /\ req' = req /\ good' = good
    BY <1>9 DEF Install
  <2>2. \A t \in Slots \ {s} : at'[t] = at[t] /\ answer'[t] = answer[t]
    BY <1>9 DEF Install
  <2>3. \A k \in Current : since[k] > FetchTime => k \in answer[s]
    <3>1. age[s] \in Nat /\ age[s] <= FetchTime /\ FetchTime \in Nat
      BY AccessAssumption
    <3>2. \A k \in Current : since[k] \in Nat
      BY AccessAssumption
    <3>. QED BY <2>1, <3>1, <3>2
  <2>4. \A t \in Slots : (at[t] # "free" /\ req[t].by = "jwt") => req[t].key \in Keys
    BY AccessAssumption
  <2>5. \A t \in Slots : (at[t] # "free" /\ req[t].by = "jwt" /\ good[t]
                          /\ life[req[t].key] = "current") => req[t].key \in cache'
    BY <2>1, <2>3, <2>4
  <2>6. at[s] # "free"
    BY <2>1
  <2>7. \A t \in Slots : at'[t] \in Asked =>
          \A k \in Current' : since'[k] > age'[t] => k \in answer'[t]
    <3>1. Current' = Current /\ Asked \cap Filled = {}
      BY <2>1
    <3>. QED BY <2>1, <2>2, <3>1
  <2>8. \A t \in Slots : at'[t] # "free" => at[t] # "free"
    BY <2>2, <2>6
  <2>. QED BY <2>1, <2>5, <2>7, <2>8
<1>26. ASSUME NEW s \in Slots, Find(s) PROVE Fresh'
  BY <1>26 DEF Find, Missing
<1>10. ASSUME NEW s \in Slots, FetchFails(s) PROVE Fresh'
  BY <1>10 DEF FetchFails, LeftAfterFailure
<1>11. ASSUME NEW s \in Slots, FetchBreaks(s) PROVE Fresh'
  BY <1>11 DEF FetchBreaks
<1>12. ASSUME NEW s \in Slots, Lookup(s) PROVE Fresh'
  <2>1. /\ life' = life /\ since' = since /\ answer' = answer /\ age' = age /\ cache' = cache
        /\ req' = req /\ good' = good
    BY <1>12 DEF Lookup
  <2>2. \A t \in Slots : /\ at'[t] # "free" => at[t] # "free"
                         /\ at'[t] \in Asked => at[t] \in Asked
                         /\ at'[t] \in Filled => at[t] \in Filled
    BY <1>12 DEF Lookup
  <2>3. Current' = Current
    BY <2>1
  <2>. QED BY <2>1, <2>2, <2>3
<1>13. ASSUME NEW s \in Slots, CountUse(s) PROVE Fresh'
  BY <1>13 DEF CountUse, Locked
<1>14. ASSUME NEW s \in Slots, Forbid(s) PROVE Fresh'
  BY <1>14 DEF Forbid
<1>15. ASSUME NEW s \in Slots, CreateApiKey(s) PROVE Fresh'
  BY <1>15 DEF CreateApiKey, Locked
<1>16. ASSUME NEW s \in Slots, FindApiKey(s) PROVE Fresh'
  BY <1>16 DEF FindApiKey
<1>17. ASSUME NEW s \in Slots, RevokeApiKey(s) PROVE Fresh'
  BY <1>17 DEF RevokeApiKey, Locked
<1>18. ASSUME NEW s \in Slots, AuditLog(s) PROVE Fresh'
  <2>1. /\ life' = life /\ since' = since /\ answer' = answer /\ age' = age /\ cache' = cache
        /\ req' = req /\ good' = good
    BY <1>18 DEF AuditLog
  <2>2. \A t \in Slots : /\ at'[t] # "free" => at[t] # "free"
                         /\ at'[t] \in Asked => at[t] \in Asked
                         /\ at'[t] \in Filled => at[t] \in Filled
    BY <1>18 DEF AuditLog, AuditFailure
  <2>3. Current' = Current
    BY <2>1
  <2>. QED BY <2>1, <2>2, <2>3
<1>19. ASSUME NEW s \in Slots, CheckQuota(s) PROVE Fresh'
  BY <1>19 DEF CheckQuota, UnderQueryQuota
<1>20. ASSUME NEW s \in Slots, AnswerFails(s) PROVE Fresh'
  BY <1>20 DEF AnswerFails
<1>21. ASSUME NEW s \in Slots, RecordUsage(s) PROVE Fresh'
  BY <1>21 DEF RecordUsage
<1>22. ASSUME NEW s \in Slots, Read(s) PROVE Fresh'
  BY <1>22 DEF Read
<1>23. ASSUME NEW s \in Slots, Commit(s) PROVE Fresh'
  BY <1>23 DEF Commit, Made
<1>24. ASSUME NEW s \in Slots, Rollback(s) PROVE Fresh'
  BY <1>24 DEF Rollback
<1>25. ASSUME NEW s \in Slots, Leave(s) PROVE Fresh'
  BY <1>25 DEF Leave
<1>. QED
  BY <1>1, <1>2, <1>3, <1>4, <1>5, <1>6, <1>7, <1>8, <1>9, <1>26, <1>10, <1>11, <1>12, <1>13,
    <1>14, <1>15, <1>16, <1>17, <1>18, <1>19, <1>20, <1>21, <1>22, <1>23, <1>24, <1>25 DEF
    Next, Token, ByKey, Manage, Ask, Finish

\* Rows that are locked.
LEMMA PendingStep ==
  ASSUME TypeOK, Staged, Pending, [Next]_vars
  PROVE  Pending'
<1> USE DEF TypeOK, Staged, Pending, Go, keyServer, jwks, tables, fetching, Fetching, Asked,
    Filled, Waiting, Ended, Inside
<1>1. CASE UNCHANGED vars
  BY <1>1 DEF vars, keyServer, jwks, tables, fetching
<1>2. ASSUME NEW k \in Keys, Publish(k) PROVE Pending'
  BY <1>2 DEF Publish
<1>3. ASSUME NEW k \in Keys, Retire(k) PROVE Pending'
  BY <1>3 DEF Retire
<1>4. CASE Tick
  BY <1>4 DEF Tick, Elapsed, Calling
<1>5. CASE NewMonth
  BY <1>5 DEF NewMonth
<1>6. CASE Restart
  BY <1>6 DEF Restart
<1>7. ASSUME NEW s \in Slots, NEW r \in Requests, Arrive(s, r) PROVE Pending'
  <2>1. "key" \notin wrote[s] /\ wrote' = wrote /\ apiKey' = apiKey
    BY <1>7 DEF Arrive
  <2>5. at'[s] # "revoke"
    BY <1>7 DEF Arrive, Entry, Missing
  <2>2. \A t \in Slots \ {s} : at'[t] = at[t] /\ req'[t] = req[t]
    BY <1>7 DEF Arrive
  <2>3. \A t \in Slots : "key" \in wrote[t] => t # s /\ req'[t] = req[t]
    BY <2>1, <2>2
  <2>4. \A t \in Slots : at'[t] = "revoke" => at[t] = "revoke" /\ req'[t] = req[t]
    BY <2>5, <2>2
  <2>. QED BY <2>1, <2>3, <2>4
<1>8. ASSUME NEW s \in Slots, Serve(s) PROVE Pending'
  BY <1>8 DEF Serve
<1>9. ASSUME NEW s \in Slots, Install(s) PROVE Pending'
  BY <1>9 DEF Install
<1>26. ASSUME NEW s \in Slots, Find(s) PROVE Pending'
  BY <1>26 DEF Find, Missing
<1>10. ASSUME NEW s \in Slots, FetchFails(s) PROVE Pending'
  BY <1>10 DEF FetchFails, LeftAfterFailure
<1>11. ASSUME NEW s \in Slots, FetchBreaks(s) PROVE Pending'
  BY <1>11 DEF FetchBreaks
<1>12. ASSUME NEW s \in Slots, Lookup(s) PROVE Pending'
  BY <1>12 DEF Lookup
<1>13. ASSUME NEW s \in Slots, CountUse(s) PROVE Pending'
  BY <1>13 DEF CountUse, Locked
<1>14. ASSUME NEW s \in Slots, Forbid(s) PROVE Pending'
  BY <1>14 DEF Forbid
<1>15. ASSUME NEW s \in Slots, CreateApiKey(s) PROVE Pending'
  BY <1>15 DEF CreateApiKey, Locked
<1>16. ASSUME NEW s \in Slots, FindApiKey(s) PROVE Pending'
  BY <1>16 DEF FindApiKey
<1>17. ASSUME NEW s \in Slots, RevokeApiKey(s) PROVE Pending'
  BY <1>17 DEF RevokeApiKey, Locked
<1>18. ASSUME NEW s \in Slots, AuditLog(s) PROVE Pending'
  <2>1. req' = req /\ apiKey' = apiKey /\ "key" \in wrote[s] /\ at'[s] # "revoke"
    BY <1>18 DEF AuditLog, AuditFailure
  <2>2. \A t \in Slots : "key" \in wrote'[t] => "key" \in wrote[t]
    <3>1. \A t \in Slots \ {s} : wrote'[t] = wrote[t]
      BY <1>18 DEF AuditLog
    <3>. QED BY <2>1, <3>1
  <2>3. \A t \in Slots \ {s} : at'[t] = at[t]
    BY <1>18 DEF AuditLog
  <2>. QED BY <2>1, <2>2, <2>3
<1>19. ASSUME NEW s \in Slots, CheckQuota(s) PROVE Pending'
  BY <1>19 DEF CheckQuota, UnderQueryQuota
<1>20. ASSUME NEW s \in Slots, AnswerFails(s) PROVE Pending'
  BY <1>20 DEF AnswerFails
<1>21. ASSUME NEW s \in Slots, RecordUsage(s) PROVE Pending'
  BY <1>21 DEF RecordUsage
<1>22. ASSUME NEW s \in Slots, Read(s) PROVE Pending'
  BY <1>22 DEF Read
<1>23. ASSUME NEW s \in Slots, Commit(s) PROVE Pending'
  BY <1>23 DEF Commit, Made
<1>24. ASSUME NEW s \in Slots, Rollback(s) PROVE Pending'
  BY <1>24 DEF Rollback
<1>25. ASSUME NEW s \in Slots, Leave(s) PROVE Pending'
  <2>1. "key" \notin wrote[s] /\ wrote' = wrote /\ apiKey' = apiKey /\ at'[s] = "free"
    BY <1>25 DEF Leave
  <2>2. \A t \in Slots \ {s} : at'[t] = at[t] /\ req'[t] = req[t]
    BY <1>25 DEF Leave
  <2>3. \A t \in Slots : "key" \in wrote[t] => t # s /\ req'[t] = req[t]
    BY <2>1, <2>2
  <2>4. \A t \in Slots : at'[t] = "revoke" => at[t] = "revoke" /\ req'[t] = req[t]
    BY <2>1, <2>2
  <2>. QED BY <2>1, <2>3, <2>4
<1>. QED
  BY <1>1, <1>2, <1>3, <1>4, <1>5, <1>6, <1>7, <1>8, <1>9, <1>26, <1>10, <1>11, <1>12, <1>13,
    <1>14, <1>15, <1>16, <1>17, <1>18, <1>19, <1>20, <1>21, <1>22, <1>23, <1>24, <1>25 DEF
    Next, Token, ByKey, Manage, Ask, Finish

\* Revocation is for good.
LEMMA RevokedStep ==
  ASSUME TypeOK, Staged, Pending, Revoked, [Next]_vars
  PROVE  Revoked'
<1> USE DEF TypeOK, Staged, Pending, Revoked, Go, keyServer, jwks, tables, fetching,
    Fetching, Asked, Filled, Waiting, Ended, Inside
<1>1. CASE UNCHANGED vars
  BY <1>1 DEF vars, keyServer, jwks, tables, fetching
<1>2. ASSUME NEW k \in Keys, Publish(k) PROVE Revoked'
  BY <1>2 DEF Publish
<1>3. ASSUME NEW k \in Keys, Retire(k) PROVE Revoked'
  BY <1>3 DEF Retire
<1>4. CASE Tick
  BY <1>4 DEF Tick, Elapsed, Calling
<1>5. CASE NewMonth
  BY <1>5 DEF NewMonth
<1>6. CASE Restart
  BY <1>6 DEF Restart
<1>7. ASSUME NEW s \in Slots, NEW r \in Requests, Arrive(s, r) PROVE Revoked'
  <2>1. req'[s] = r /\ apiKey' = apiKey /\ good'[s] = Good(r) /\ at'[s] # "verified"
    BY <1>7 DEF Arrive, Entry, Missing
  <2>2. (r.by = "api_key" /\ ~ good'[s]) => apiKey[r.key] = "revoked"
    BY <2>1 DEF Good
  <2>3. \A t \in Slots \ {s} : at'[t] = at[t] /\ req'[t] = req[t] /\ good'[t] = good[t]
    BY <1>7 DEF Arrive
  <2>4. \A t \in Slots \ {s} :
          /\ (at'[t] # "free" /\ req'[t].by = "api_key" /\ ~ good'[t])
               => apiKey'[req'[t].key] = "revoked"
          /\ at'[t] = "verified" => good'[t]
    BY <2>1, <2>3
  <2>. QED BY <2>1, <2>2, <2>4
<1>8. ASSUME NEW s \in Slots, Serve(s) PROVE Revoked'
  BY <1>8 DEF Serve
<1>9. ASSUME NEW s \in Slots, Install(s) PROVE Revoked'
  BY <1>9 DEF Install
<1>26. ASSUME NEW s \in Slots, Find(s) PROVE Revoked'
  BY <1>26 DEF Find, Missing
<1>10. ASSUME NEW s \in Slots, FetchFails(s) PROVE Revoked'
  BY <1>10 DEF FetchFails, LeftAfterFailure
<1>11. ASSUME NEW s \in Slots, FetchBreaks(s) PROVE Revoked'
  BY <1>11 DEF FetchBreaks
<1>12. ASSUME NEW s \in Slots, Lookup(s) PROVE Revoked'
  BY <1>12 DEF Lookup
<1>13. ASSUME NEW s \in Slots, CountUse(s) PROVE Revoked'
  BY <1>13 DEF CountUse, Locked
<1>14. ASSUME NEW s \in Slots, Forbid(s) PROVE Revoked'
  BY <1>14 DEF Forbid
<1>15. ASSUME NEW s \in Slots, CreateApiKey(s) PROVE Revoked'
  BY <1>15 DEF CreateApiKey, Locked
<1>16. ASSUME NEW s \in Slots, FindApiKey(s) PROVE Revoked'
  BY <1>16 DEF FindApiKey
<1>17. ASSUME NEW s \in Slots, RevokeApiKey(s) PROVE Revoked'
  BY <1>17 DEF RevokeApiKey, Locked
<1>18. ASSUME NEW s \in Slots, AuditLog(s) PROVE Revoked'
  BY <1>18 DEF AuditLog, AuditFailure
<1>19. ASSUME NEW s \in Slots, CheckQuota(s) PROVE Revoked'
  BY <1>19 DEF CheckQuota, UnderQueryQuota
<1>20. ASSUME NEW s \in Slots, AnswerFails(s) PROVE Revoked'
  BY <1>20 DEF AnswerFails
<1>21. ASSUME NEW s \in Slots, RecordUsage(s) PROVE Revoked'
  BY <1>21 DEF RecordUsage
<1>22. ASSUME NEW s \in Slots, Read(s) PROVE Revoked'
  BY <1>22 DEF Read
<1>23. ASSUME NEW s \in Slots, Commit(s) PROVE Revoked'
  BY <1>23 DEF Commit, Made
<1>24. ASSUME NEW s \in Slots, Rollback(s) PROVE Revoked'
  BY <1>24 DEF Rollback
<1>25. ASSUME NEW s \in Slots, Leave(s) PROVE Revoked'
  BY <1>25 DEF Leave
<1>. QED
  BY <1>1, <1>2, <1>3, <1>4, <1>5, <1>6, <1>7, <1>8, <1>9, <1>26, <1>10, <1>11, <1>12, <1>13,
    <1>14, <1>15, <1>16, <1>17, <1>18, <1>19, <1>20, <1>21, <1>22, <1>23, <1>24, <1>25 DEF
    Next, Token, ByKey, Manage, Ask, Finish

\* Refusals.
LEMMA FreshKeysStep ==
  ASSUME TypeOK, Staged, Fresh, FreshKeysAccepted, [Next]_vars
  PROVE  FreshKeysAccepted'
<1> USE DEF TypeOK, Staged, Fresh, FreshKeysAccepted, Go, keyServer, jwks, tables, fetching,
    Fetching, Asked, Filled, Waiting, Ended, Inside
<1>1. CASE UNCHANGED vars
  BY <1>1 DEF vars, keyServer, jwks, tables, fetching
<1>2. ASSUME NEW k \in Keys, Publish(k) PROVE FreshKeysAccepted'
  BY <1>2 DEF Publish
<1>3. ASSUME NEW k \in Keys, Retire(k) PROVE FreshKeysAccepted'
  BY <1>3 DEF Retire
<1>4. CASE Tick
  BY <1>4 DEF Tick, Elapsed, Calling
<1>5. CASE NewMonth
  BY <1>5 DEF NewMonth
<1>6. CASE Restart
  BY <1>6 DEF Restart
<1>7. ASSUME NEW s \in Slots, NEW r \in Requests, Arrive(s, r) PROVE FreshKeysAccepted'
  BY <1>7 DEF Arrive, Entry, Missing, Expired, Good
<1>8. ASSUME NEW s \in Slots, Serve(s) PROVE FreshKeysAccepted'
  BY <1>8 DEF Serve
<1>9. ASSUME NEW s \in Slots, Install(s) PROVE FreshKeysAccepted'
  BY <1>9 DEF Install
<1>26. ASSUME NEW s \in Slots, Find(s) PROVE FreshKeysAccepted'
  BY <1>26 DEF Find, Missing
<1>10. ASSUME NEW s \in Slots, FetchFails(s) PROVE FreshKeysAccepted'
  BY <1>10 DEF FetchFails, LeftAfterFailure
<1>11. ASSUME NEW s \in Slots, FetchBreaks(s) PROVE FreshKeysAccepted'
  BY <1>11 DEF FetchBreaks
<1>12. ASSUME NEW s \in Slots, Lookup(s) PROVE FreshKeysAccepted'
  BY <1>12 DEF Lookup
<1>13. ASSUME NEW s \in Slots, CountUse(s) PROVE FreshKeysAccepted'
  BY <1>13 DEF CountUse, Locked
<1>14. ASSUME NEW s \in Slots, Forbid(s) PROVE FreshKeysAccepted'
  BY <1>14 DEF Forbid
<1>15. ASSUME NEW s \in Slots, CreateApiKey(s) PROVE FreshKeysAccepted'
  BY <1>15 DEF CreateApiKey, Locked
<1>16. ASSUME NEW s \in Slots, FindApiKey(s) PROVE FreshKeysAccepted'
  BY <1>16 DEF FindApiKey
<1>17. ASSUME NEW s \in Slots, RevokeApiKey(s) PROVE FreshKeysAccepted'
  BY <1>17 DEF RevokeApiKey, Locked
<1>18. ASSUME NEW s \in Slots, AuditLog(s) PROVE FreshKeysAccepted'
  BY <1>18 DEF AuditLog, AuditFailure
<1>19. ASSUME NEW s \in Slots, CheckQuota(s) PROVE FreshKeysAccepted'
  BY <1>19 DEF CheckQuota, UnderQueryQuota
<1>20. ASSUME NEW s \in Slots, AnswerFails(s) PROVE FreshKeysAccepted'
  BY <1>20 DEF AnswerFails
<1>21. ASSUME NEW s \in Slots, RecordUsage(s) PROVE FreshKeysAccepted'
  BY <1>21 DEF RecordUsage
<1>22. ASSUME NEW s \in Slots, Read(s) PROVE FreshKeysAccepted'
  BY <1>22 DEF Read
<1>23. ASSUME NEW s \in Slots, Commit(s) PROVE FreshKeysAccepted'
  BY <1>23 DEF Commit, Made
<1>24. ASSUME NEW s \in Slots, Rollback(s) PROVE FreshKeysAccepted'
  BY <1>24 DEF Rollback
<1>25. ASSUME NEW s \in Slots, Leave(s) PROVE FreshKeysAccepted'
  BY <1>25 DEF Leave
<1>. QED
  BY <1>1, <1>2, <1>3, <1>4, <1>5, <1>6, <1>7, <1>8, <1>9, <1>26, <1>10, <1>11, <1>12, <1>13,
    <1>14, <1>15, <1>16, <1>17, <1>18, <1>19, <1>20, <1>21, <1>22, <1>23, <1>24, <1>25 DEF
    Next, Token, ByKey, Manage, Ask, Finish

\* API keys and audit log.
LEMMA AuditStep ==
  ASSUME TypeOK, Staged, Pending, AuditMatches, [Next]_vars
  PROVE  AuditMatches'
<1> USE DEF TypeOK, Staged, Pending, AuditMatches, Go, keyServer, jwks, tables, fetching,
    Fetching, Asked, Filled, Waiting, Ended, Inside
<1>1. CASE UNCHANGED vars
  BY <1>1 DEF vars, keyServer, jwks, tables, fetching
<1>2. ASSUME NEW k \in Keys, Publish(k) PROVE AuditMatches'
  BY <1>2 DEF Publish
<1>3. ASSUME NEW k \in Keys, Retire(k) PROVE AuditMatches'
  BY <1>3 DEF Retire
<1>4. CASE Tick
  BY <1>4 DEF Tick, Elapsed, Calling
<1>5. CASE NewMonth
  BY <1>5 DEF NewMonth
<1>6. CASE Restart
  BY <1>6 DEF Restart
<1>7. ASSUME NEW s \in Slots, NEW r \in Requests, Arrive(s, r) PROVE AuditMatches'
  BY <1>7 DEF Arrive, Entry, Missing, Expired, Good
<1>8. ASSUME NEW s \in Slots, Serve(s) PROVE AuditMatches'
  BY <1>8 DEF Serve
<1>9. ASSUME NEW s \in Slots, Install(s) PROVE AuditMatches'
  BY <1>9 DEF Install
<1>26. ASSUME NEW s \in Slots, Find(s) PROVE AuditMatches'
  BY <1>26 DEF Find, Missing
<1>10. ASSUME NEW s \in Slots, FetchFails(s) PROVE AuditMatches'
  BY <1>10 DEF FetchFails, LeftAfterFailure
<1>11. ASSUME NEW s \in Slots, FetchBreaks(s) PROVE AuditMatches'
  BY <1>11 DEF FetchBreaks
<1>12. ASSUME NEW s \in Slots, Lookup(s) PROVE AuditMatches'
  BY <1>12 DEF Lookup
<1>13. ASSUME NEW s \in Slots, CountUse(s) PROVE AuditMatches'
  BY <1>13 DEF CountUse, Locked
<1>14. ASSUME NEW s \in Slots, Forbid(s) PROVE AuditMatches'
  BY <1>14 DEF Forbid
<1>15. ASSUME NEW s \in Slots, CreateApiKey(s) PROVE AuditMatches'
  BY <1>15 DEF CreateApiKey, Locked
<1>16. ASSUME NEW s \in Slots, FindApiKey(s) PROVE AuditMatches'
  BY <1>16 DEF FindApiKey
<1>17. ASSUME NEW s \in Slots, RevokeApiKey(s) PROVE AuditMatches'
  BY <1>17 DEF RevokeApiKey, Locked
<1>18. ASSUME NEW s \in Slots, AuditLog(s) PROVE AuditMatches'
  BY <1>18 DEF AuditLog, AuditFailure
<1>19. ASSUME NEW s \in Slots, CheckQuota(s) PROVE AuditMatches'
  BY <1>19 DEF CheckQuota, UnderQueryQuota
<1>20. ASSUME NEW s \in Slots, AnswerFails(s) PROVE AuditMatches'
  BY <1>20 DEF AnswerFails
<1>21. ASSUME NEW s \in Slots, RecordUsage(s) PROVE AuditMatches'
  BY <1>21 DEF RecordUsage
<1>22. ASSUME NEW s \in Slots, Read(s) PROVE AuditMatches'
  BY <1>22 DEF Read
<1>23. ASSUME NEW s \in Slots, Commit(s) PROVE AuditMatches'
  <2> DEFINE k == req[s].target
  <2>1. CASE "key" \in wrote[s]
    <3>1. /\ k \in ApiKeys
          /\ req[s].does \in {"create", "revoke"}
          /\ req[s].does = "create" <=> apiKey[k] = "none"
      BY <1>23, <2>1, AccessAssumption DEF Commit
    <3>2. /\ apiKey' = [apiKey EXCEPT ![k] = Made(s)]
          /\ audit' = audit \cup {<<req[s].does, k>>}
      BY <1>23, <2>1 DEF Commit
    <3>3. apiKey'[k] = Made(s) /\ \A j \in ApiKeys \ {k} : apiKey'[j] = apiKey[j]
      BY <3>1, <3>2
    <3>5. \A j \in ApiKeys \ {k} :
            /\ apiKey'[j] # "none" <=> <<"create", j>> \in audit'
            /\ apiKey'[j] = "revoked" <=> <<"revoke", j>> \in audit'
      <4> SUFFICES ASSUME NEW j \in ApiKeys \ {k}
                   PROVE  /\ apiKey'[j] # "none" <=> <<"create", j>> \in audit'
                          /\ apiKey'[j] = "revoked" <=> <<"revoke", j>> \in audit'
        OBVIOUS
      <4>1. j \in ApiKeys /\ j # k /\ apiKey'[j] = apiKey[j]
        BY <3>3
      <4>2. \A a : <<a, j>> \in audit' <=> <<a, j>> \in audit
        BY <3>2, <4>1
      <4>3. /\ <<"create", j>> \in audit' <=> <<"create", j>> \in audit
            /\ <<"revoke", j>> \in audit' <=> <<"revoke", j>> \in audit
        BY <4>2
      <4>4. /\ apiKey[j] # "none" <=> <<"create", j>> \in audit
            /\ apiKey[j] = "revoked" <=> <<"revoke", j>> \in audit
        BY <4>1
      <4> HIDE DEF k, AuditMatches
      <4>. QED BY <4>1, <4>3, <4>4, Zenon
    <3>6. CASE req[s].does = "create"
      <4>1. apiKey'[k] = "live" /\ apiKey[k] = "none"
        BY <3>1, <3>3, <3>6 DEF Made
      <4>2. <<"create", k>> \in audit' /\ <<"revoke", k>> \notin audit'
        BY <3>1, <3>2, <3>6, <4>1
      <4>. QED BY <3>5, <4>1, <4>2
    <3>7. CASE req[s].does = "revoke"
      <4>1. apiKey'[k] = "revoked" /\ apiKey[k] # "none"
        BY <3>1, <3>3, <3>7 DEF Made
      <4>2. <<"create", k>> \in audit' /\ <<"revoke", k>> \in audit'
        BY <3>1, <3>2, <3>7, <4>1
      <4>. QED BY <3>5, <4>1, <4>2
    <3>. QED BY <3>1, <3>6, <3>7
  <2>2. CASE "key" \notin wrote[s]
    BY <1>23, <2>2 DEF Commit
  <2>. QED BY <2>1, <2>2
<1>24. ASSUME NEW s \in Slots, Rollback(s) PROVE AuditMatches'
  BY <1>24 DEF Rollback
<1>25. ASSUME NEW s \in Slots, Leave(s) PROVE AuditMatches'
  BY <1>25 DEF Leave
<1>. QED
  BY <1>1, <1>2, <1>3, <1>4, <1>5, <1>6, <1>7, <1>8, <1>9, <1>26, <1>10, <1>11, <1>12, <1>13,
    <1>14, <1>15, <1>16, <1>17, <1>18, <1>19, <1>20, <1>21, <1>22, <1>23, <1>24, <1>25 DEF
    Next, Token, ByKey, Manage, Ask, Finish

\* Who is inside.
LEMMA RevocationStep ==
  ASSUME TypeOK, Staged, Revoked, RevocationFinal, [Next]_vars
  PROVE  RevocationFinal'
<1> USE DEF TypeOK, Staged, Revoked, RevocationFinal, Go, keyServer, jwks, tables, fetching,
    Fetching, Asked, Filled, Waiting, Ended, Inside
<1>1. CASE UNCHANGED vars
  BY <1>1 DEF vars, keyServer, jwks, tables, fetching
<1>2. ASSUME NEW k \in Keys, Publish(k) PROVE RevocationFinal'
  BY <1>2 DEF Publish
<1>3. ASSUME NEW k \in Keys, Retire(k) PROVE RevocationFinal'
  BY <1>3 DEF Retire
<1>4. CASE Tick
  BY <1>4 DEF Tick, Elapsed, Calling
<1>5. CASE NewMonth
  BY <1>5 DEF NewMonth
<1>6. CASE Restart
  BY <1>6 DEF Restart
<1>7. ASSUME NEW s \in Slots, NEW r \in Requests, Arrive(s, r) PROVE RevocationFinal'
  BY <1>7 DEF Arrive, Entry, Missing, Expired, Good
<1>8. ASSUME NEW s \in Slots, Serve(s) PROVE RevocationFinal'
  BY <1>8 DEF Serve
<1>9. ASSUME NEW s \in Slots, Install(s) PROVE RevocationFinal'
  BY <1>9 DEF Install
<1>26. ASSUME NEW s \in Slots, Find(s) PROVE RevocationFinal'
  BY <1>26 DEF Find, Missing
<1>10. ASSUME NEW s \in Slots, FetchFails(s) PROVE RevocationFinal'
  BY <1>10 DEF FetchFails, LeftAfterFailure
<1>11. ASSUME NEW s \in Slots, FetchBreaks(s) PROVE RevocationFinal'
  BY <1>11 DEF FetchBreaks
<1>12. ASSUME NEW s \in Slots, Lookup(s) PROVE RevocationFinal'
  BY <1>12 DEF Lookup
<1>13. ASSUME NEW s \in Slots, CountUse(s) PROVE RevocationFinal'
  <2>1. req' = req /\ good' = good /\ apiKey' = apiKey /\ at[s] = "verified"
    BY <1>13 DEF CountUse
  <2>2. \A t \in Slots \ {s} : at'[t] = at[t]
    BY <1>13 DEF CountUse
  <2>3. good[s]
    BY <2>1
  <2>. QED BY <2>1, <2>2, <2>3
<1>14. ASSUME NEW s \in Slots, Forbid(s) PROVE RevocationFinal'
  BY <1>14 DEF Forbid
<1>15. ASSUME NEW s \in Slots, CreateApiKey(s) PROVE RevocationFinal'
  BY <1>15 DEF CreateApiKey, Locked
<1>16. ASSUME NEW s \in Slots, FindApiKey(s) PROVE RevocationFinal'
  BY <1>16 DEF FindApiKey
<1>17. ASSUME NEW s \in Slots, RevokeApiKey(s) PROVE RevocationFinal'
  BY <1>17 DEF RevokeApiKey, Locked
<1>18. ASSUME NEW s \in Slots, AuditLog(s) PROVE RevocationFinal'
  BY <1>18 DEF AuditLog, AuditFailure
<1>19. ASSUME NEW s \in Slots, CheckQuota(s) PROVE RevocationFinal'
  BY <1>19 DEF CheckQuota, UnderQueryQuota
<1>20. ASSUME NEW s \in Slots, AnswerFails(s) PROVE RevocationFinal'
  BY <1>20 DEF AnswerFails
<1>21. ASSUME NEW s \in Slots, RecordUsage(s) PROVE RevocationFinal'
  BY <1>21 DEF RecordUsage
<1>22. ASSUME NEW s \in Slots, Read(s) PROVE RevocationFinal'
  BY <1>22 DEF Read
<1>23. ASSUME NEW s \in Slots, Commit(s) PROVE RevocationFinal'
  BY <1>23 DEF Commit, Made
<1>24. ASSUME NEW s \in Slots, Rollback(s) PROVE RevocationFinal'
  BY <1>24 DEF Rollback
<1>25. ASSUME NEW s \in Slots, Leave(s) PROVE RevocationFinal'
  BY <1>25 DEF Leave
<1>. QED
  BY <1>1, <1>2, <1>3, <1>4, <1>5, <1>6, <1>7, <1>8, <1>9, <1>26, <1>10, <1>11, <1>12, <1>13,
    <1>14, <1>15, <1>16, <1>17, <1>18, <1>19, <1>20, <1>21, <1>22, <1>23, <1>24, <1>25 DEF
    Next, Token, ByKey, Manage, Ask, Finish

\* What a step may do to the charges.
Charging ==
  \/ usage' = usage /\ Admitted' \subseteq Admitted
  \/ usage' = usage /\ usage < Limit
  \/ usage' = 0
  \/ \E s \in Admitted : usage' = usage + 1 /\ Admitted' \subseteq Admitted \ {s}

\* Charges.
LEMMA ChargingStep ==
  ASSUME TypeOK, Staged, [Next]_vars
  PROVE  Charging
<1> USE DEF TypeOK, Staged, Charging, Admitted, Go, keyServer, jwks, tables, fetching,
    Fetching, Asked, Filled, Waiting, Ended, Inside
<1>1. CASE UNCHANGED vars
  BY <1>1 DEF vars, keyServer, jwks, tables, fetching
<1>2. ASSUME NEW k \in Keys, Publish(k) PROVE Charging
  BY <1>2 DEF Publish
<1>3. ASSUME NEW k \in Keys, Retire(k) PROVE Charging
  BY <1>3 DEF Retire
<1>4. CASE Tick
  BY <1>4 DEF Tick, Elapsed, Calling
<1>5. CASE NewMonth
  BY <1>5 DEF NewMonth
<1>6. CASE Restart
  BY <1>6 DEF Restart
<1>7. ASSUME NEW s \in Slots, NEW r \in Requests, Arrive(s, r) PROVE Charging
  BY <1>7 DEF Arrive, Entry, Missing, Expired
<1>8. ASSUME NEW s \in Slots, Serve(s) PROVE Charging
  BY <1>8 DEF Serve
<1>9. ASSUME NEW s \in Slots, Install(s) PROVE Charging
  BY <1>9 DEF Install
<1>26. ASSUME NEW s \in Slots, Find(s) PROVE Charging
  BY <1>26 DEF Find, Missing
<1>10. ASSUME NEW s \in Slots, FetchFails(s) PROVE Charging
  BY <1>10 DEF FetchFails, LeftAfterFailure
<1>11. ASSUME NEW s \in Slots, FetchBreaks(s) PROVE Charging
  BY <1>11 DEF FetchBreaks
<1>12. ASSUME NEW s \in Slots, Lookup(s) PROVE Charging
  BY <1>12 DEF Lookup
<1>13. ASSUME NEW s \in Slots, CountUse(s) PROVE Charging
  BY <1>13 DEF CountUse
<1>14. ASSUME NEW s \in Slots, Forbid(s) PROVE Charging
  BY <1>14 DEF Forbid
<1>15. ASSUME NEW s \in Slots, CreateApiKey(s) PROVE Charging
  BY <1>15 DEF CreateApiKey
<1>16. ASSUME NEW s \in Slots, FindApiKey(s) PROVE Charging
  BY <1>16 DEF FindApiKey
<1>17. ASSUME NEW s \in Slots, RevokeApiKey(s) PROVE Charging
  BY <1>17 DEF RevokeApiKey
<1>18. ASSUME NEW s \in Slots, AuditLog(s) PROVE Charging
  BY <1>18 DEF AuditLog, AuditFailure
<1>19. ASSUME NEW s \in Slots, CheckQuota(s) PROVE Charging
  BY <1>19 DEF CheckQuota, UnderQueryQuota
<1>20. ASSUME NEW s \in Slots, AnswerFails(s) PROVE Charging
  BY <1>20 DEF AnswerFails
<1>21. ASSUME NEW s \in Slots, RecordUsage(s) PROVE Charging
  BY <1>21 DEF RecordUsage
<1>22. ASSUME NEW s \in Slots, Read(s) PROVE Charging
  BY <1>22 DEF Read
<1>23. ASSUME NEW s \in Slots, Commit(s) PROVE Charging
  BY <1>23 DEF Commit
<1>24. ASSUME NEW s \in Slots, Rollback(s) PROVE Charging
  BY <1>24 DEF Rollback
<1>25. ASSUME NEW s \in Slots, Leave(s) PROVE Charging
  BY <1>25 DEF Leave
<1>. QED
  BY <1>1, <1>2, <1>3, <1>4, <1>5, <1>6, <1>7, <1>8, <1>9, <1>26, <1>10, <1>11, <1>12, <1>13,
    <1>14,
     <1>15, <1>16, <1>17, <1>18, <1>19, <1>20, <1>21, <1>22, <1>23, <1>24, <1>25
  DEF Next, Token, ByKey, Manage, Ask, Finish

LEMMA ChargedStep ==
  ASSUME TypeOK, Staged, Charged, [Next]_vars
  PROVE  Charged'
<1>1. IsFiniteSet(Slots) /\ Cardinality(Slots) \in Nat /\ Limit \in Nat \ {0}
  BY AccessAssumption, FS_CardinalityType
<1>2. Admitted \subseteq Slots /\ Admitted' \subseteq Slots
  BY DEF Admitted
<1>3. /\ IsFiniteSet(Admitted) /\ Cardinality(Admitted) \in Nat
      /\ IsFiniteSet(Admitted') /\ Cardinality(Admitted') \in Nat
      /\ Cardinality(Admitted') <= Cardinality(Slots)
  BY <1>1, <1>2, FS_Subset, FS_CardinalityType
<1>4. usage \in Nat
  BY DEF TypeOK
<1>5. CASE usage' = usage /\ Admitted' \subseteq Admitted
  <2>1. Cardinality(Admitted') <= Cardinality(Admitted)
    BY <1>3, <1>5, FS_Subset
  <2>. QED BY <1>1, <1>3, <1>4, <1>5, <2>1 DEF Charged
<1>6. CASE usage' = usage /\ usage < Limit
  BY <1>1, <1>3, <1>4, <1>6 DEF Charged
<1>7. CASE usage' = 0
  BY <1>1, <1>3, <1>7 DEF Charged
<1>8. ASSUME NEW s \in Admitted, usage' = usage + 1, Admitted' \subseteq Admitted \ {s}
      PROVE  Charged'
  <2>1. /\ IsFiniteSet(Admitted \ {s})
        /\ Cardinality(Admitted \ {s}) = Cardinality(Admitted) - 1
    BY <1>3, <1>8, FS_RemoveElement
  <2>2. Cardinality(Admitted') <= Cardinality(Admitted) - 1
    BY <1>8, <2>1, FS_Subset
  <2>. QED BY <1>1, <1>3, <1>4, <1>8, <2>2 DEF Charged
<1>. QED BY <1>5, <1>6, <1>7, <1>8, ChargingStep DEF Charging

\* Acceptances.
LEMMA AcceptedStep ==
  ASSUME TypeOK, Staged, Trust, [Next]_vars
  PROVE  AcceptedInTime
<1> USE DEF TypeOK, Staged, Trust, AcceptedInTime, Accepts, Go, keyServer, jwks, tables,
    fetching, Fetching, Asked, Filled, Waiting, Ended, Inside
<1>1. CASE UNCHANGED vars
  BY <1>1 DEF vars, keyServer, jwks, tables, fetching
<1>2. ASSUME NEW k \in Keys, Publish(k) PROVE AcceptedInTime
  BY <1>2 DEF Publish
<1>3. ASSUME NEW k \in Keys, Retire(k) PROVE AcceptedInTime
  BY <1>3 DEF Retire
<1>4. CASE Tick
  BY <1>4 DEF Tick, Elapsed, Calling
<1>5. CASE NewMonth
  BY <1>5 DEF NewMonth
<1>6. CASE Restart
  BY <1>6 DEF Restart
<1>7. ASSUME NEW s \in Slots, NEW r \in Requests, Arrive(s, r) PROVE AcceptedInTime
  <2>1. at[s] = "free" /\ req'[s] = r /\ \A t \in Slots \ {s} : at'[t] = at[t]
    BY <1>7 DEF Arrive
  <2>2. at'[s] = "begin" => cached /\ left >= 0 /\ r.key \in cache
    BY <1>7 DEF Arrive, Entry, Missing, Expired
  <2>3. (at'[s] = "begin" /\ life[r.key] = "retired") => since[r.key] <= TTL + FetchTime
    <3>1. \A k \in cache : since[k] \in Nat
      BY AccessAssumption
    <3>. QED BY <2>2, <3>1, AccessAssumption
  <2>. QED BY <2>1, <2>3
<1>8. ASSUME NEW s \in Slots, Serve(s) PROVE AcceptedInTime
  BY <1>8 DEF Serve
<1>9. ASSUME NEW s \in Slots, Install(s) PROVE AcceptedInTime
  BY <1>9 DEF Install
<1>26. ASSUME NEW s \in Slots, Find(s) PROVE AcceptedInTime
  <2>1. at[s] \in Filled /\ req' = req /\ \A t \in Slots \ {s} : at'[t] = at[t]
    BY <1>26 DEF Find
  <2>2. at'[s] = "begin" => req[s].key \in cache
    BY <1>26 DEF Find, Missing
  <2>3. \A k \in cache : life[k] = "retired" => since[k] <= TTL + FetchTime
    <3>1. /\ TTL \in Nat /\ FetchTime \in 0 .. TTL /\ left \in Int
          /\ age[s] \in 0 .. FetchTime /\ left >= TTL - age[s] /\ cached
      BY <2>1, AccessAssumption
    <3>2. \A k \in cache : since[k] \in Nat
      BY AccessAssumption
    <3>. QED BY <3>1, <3>2
  <2>. QED BY <2>1, <2>2, <2>3
<1>10. ASSUME NEW s \in Slots, FetchFails(s) PROVE AcceptedInTime
  <2>1. \A t \in Slots \ {s} : at'[t] = at[t]
    BY <1>10 DEF FetchFails
  <2>2. \A t \in Slots : Accepts(t) => t = s
    BY <2>1 DEF Accepts
  <2>. QED BY <1>10, <2>2, Zenon DEF AcceptedInTime
<1>11. ASSUME NEW s \in Slots, FetchBreaks(s) PROVE AcceptedInTime
  BY <1>11 DEF FetchBreaks
<1>12. ASSUME NEW s \in Slots, Lookup(s) PROVE AcceptedInTime
  <2>1. at'[s] # "begin" /\ \A t \in Slots \ {s} : at'[t] = at[t]
    BY <1>12 DEF Lookup
  <2>. QED BY <2>1
<1>13. ASSUME NEW s \in Slots, CountUse(s) PROVE AcceptedInTime
  BY <1>13 DEF CountUse
<1>14. ASSUME NEW s \in Slots, Forbid(s) PROVE AcceptedInTime
  BY <1>14 DEF Forbid
<1>15. ASSUME NEW s \in Slots, CreateApiKey(s) PROVE AcceptedInTime
  BY <1>15 DEF CreateApiKey
<1>16. ASSUME NEW s \in Slots, FindApiKey(s) PROVE AcceptedInTime
  BY <1>16 DEF FindApiKey
<1>17. ASSUME NEW s \in Slots, RevokeApiKey(s) PROVE AcceptedInTime
  BY <1>17 DEF RevokeApiKey
<1>18. ASSUME NEW s \in Slots, AuditLog(s) PROVE AcceptedInTime
  <2>1. at'[s] # "begin" /\ \A t \in Slots \ {s} : at'[t] = at[t]
    BY <1>18 DEF AuditLog, AuditFailure
  <2>. QED BY <2>1
<1>19. ASSUME NEW s \in Slots, CheckQuota(s) PROVE AcceptedInTime
  BY <1>19 DEF CheckQuota, UnderQueryQuota
<1>20. ASSUME NEW s \in Slots, AnswerFails(s) PROVE AcceptedInTime
  BY <1>20 DEF AnswerFails
<1>21. ASSUME NEW s \in Slots, RecordUsage(s) PROVE AcceptedInTime
  BY <1>21 DEF RecordUsage
<1>22. ASSUME NEW s \in Slots, Read(s) PROVE AcceptedInTime
  BY <1>22 DEF Read
<1>23. ASSUME NEW s \in Slots, Commit(s) PROVE AcceptedInTime
  BY <1>23 DEF Commit
<1>24. ASSUME NEW s \in Slots, Rollback(s) PROVE AcceptedInTime
  BY <1>24 DEF Rollback
<1>25. ASSUME NEW s \in Slots, Leave(s) PROVE AcceptedInTime
  BY <1>25 DEF Leave
<1>. QED
  BY <1>1, <1>2, <1>3, <1>4, <1>5, <1>6, <1>7, <1>8, <1>9, <1>26, <1>10, <1>11, <1>12, <1>13,
    <1>14,
     <1>15, <1>16, <1>17, <1>18, <1>19, <1>20, <1>21, <1>22, <1>23, <1>24, <1>25
  DEF Next, Token, ByKey, Manage, Ask, Finish

-----------------------------------------------------------------------------
(***************************************************************************)
(* The theorems.                                                           *)
(***************************************************************************)

LEMMA InitIInv == Init => IInv
<1> SUFFICES ASSUME Init PROVE IInv
  OBVIOUS
<1> USE DEF Init
<1>1. TypeOK
  <2>1. /\ -1 \in -1 .. TTL /\ 0 \in 0 .. FetchTime
        /\ FetchTime + 1 \in 0 .. TTL + FetchTime + 1
    BY AccessAssumption
  <2>2. life \in [Keys -> {"unpublished", "current", "retired"}]
    OBVIOUS
  <2>. QED BY <2>1, <2>2 DEF TypeOK
<1>2. Staged /\ Fresh /\ Pending /\ Revoked
  BY DEF Staged, Fresh, Pending, Revoked, Waiting, Fetching, Asked, Filled
<1>3. Trust
  BY AccessAssumption DEF Trust, Asked, Filled
<1>4. Charged
  <2>1. Admitted = {}
    BY DEF Admitted
  <2>2. Cardinality({}) = 0 /\ Cardinality(Slots) \in Nat
    BY AccessAssumption, FS_EmptySet, FS_CardinalityType
  <2>. QED BY <2>1, <2>2, AccessAssumption DEF Charged
<1>5. FreshKeysAccepted /\ KeysAccounted
  BY DEF FreshKeysAccepted, KeysAccounted, AuditMatches, RevocationFinal, Inside
<1>. QED BY <1>1, <1>2, <1>3, <1>4, <1>5 DEF IInv

LEMMA StepIInv == IInv /\ [Next]_vars => IInv'
BY TypedStep, StagedStep, TrustStep, FreshStep, ChargedStep, PendingStep, RevokedStep,
   FreshKeysStep, AuditStep, RevocationStep DEF IInv, KeysAccounted

\* Every behaviour of the requests, the key cache, the quota and the audit log satisfies
\* the inductive invariant: staged transactions, trusted keys, charges and committed rows.
THEOREM InvariantHolds == Spec => []IInv
BY InitIInv, StepIInv, PTL DEF Spec

\* Types.
THEOREM TypeCorrect == Spec => []TypeOK
<1>1. IInv => TypeOK
  BY DEF IInv
<1>. QED BY InvariantHolds, <1>1, PTL

\* A token is refused only if its key was not current for longer than a call or the key
\* server failed.
THEOREM FreshKeys == Spec => []FreshKeysAccepted
<1>1. IInv => FreshKeysAccepted
  BY DEF IInv
<1>. QED BY InvariantHolds, <1>1, PTL

\* The rows of the API keys agree with the audit log, and a revocation is final.
THEOREM KeysAreAccounted == Spec => []KeysAccounted
<1>1. IInv => KeysAccounted
  BY DEF IInv
<1>. QED BY InvariantHolds, <1>1, PTL

\* The query quota is overshot by less than the requests in flight.
THEOREM QueriesAreBounded == Spec => []QueriesBounded
<1>1. IInv => QueriesBounded
  <2> SUFFICES ASSUME IInv PROVE QueriesBounded
    OBVIOUS
  <2>1. Admitted \subseteq Slots /\ IsFiniteSet(Slots)
    BY AccessAssumption DEF Admitted
  <2>2. Cardinality(Admitted) \in Nat /\ Cardinality(Slots) \in Nat
    BY <2>1, FS_Subset, FS_CardinalityType
  <2>. QED BY <2>2, AccessAssumption DEF IInv, Charged, TypeOK, QueriesBounded
<1>. QED BY InvariantHolds, <1>1, PTL

\* A retired key is trusted no longer than the time to live and one call, unless the key
\* server fails to answer.
THEOREM TrustIsBounded == Spec => TrustBounded
<1>1. IInv /\ [Next]_vars => AcceptedInTime
  BY AcceptedStep DEF IInv
<1>2. IInv /\ [Next]_vars => [AcceptedInTime]_vars
  BY <1>1
<1>. QED BY InvariantHolds, <1>2, PTL DEF Spec, TrustBounded
=============================================================================
