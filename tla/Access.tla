--------------------------------- MODULE Access ---------------------------------
(***************************************************************************)
(* How requests get in, and what they are charged: the cached signing keys *)
(* of Clerk (auth/jwt.py), API keys (auth/api_keys.py, auth/middleware.py) *)
(* with their creation and revocation by an administrator (auth/router.py) *)
(* and the audit log (core/audit.py), and the query quota with its usage   *)
(* records (generation/router.py, billing/quotas.py, billing/metering.py). *)
(*                                                                         *)
(* One server process, one tenant.  A slot serves one request at a time;   *)
(* how many there are is the web server's business.  Every request runs in *)
(* one database transaction, which sees what others have committed.  Time  *)
(* passes in ticks.                                                        *)
(***************************************************************************)
EXTENDS Integers, FiniteSets

CONSTANTS
  Slots,      \* requests served at the same time
  Keys,       \* signing keys
  ApiKeys,
  Requests,   \* [by, key, does, role, target]: "jwt" or "api_key", the key that signed the
              \* token or the API key itself, the operation, the role in the token ("none"
              \* for an ApiKeyUser), the API key it is about
  TTL,        \* cache_ttl_minutes
  FetchTime,  \* the timeout of a call of the key server, which is shorter
  Limit       \* TIER_LIMITS: queries_per_month, for a tier that has one

ASSUME AccessAssumption ==
  /\ IsFiniteSet(Slots)
  /\ \A r \in Requests : /\ r.by \in {"jwt", "api_key"}
                         /\ r.by = "jwt" => r.key \in Keys
                         /\ r.by = "api_key" => r.key \in ApiKeys /\ r.role = "none"
                         /\ r.by = "api_key" => r.does \in {"read", "create", "revoke"}
                         /\ r.does \in {"create", "revoke"} => r.target \in ApiKeys
  /\ TTL \in Nat
  /\ FetchTime \in 0 .. TTL
  /\ Limit \in Nat \ {0}

VARIABLES
  life,    \* signing keys: "unpublished", "current" or "retired"
  since,   \* ticks since each was published or retired, while that matters
  cached,  \* _cache is not None
  cache,   \* the keys in _cache
  left,    \* ticks until _cache_expires, -1 when that is over
  apiKey,  \* "none", "live" or "revoked": the committed row
  audit,   \* the committed audit log: <<action, API key>>
  usage,   \* committed queries of the current month
  at,      \* how far the request of each slot is
  req,     \* the request
  answer,  \* what the key server answered to it
  age,     \* ticks since it called the key server
  failed,  \* whether its last call of the key server failed and left it without a key
  good,    \* whether its key was good when it came
  wrote    \* what its transaction has written

keyServer == <<life, since>>
jwks == <<cached, cache, left>>
tables == <<apiKey, audit, usage>>
fetching == <<answer, age, failed>>
vars == <<keyServer, jwks, tables, at, req, fetching, good, wrote>>

Horizon(k) == IF life[k] = "retired" THEN TTL + FetchTime + 1 ELSE FetchTime + 1

Fetching == {"renew", "force"}
Asked    == {"renewing", "forcing"}
Filled   == {"renewed", "forced"}
Waiting  == Fetching \cup Asked \cup Filled
Ended    == {"refused", "over"}
Inside   == {"begin", "admitted", "revoke", "audit", "commit"}

TypeOK ==
  /\ life \in [Keys -> {"unpublished", "current", "retired"}]
  /\ since \in [Keys -> 0 .. TTL + FetchTime + 1]
  /\ cached \in BOOLEAN /\ cache \subseteq Keys /\ left \in -1 .. TTL
  /\ apiKey \in [ApiKeys -> {"none", "live", "revoked"}]
  /\ audit \subseteq {"create", "revoke"} \X ApiKeys
  /\ usage \in Nat
  /\ at \in [Slots -> {"free", "lookup", "verified"} \cup Waiting \cup Inside \cup Ended]
  /\ req \in [Slots -> Requests \cup {<<>>}]
  /\ \A s \in Slots : at[s] # "free" => req[s] \in Requests
  /\ answer \in [Slots -> SUBSET Keys]
  /\ age \in [Slots -> 0 .. FetchTime]
  /\ failed \in [Slots -> BOOLEAN] /\ good \in [Slots -> BOOLEAN]
  /\ wrote \in [Slots -> SUBSET {"key", "audit", "usage"}]

Current == {k \in Keys : life[k] = "current"}

Init ==
  /\ life \in [Keys -> {"unpublished", "current"}] /\ Current # {}
  /\ since = [k \in Keys |-> FetchTime + 1]
  /\ cached = FALSE /\ cache = {} /\ left = -1
  /\ apiKey = [k \in ApiKeys |-> "none"] /\ audit = {} /\ usage = 0
  /\ at = [s \in Slots |-> "free"]
  /\ req = [s \in Slots |-> <<>>]
  /\ answer = [s \in Slots |-> {}]
  /\ age = [s \in Slots |-> 0]
  /\ failed = [s \in Slots |-> FALSE]
  /\ good = [s \in Slots |-> FALSE]
  /\ wrote = [s \in Slots |-> {}]

Go(s, where) == at' = [at EXCEPT ![s] = where]

-----------------------------------------------------------------------------
(***************************************************************************)
(* Clerk and the clock.                                                    *)
(***************************************************************************)

Publish(k) ==
  /\ life[k] = "unpublished"
  /\ life' = [life EXCEPT ![k] = "current"]
  /\ since' = [since EXCEPT ![k] = 0]
  /\ UNCHANGED <<jwks, tables, at, req, fetching, good, wrote>>

\* There is always one to sign with.
Retire(k) ==
  /\ life[k] = "current"
  /\ Current # {k}
  /\ life' = [life EXCEPT ![k] = "retired"]
  /\ since' = [since EXCEPT ![k] = 0]
  /\ UNCHANGED <<jwks, tables, at, req, fetching, good, wrote>>

Calling == {s \in Slots : at[s] \in Waiting}

\* A mutant of Elapsed goes on counting when the time is over.
ElapsedOn(n) == n - 1

Elapsed(n) == IF n >= 0 THEN n - 1 ELSE n

\* No call of the key server takes longer than FetchTime, its connection's close included.
Tick ==
  /\ \A s \in Calling : age[s] < FetchTime
  /\ since' = [k \in Keys |-> IF since[k] < Horizon(k) THEN since[k] + 1 ELSE since[k]]
  /\ left' = Elapsed(left)
  /\ age' = [s \in Slots |-> IF s \in Calling THEN age[s] + 1 ELSE age[s]]
  /\ UNCHANGED <<life, cached, cache, tables, at, req, answer, failed, good, wrote>>

-----------------------------------------------------------------------------
(***************************************************************************)
(* Tokens: get_signing_key and _refresh_cache.                             *)
(***************************************************************************)

Expired == ~ cached \/ left < 0

\* A key that the cache does not have is fetched, once.  A mutant waits for the cache to
\* expire.
MissingIsUnknown(stage) == IF stage = "renewed" THEN "force" ELSE "refused"

Missing(stage) == IF stage \in {"free", "renewed"} THEN "force" ELSE "refused"

\* A signing key is good when no answer can be under way that is older than it.
Good(r) ==
  IF r.by = "jwt" THEN life[r.key] = "current" /\ since[r.key] > FetchTime
  ELSE apiKey[r.key] # "revoked"

Entry(r) ==
  IF r.by = "api_key" THEN "lookup"
  ELSE IF Expired THEN "renew"
  ELSE IF r.key \in cache THEN "begin"
  ELSE Missing("free")

\* No token is signed before its key is published.
Arrive(s, r) ==
  /\ at[s] = "free"
  /\ r.by = "jwt" => life[r.key] # "unpublished"
  /\ Go(s, Entry(r))
  /\ req' = [req EXCEPT ![s] = r]
  /\ good' = [good EXCEPT ![s] = Good(r)]
  /\ UNCHANGED <<keyServer, jwks, tables, fetching, wrote>>

\* The key server answers with the keys of that moment; the answer is on its way.
Serve(s) ==
  /\ at[s] \in Fetching
  /\ Go(s, IF at[s] = "renew" THEN "renewing" ELSE "forcing")
  /\ answer' = [answer EXCEPT ![s] = Current]
  /\ UNCHANGED <<keyServer, jwks, tables, req, age, failed, good, wrote>>

\* The request's own answer replaces whatever is cached, be it newer; then the connection
\* is closed.
Install(s) ==
  /\ at[s] \in Asked
  /\ cached' = TRUE
  /\ cache' = answer[s]
  /\ left' = TTL
  /\ Go(s, IF at[s] = "renewing" THEN "renewed" ELSE "forced")
  /\ answer' = [answer EXCEPT ![s] = {}]
  /\ failed' = [failed EXCEPT ![s] = FALSE]
  /\ UNCHANGED <<keyServer, tables, req, age, good, wrote>>

\* _find_key, in what is cached by now.
Find(s) ==
  /\ at[s] \in Filled
  /\ Go(s, IF req[s].key \in cache THEN "begin" ELSE Missing(at[s]))
  /\ age' = [age EXCEPT ![s] = 0]
  /\ UNCHANGED <<keyServer, jwks, tables, req, answer, failed, good, wrote>>

\* A mutant of what is left of the time to live after a failure starts it again.
LeftAfterFailureRenewed == TTL

LeftAfterFailure == left

\* httpx.HTTPError: the stale keys are used, when there are any.
FetchFails(s) ==
  /\ at[s] \in Fetching \cup Asked
  /\ Go(s, IF cached /\ req[s].key \in cache THEN "begin"
           ELSE IF cached /\ at[s] \in {"renew", "renewing"} THEN "force"
           ELSE "refused")
  /\ left' = LeftAfterFailure
  /\ answer' = [answer EXCEPT ![s] = {}]
  /\ age' = [age EXCEPT ![s] = 0]
  /\ failed' = [failed EXCEPT ![s] = at'[s] # "begin"]
  /\ UNCHANGED <<keyServer, cached, cache, tables, req, good, wrote>>

\* An answer that is no JSON is no HTTPError and no JWTError either.
FetchBreaks(s) ==
  /\ at[s] \in Fetching \cup Asked
  /\ Go(s, "over")
  /\ answer' = [answer EXCEPT ![s] = {}]
  /\ age' = [age EXCEPT ![s] = 0]
  /\ UNCHANGED <<keyServer, jwks, tables, req, failed, good, wrote>>

-----------------------------------------------------------------------------
(***************************************************************************)
(* API keys: _handle_api_key, in a transaction of its own, and the         *)
(* endpoints of the administrator.                                         *)
(***************************************************************************)

\* A key that is known, not revoked and not expired; some keys expire.
Lookup(s) ==
  /\ at[s] = "lookup"
  /\ \/ apiKey[req[s].key] = "live" /\ Go(s, "verified")
     \/ Go(s, "refused")
  /\ UNCHANGED <<keyServer, jwks, tables, req, fetching, good, wrote>>

\* The row is locked by a transaction that has written it.
Locked(k) == \E s \in Slots : "key" \in wrote[s] /\ req[s].target = k

\* update_api_key_usage; nothing reads the counter.
CountUse(s) ==
  /\ at[s] = "verified"
  /\ ~ Locked(req[s].key)
  /\ \E how \in {"begin", "over"} : Go(s, how)
  /\ UNCHANGED <<keyServer, jwks, tables, req, fetching, good, wrote>>

Rank == [viewer |-> 0, member |-> 1, admin |-> 2, owner |-> 3]

\* require_role(ADMIN); a role that is not known is a viewer's, and an ApiKeyUser has none.
Admin(r) == r.role \in DOMAIN Rank /\ Rank[r.role] >= Rank["admin"]

Forbid(s) ==
  /\ at[s] = "begin"
  /\ req[s].does \in {"create", "revoke"}
  /\ ~ Admin(req[s])
  /\ Go(s, "over")
  /\ UNCHANGED <<keyServer, jwks, tables, req, fetching, good, wrote>>

\* The new row has a key of its own.
CreateApiKey(s) ==
  /\ at[s] = "begin"
  /\ req[s].does = "create"
  /\ Admin(req[s])
  /\ apiKey[req[s].target] = "none"
  /\ ~ Locked(req[s].target)
  /\ Go(s, "audit")
  /\ wrote' = [wrote EXCEPT ![s] = {"key"}]
  /\ UNCHANGED <<keyServer, jwks, tables, req, fetching, good>>

\* 404 and 409, or else the key may be revoked.
FindApiKey(s) ==
  /\ at[s] = "begin"
  /\ req[s].does = "revoke"
  /\ Admin(req[s])
  /\ Go(s, IF apiKey[req[s].target] = "live" THEN "revoke" ELSE "over")
  /\ UNCHANGED <<keyServer, jwks, tables, req, fetching, good, wrote>>

\* The update is not conditional: two requests may both revoke the key.
RevokeApiKey(s) ==
  /\ at[s] = "revoke"
  /\ ~ Locked(req[s].target)
  /\ Go(s, "audit")
  /\ wrote' = [wrote EXCEPT ![s] = {"key"}]
  /\ UNCHANGED <<keyServer, jwks, tables, req, fetching, good>>

\* Where an audit entry that fails leads.  A mutant goes on without it.
AuditFailureSwallowed == "commit"

AuditFailure == "over"

AuditLog(s) ==
  /\ at[s] = "audit"
  /\ \/ /\ wrote' = [wrote EXCEPT ![s] = @ \cup {"audit"}]
        /\ Go(s, "commit")
     \/ /\ wrote' = IF AuditFailure = "over" THEN [wrote EXCEPT ![s] = {}] ELSE wrote
        /\ Go(s, AuditFailure)
  /\ UNCHANGED <<keyServer, jwks, tables, req, fetching, good>>

-----------------------------------------------------------------------------
(***************************************************************************)
(* Questions: enforce_query_quota and _record_query_usage.                 *)
(***************************************************************************)

\* A mutant admits one too many.
UnderQueryQuotaInclusive == usage <= Limit

UnderQueryQuota == usage < Limit

CheckQuota(s) ==
  /\ at[s] = "begin"
  /\ req[s].does \in {"query", "stream"}
  /\ Go(s, IF UnderQueryQuota THEN "admitted" ELSE "over")
  /\ UNCHANGED <<keyServer, jwks, tables, req, fetching, good, wrote>>

\* A question that is not answered is not charged; a stream has been charged before it
\* begins.
AnswerFails(s) ==
  /\ at[s] = "admitted"
  /\ req[s].does = "query"
  /\ Go(s, "over")
  /\ UNCHANGED <<keyServer, jwks, tables, req, fetching, good, wrote>>

\* When the record cannot be written, the question is answered all the same.
RecordUsage(s) ==
  /\ at[s] = "admitted"
  /\ Go(s, "commit")
  /\ \E w \in {{"usage"}, {}} : wrote' = [wrote EXCEPT ![s] = w]
  /\ UNCHANGED <<keyServer, jwks, tables, req, fetching, good>>

\* A record of the month that ends belongs to that month, whenever it is committed.
NewMonth ==
  /\ usage' = 0
  /\ wrote' = [s \in Slots |-> wrote[s] \ {"usage"}]
  /\ UNCHANGED <<keyServer, jwks, apiKey, audit, at, req, fetching, good>>

-----------------------------------------------------------------------------
(***************************************************************************)
(* The request transaction.                                                *)
(***************************************************************************)

Read(s) ==
  /\ at[s] = "begin"
  /\ req[s].does = "read"
  /\ Go(s, "commit")
  /\ UNCHANGED <<keyServer, jwks, tables, req, fetching, good, wrote>>

Made(s) == IF req[s].does = "create" THEN "live" ELSE "revoked"

Commit(s) ==
  /\ at[s] = "commit"
  /\ Go(s, "over")
  /\ wrote' = [wrote EXCEPT ![s] = {}]
  /\ apiKey' = IF "key" \in wrote[s] THEN [apiKey EXCEPT ![req[s].target] = Made(s)] ELSE apiKey
  /\ audit' = IF "audit" \in wrote[s] THEN audit \cup {<<req[s].does, req[s].target>>} ELSE audit
  /\ usage' = IF "usage" \in wrote[s] THEN usage + 1 ELSE usage
  /\ UNCHANGED <<keyServer, jwks, req, fetching, good>>

Rollback(s) ==
  /\ at[s] \in {"revoke", "audit", "commit"}
  /\ Go(s, "over")
  /\ wrote' = [wrote EXCEPT ![s] = {}]
  /\ UNCHANGED <<keyServer, jwks, tables, req, fetching, good>>

Leave(s) ==
  /\ at[s] \in Ended
  /\ Go(s, "free")
  /\ req' = [req EXCEPT ![s] = <<>>]
  /\ failed' = [failed EXCEPT ![s] = FALSE]
  /\ good' = [good EXCEPT ![s] = FALSE]
  /\ UNCHANGED <<keyServer, jwks, tables, answer, age, wrote>>

\* The process dies, with its cache and every transaction.
Restart ==
  /\ at' = [s \in Slots |-> "free"]
  /\ req' = [s \in Slots |-> <<>>]
  /\ answer' = [s \in Slots |-> {}]
  /\ age' = [s \in Slots |-> 0]
  /\ failed' = [s \in Slots |-> FALSE]
  /\ good' = [s \in Slots |-> FALSE]
  /\ wrote' = [s \in Slots |-> {}]
  /\ cached' = FALSE /\ cache' = {} /\ left' = -1
  /\ UNCHANGED <<keyServer, tables>>

Token(s)  == Serve(s) \/ Install(s) \/ Find(s) \/ FetchFails(s) \/ FetchBreaks(s)
ByKey(s)  == Lookup(s) \/ CountUse(s)
Manage(s) == Forbid(s) \/ CreateApiKey(s) \/ FindApiKey(s) \/ RevokeApiKey(s) \/ AuditLog(s)
Ask(s)    == CheckQuota(s) \/ AnswerFails(s) \/ RecordUsage(s)
Finish(s) == Read(s) \/ Commit(s) \/ Rollback(s) \/ Leave(s)

Next ==
  \/ \E k \in Keys : Publish(k) \/ Retire(k)
  \/ Tick
  \/ NewMonth
  \/ Restart
  \/ \E s \in Slots :
       \/ \E r \in Requests : Arrive(s, r)
       \/ Token(s)
       \/ ByKey(s)
       \/ Manage(s)
       \/ Ask(s)
       \/ Finish(s)

Spec == Init /\ [][Next]_vars

-----------------------------------------------------------------------------
(***************************************************************************)
(* Properties.                                                             *)
(***************************************************************************)

Accepts(s) == at[s] \in {"free"} \cup Waiting /\ at'[s] = "begin"

\* A token is accepted no longer than the time to live and one call after its key was
\* retired, unless the key server just failed to answer this very request: neither the
\* installation of an old answer after a newer one nor the failures of others keep a
\* key alive (get_signing_key, _refresh_cache).
AcceptedInTime ==
  \A s \in Slots : Accepts(s) =>
    LET k == req'[s].key IN life[k] = "retired" => since[k] <= TTL + FetchTime \/ FetchFails(s)

TrustBounded == [][AcceptedInTime]_vars

\* A token is refused only if its key is retired or was published less than a call before
\* the request came, or the key server failed: keys that are new are found behind an
\* unexpired cache too, and the answers of other requests that overtake the request's own
\* between its installation and the lookup have the key as well (get_signing_key).
FreshKeysAccepted ==
  \A s \in Slots :
    (at[s] = "refused" /\ req[s].by = "jwt") =>
      failed[s] \/ ~ good[s] \/ life[req[s].key] # "current"

\* However many check the quota at the same time, it is overshot by less than the
\* requests in flight (enforce_query_quota, record_usage).
QueriesBounded == usage <= Limit - 1 + Cardinality(Slots)

\* The rows of the API keys and the audit log agree, whatever fails in between.
AuditMatches ==
  \A k \in ApiKeys :
    /\ apiKey[k] # "none" <=> <<"create", k>> \in audit
    /\ apiKey[k] = "revoked" <=> <<"revoke", k>> \in audit

\* A request inside on an API key came before the key was revoked: a revocation that is
\* committed is final, and no later one is let in by a transaction that lags behind.
RevocationFinal ==
  \A s \in Slots : (at[s] \in Inside /\ req[s].by = "api_key") => good[s]

KeysAccounted == AuditMatches /\ RevocationFinal
=============================================================================
