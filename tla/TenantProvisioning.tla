-------------------------- MODULE TenantProvisioning --------------------------
(***************************************************************************)
(* How one Clerk organization becomes a tenant with users.  Two parties    *)
(* create the rows, without locks and in any order:                        *)
(*                                                                         *)
(*   - requests with a valid token (auth/middleware.py), which get or      *)
(*     create the tenant and the user (auth/tenant.py);                    *)
(*   - Clerk's webhooks (auth/webhooks.py), delivered at least once and in *)
(*     no particular order, repeated while they are answered 503, and never*)
(*     again once they are answered 200, whether or not they had an effect *)
(*     (api/v1/webhooks.py).                                               *)
(*                                                                         *)
(* Clerk itself is not part of the repository: an organization is created, *)
(* renamed, joined and left, and every such change is sent as an event.    *)
(* Roles decide nothing here: that one has changed is a choice.            *)
(***************************************************************************)
EXTENDS Naturals

CONSTANTS
  Users,
  Emails,
  Email,       \* Email[u]: the address of u in webhooks, empty for want of an identifier
  Stays,       \* memberships, each from joining to leaving
  Who,         \* Who[m]: the user of the membership
  Sessions,    \* browsers that send one request after the other
  By,          \* By[s]: the user of the session
  Claim,       \* Claim[s]: the address in its tokens, empty for want of the claim
  Leaving,     \* the memberships that may end
  MaxRenames,
  NoTenant,    \* no row in tenants
  NoUser,      \* no row in users
  Placeholder  \* the organization's id, used as its name

Names == 0 .. MaxRenames

ASSUME ProvisioningAssumption ==
  /\ Email \in [Users -> Emails]
  /\ Who \in [Stays -> Users]
  /\ By \in [Sessions -> Users]
  /\ Claim \in [Sessions -> Emails]
  /\ NoUser \notin Emails
  /\ Leaving \subseteq Stays
  /\ MaxRenames \in Nat
  /\ NoTenant \notin Names /\ Placeholder \notin Names /\ NoTenant # Placeholder

VARIABLES
  name,    \* the organization's current name, in Clerk
  told,    \* told[n]: organization.created (n = 0) or .updated with name n
  stay,    \* progress of each membership, in Clerk
  joined,  \* organizationMembership.created of each membership
  left,    \* organizationMembership.deleted of each membership
  tenant,  \* tenants.name of the organization's row
  email,   \* users.email of the row of each user
  tied,    \* the users that documents or audit records refer to
  pc       \* where the request of each session stands

clerkVars == <<name, stay>>
eventVars == <<told, joined, left>>
tableVars == <<tenant, email, tied>>
vars == <<clerkVars, eventVars, tableVars, pc>>

\* "missing": its handler has looked and found no row.  "found": it has found one to
\* update.  "acked": answered 200.  "dropped": answered 200 after an exception that left
\* something out.
EventStates == {"unsent", "sent", "missing", "found", "acked", "dropped"}

TypeOK ==
  /\ name \in Names
  /\ told \in [Names -> EventStates]
  /\ stay \in [Stays -> {"before", "member", "ended"}]
  /\ joined \in [Stays -> EventStates]
  /\ left \in [Stays -> EventStates]
  /\ tenant \in Names \cup {NoTenant, Placeholder}
  /\ email \in [Users -> Emails \cup {NoUser}]
  /\ tied \subseteq Users
  /\ pc \in [Sessions -> {"idle", "verified", "tenantless", "resolved", "userless", "found",
                          "admitted", "failed"}]

Init ==
  /\ name = 0
  /\ told = [n \in Names |-> IF n = 0 THEN "sent" ELSE "unsent"]
  /\ stay = [m \in Stays |-> "before"]
  /\ joined = [m \in Stays |-> "unsent"]
  /\ left = [m \in Stays |-> "unsent"]
  /\ tenant = NoTenant
  /\ email = [u \in Users |-> NoUser]
  /\ tied = {}
  /\ pc = [s \in Sessions |-> "idle"]

-----------------------------------------------------------------------------
(***************************************************************************)
(* Clerk: changes of the organization, each with its event.                *)
(***************************************************************************)

Rename ==
  /\ name < MaxRenames
  /\ name' = name + 1
  /\ told' = [told EXCEPT ![name + 1] = "sent"]
  /\ UNCHANGED <<stay, joined, left, tableVars, pc>>

Member(u) == \E m \in Stays : Who[m] = u /\ stay[m] = "member"

Join(m) ==
  /\ stay[m] = "before"
  /\ ~Member(Who[m])
  /\ stay' = [stay EXCEPT ![m] = "member"]
  /\ joined' = [joined EXCEPT ![m] = "sent"]
  /\ UNCHANGED <<name, told, left, tableVars, pc>>

Leave(m) ==
  /\ m \in Leaving
  /\ stay[m] = "member"
  /\ stay' = [stay EXCEPT ![m] = "ended"]
  /\ left' = [left EXCEPT ![m] = "sent"]
  /\ UNCHANGED <<name, told, joined, tableVars, pc>>

\* An answer is lost, and the event comes once more.
Repeat ==
  /\ \/ /\ \E n \in Names : told[n] = "acked" /\ told' = [told EXCEPT ![n] = "sent"]
        /\ UNCHANGED <<joined, left>>
     \/ /\ \E m \in Stays : joined[m] = "acked" /\ joined' = [joined EXCEPT ![m] = "sent"]
        /\ UNCHANGED <<told, left>>
     \/ /\ \E m \in Stays : left[m] = "acked" /\ left' = [left EXCEPT ![m] = "sent"]
        /\ UNCHANGED <<told, joined>>
  /\ UNCHANGED <<clerkVars, tableVars, pc>>

-----------------------------------------------------------------------------
(***************************************************************************)
(* The webhook handlers.                                                   *)
(***************************************************************************)

Told(n, from, to) ==
  /\ told[n] = from
  /\ told' = [told EXCEPT ![n] = to]

Joined(m, from, to) ==
  /\ joined[m] = from
  /\ joined' = [joined EXCEPT ![m] = to]

Left(m, from, to) ==
  /\ left[m] = from
  /\ left' = [left EXCEPT ![m] = to]

\* handle_organization_created looks for the tenant.  One that has the name already is
\* not written.
LookForTenant ==
  /\ Told(0, "sent", CASE tenant = NoTenant -> "missing"
                       [] tenant = 0        -> "acked"
                       [] OTHER             -> "found")
  /\ UNCHANGED <<clerkVars, joined, left, tableVars, pc>>

\* A mutant of NameTenant: a missing tenant is left to the first login.
NameTenantFound ==
  /\ \/ Told(0, "missing", "acked") /\ UNCHANGED tenant
     \/ Told(0, "found", "acked") /\ tenant' = 0
  /\ UNCHANGED <<clerkVars, joined, left, email, tied, pc>>

\* It inserts or updates the tenant.  An insertion that comes second violates the unique
\* clerk_org_id, and the exception is answered 200.
NameTenant ==
  /\ \/ Told(0, "missing", "acked") /\ tenant = NoTenant /\ tenant' = 0
     \/ Told(0, "missing", "acked") /\ tenant # NoTenant /\ UNCHANGED tenant
     \/ Told(0, "found", "acked") /\ tenant' = 0
  /\ UNCHANGED <<clerkVars, joined, left, email, tied, pc>>

\* handle_organization_updated: one UPDATE, which may find no row, or fail and be
\* answered 200.
RenameTenant(n) ==
  /\ n # 0
  /\ Told(n, "sent", "acked")
  /\ \/ tenant' = IF tenant = NoTenant THEN tenant ELSE n
     \/ UNCHANGED tenant
  /\ UNCHANGED <<clerkVars, joined, left, email, tied, pc>>

Rows == {u \in Users : email[u] # NoUser}

\* A mutant of LookForUser: without a tenant the event is ignored, as a deletion is.
LookForUserOrIgnore(m) ==
  /\ Joined(m, "sent", IF tenant = NoTenant THEN "acked"
                       ELSE IF Who[m] \in Rows THEN "found" ELSE "missing")
  /\ UNCHANGED <<clerkVars, told, left, tableVars, pc>>

\* handle_membership_created, which is answered 503 as long as there is no tenant, looks
\* for the user.
LookForUser(m) ==
  /\ tenant # NoTenant
  /\ Joined(m, "sent", IF Who[m] \in Rows THEN "found" ELSE "missing")
  /\ UNCHANGED <<clerkVars, told, left, tableVars, pc>>

\* Both uniqueness constraints of users: one row per user and per address.
Free(u, a) == \A v \in Users \ {u} : email[v] # a
Insertable(u, a) == u \notin Rows /\ Free(u, a)
Updatable(u, a) == u \in Rows /\ Free(u, a)

\* It inserts the user, or updates the row that it has found, unless that is gone by now; a
\* violation and a row that is gone are answered 200.
SaveUser(m) ==
  /\ \/ Joined(m, "missing", "acked") /\ Insertable(Who[m], Email[Who[m]])
     \/ Joined(m, "found", "acked") /\ Updatable(Who[m], Email[Who[m]])
  /\ email' = [email EXCEPT ![Who[m]] = Email[Who[m]]]
  /\ UNCHANGED <<clerkVars, told, left, tenant, tied, pc>>

UserUnsaved(m) ==
  /\ \/ Joined(m, "missing", "acked") /\ ~ Insertable(Who[m], Email[Who[m]])
     \/ Joined(m, "found", "acked") /\ ~ Updatable(Who[m], Email[Who[m]])
  /\ UNCHANGED <<clerkVars, told, left, tableVars, pc>>

\* handle_membership_deleted: nothing to do without a tenant, and an exception, answered
\* 200, when a document or an audit record refers to the user, or for any other reason.
RemoveUser(m) ==
  /\ Left(m, "sent", "acked")
  /\ \/ /\ tenant # NoTenant /\ Who[m] \notin tied
        /\ email' = [email EXCEPT ![Who[m]] = NoUser]
     \/ UNCHANGED email
  /\ UNCHANGED <<clerkVars, told, joined, tenant, tied, pc>>

\* Any other exception in a handler that creates something is answered 200 as well; its
\* transaction is undone.
DropEvent ==
  /\ \/ /\ \E f \in {"sent", "missing", "found"} : Told(0, f, "dropped")
        /\ UNCHANGED joined
     \/ /\ \E m \in Stays, f \in {"sent", "missing", "found"} : Joined(m, f, "dropped")
        /\ UNCHANGED told
  /\ UNCHANGED <<clerkVars, left, tableVars, pc>>

-----------------------------------------------------------------------------
(***************************************************************************)
(* Requests.  A token outlives the membership it was issued for.           *)
(***************************************************************************)

Go(s, from, to) ==
  /\ pc[s] = from
  /\ pc' = [pc EXCEPT ![s] = to]

VerifyToken(s) ==
  /\ Member(By[s])
  /\ Go(s, "idle", "verified")
  /\ UNCHANGED <<clerkVars, eventVars, tableVars>>

\* A mutant of TenantSeen: the tenant is looked up by another id.
TenantSeenNever(s) == s \notin Sessions

TenantSeen(s) == s \in Sessions /\ tenant # NoTenant

\* get_or_create_tenant
FindTenant(s) ==
  /\ Go(s, "verified", IF TenantSeen(s) THEN "resolved" ELSE "tenantless")
  /\ UNCHANGED <<clerkVars, eventVars, tableVars>>

\* A mutant of TenantInserted: the insertion overwrites the name of a row that is there.
TenantUpserted == Placeholder

TenantInserted == IF tenant = NoTenant THEN Placeholder ELSE tenant

\* A second row violates the unique clerk_org_id: the request is answered 500.
CreateTenant(s) ==
  /\ Go(s, "tenantless", IF tenant = NoTenant THEN "resolved" ELSE "failed")
  /\ tenant' = TenantInserted
  /\ UNCHANGED <<clerkVars, eventVars, email, tied>>

\* get_or_create_user: a row with another address or role is updated.
FindUser(s) ==
  /\ \/ By[s] \notin Rows /\ Go(s, "resolved", "userless")
     \/ email[By[s]] = Claim[s] /\ Go(s, "resolved", "admitted")
     \/ By[s] \in Rows /\ Go(s, "resolved", "found")
  /\ UNCHANGED <<clerkVars, eventVars, tableVars>>

WriteUser(s) ==
  /\ \/ Go(s, "userless", "admitted") /\ Insertable(By[s], Claim[s])
     \/ Go(s, "found", "admitted") /\ Updatable(By[s], Claim[s])
  /\ email' = [email EXCEPT ![By[s]] = Claim[s]]
  /\ UNCHANGED <<clerkVars, eventVars, tenant, tied>>

\* A violated constraint or a row that is gone: the request is answered 500.
UserUnwritten(s) ==
  /\ \/ Go(s, "userless", "failed") /\ ~ Insertable(By[s], Claim[s])
     \/ Go(s, "found", "failed") /\ ~ Updatable(By[s], Claim[s])
  /\ UNCHANGED <<clerkVars, eventVars, tableVars>>

\* The request itself, which may leave references to its user behind, or fail for want
\* of one.
Serve(s) ==
  /\ \/ Go(s, "admitted", "idle") /\ UNCHANGED tied
     \/ Go(s, "admitted", "idle") /\ By[s] \in Rows /\ tied' = tied \cup {By[s]}
     \/ Go(s, "admitted", "failed") /\ By[s] \notin Rows /\ UNCHANGED tied
  /\ UNCHANGED <<clerkVars, eventVars, tenant, email>>

\* The browser sends a request that was answered 500 again, while it gets a token.
TryAgain(s) ==
  /\ Go(s, "failed", IF Member(By[s]) THEN "verified" ELSE "idle")
  /\ UNCHANGED <<clerkVars, eventVars, tableVars>>

-----------------------------------------------------------------------------
Clerk == Rename \/ Repeat \/ \E m \in Stays : Join(m) \/ Leave(m)

Handle ==
  \/ LookForTenant \/ NameTenant \/ DropEvent
  \/ \E n \in Names : RenameTenant(n)
  \/ \E m \in Stays : LookForUser(m) \/ SaveUser(m) \/ UserUnsaved(m) \/ RemoveUser(m)

Request(s) ==
  \/ VerifyToken(s) \/ FindTenant(s) \/ CreateTenant(s) \/ FindUser(s) \/ WriteUser(s)
  \/ UserUnwritten(s) \/ Serve(s) \/ TryAgain(s)

Next == Clerk \/ Handle \/ \E s \in Sessions : Request(s)

Spec == Init /\ [][Next]_vars

\* Events that create something are delivered until they are answered 200, and a
\* request that has begun ends.  Nothing is assumed of the other events, nobody has to
\* join or to send a first request, and nothing has to fail.
Fairness ==
  /\ WF_vars(LookForTenant \/ NameTenant)
  /\ \A m \in Stays : WF_vars(LookForUser(m) \/ SaveUser(m) \/ UserUnsaved(m))
  /\ \A s \in Sessions :
       WF_vars(FindTenant(s) \/ CreateTenant(s) \/ FindUser(s) \/ WriteUser(s)
               \/ UserUnwritten(s) \/ Serve(s) \/ TryAgain(s))

FairSpec == Spec /\ Fairness

-----------------------------------------------------------------------------
(***************************************************************************)
(* Properties.                                                             *)
(***************************************************************************)

Addresses(u) == {Email[u]} \cup {Claim[s] : s \in {t \in Sessions : By[t] = u}}

EverMember(u) == \E m \in Stays : Who[m] = u /\ stay[m] # "before"

\* No event tells that the user has left, and nobody else who has joined has the address.
Settled(u, a) ==
  /\ \A m \in Stays : Who[m] = u => left[m] = "unsent"
  /\ \A v \in Users \ {u} : EverMember(v) => a \notin Addresses(v)

\* An organization that Clerk was told is processed has its tenant, and a member its
\* row, also when handlers and first logins raced for the insertion and lost it (the
\* 200 that clerk_webhook answers to a violated constraint).
AcknowledgedKept ==
  /\ told[0] = "acked" => tenant # NoTenant
  /\ \A m \in Stays :
       joined[m] = "acked" /\ Settled(Who[m], Email[Who[m]]) => Who[m] \in Rows

\* A tenant that has a name never falls back to the placeholder, and is never lost
\* (get_or_create_tenant against handle_organization_created).
NameKept == [][(tenant \in Names => tenant' \in Names)]_vars

\* A request is admitted in the end: the races of first logins, with each other and with
\* webhooks, and over the address in the row, are lost once, not for ever, by a member who
\* stays and whose address no other member has (get_or_create_tenant, get_or_create_user).
LoginsSucceed ==
  \A s \in Sessions :
    pc[s] = "verified" ~> pc[s] = "admitted" \/ ~Member(By[s]) \/ ~Settled(By[s], Claim[s])

\* A membership that arrives before its organization is repeated until it can be
\* handled, unless the organization's own event was dropped (RetryableError).
MembershipsHandled ==
  \A m \in Stays :
    joined[m] = "sent" ~> joined[m] \in {"acked", "dropped"} \/ told[0] = "dropped"

\* The inductive invariant: what a handler or a request has passed by is there.
TenantThere ==
  /\ told[0] = "found" => tenant # NoTenant
  /\ \A m \in Stays : joined[m] = "missing" => tenant # NoTenant
  /\ \A s \in Sessions :
       pc[s] \in {"resolved", "userless", "found", "admitted"} => tenant # NoTenant

\* Rows are of members, past or present, with addresses of theirs; a row that was found is
\* there, unless its user left.
RowsRight ==
  /\ \A u \in Rows : EverMember(u) /\ email[u] \in Addresses(u)
  /\ \A m \in Stays : joined[m] # "unsent" => stay[m] # "before"
  /\ \A s \in Sessions : pc[s] # "idle" => EverMember(By[s])
  /\ \A m \in Stays :
       joined[m] = "found" /\ Settled(Who[m], Email[Who[m]]) => Who[m] \in Rows

ProvisioningInv == TypeOK /\ TenantThere /\ RowsRight /\ AcknowledgedKept
=============================================================================
