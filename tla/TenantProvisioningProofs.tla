----------------------- MODULE TenantProvisioningProofs -----------------------
(***************************************************************************)
(* Proofs about TenantProvisioning, for any users, memberships, sessions   *)
(* and addresses.  ProvisioningInv is inductive; NameKept needs the types. *)
(***************************************************************************)
EXTENDS TenantProvisioning, TLAPS

LEMMA ProvisioningInit == Init => ProvisioningInv
<1> SUFFICES ASSUME Init PROVE ProvisioningInv
  OBVIOUS
<1> USE ProvisioningAssumption DEF Init
<1>1. TypeOK
  BY DEF TypeOK, EventStates, Names
<1>2. TenantThere /\ RowsRight /\ AcknowledgedKept
  BY DEF TenantThere, RowsRight, Rows, AcknowledgedKept, Names
<1> QED BY <1>1, <1>2 DEF ProvisioningInv

-----------------------------------------------------------------------------
(***************************************************************************)
(* Types.                                                                  *)
(***************************************************************************)

LEMMA TypeClerk ==
  ASSUME TypeOK, Clerk
  PROVE  TypeOK'
<1> USE ProvisioningAssumption DEF TypeOK, EventStates, Names, clerkVars, tableVars
<1>1. CASE Rename BY <1>1 DEF Rename
<1>2. CASE Repeat BY <1>2 DEF Repeat
<1>3. ASSUME NEW m \in Stays, Join(m) PROVE TypeOK'
  BY <1>3 DEF Join
<1>4. ASSUME NEW m \in Stays, Leave(m) PROVE TypeOK'
  BY <1>4 DEF Leave
<1> QED BY <1>1, <1>2, <1>3, <1>4 DEF Clerk

LEMMA TypeHandle ==
  ASSUME TypeOK, Handle
  PROVE  TypeOK'
<1> USE ProvisioningAssumption
    DEF TypeOK, EventStates, Names, clerkVars, tableVars, Told, Joined, Left
<1>1. CASE LookForTenant BY <1>1 DEF LookForTenant
<1>2. CASE NameTenant BY <1>2 DEF NameTenant
<1>3. CASE DropEvent BY <1>3 DEF DropEvent
<1>4. ASSUME NEW n \in Names, RenameTenant(n) PROVE TypeOK'
  BY <1>4 DEF RenameTenant
<1>5. ASSUME NEW m \in Stays, LookForUser(m) PROVE TypeOK'
  BY <1>5 DEF LookForUser
<1>6. ASSUME NEW m \in Stays, SaveUser(m) PROVE TypeOK'
  BY <1>6 DEF SaveUser
<1>7. ASSUME NEW m \in Stays, UserUnsaved(m) PROVE TypeOK'
  BY <1>7 DEF UserUnsaved
<1>8. ASSUME NEW m \in Stays, RemoveUser(m) PROVE TypeOK'
  BY <1>8 DEF RemoveUser
<1> QED BY <1>1, <1>2, <1>3, <1>4, <1>5, <1>6, <1>7, <1>8 DEF Handle

LEMMA TypeRequest ==
  ASSUME TypeOK, NEW s \in Sessions, Request(s)
  PROVE  TypeOK'
<1> USE ProvisioningAssumption DEF TypeOK, clerkVars, eventVars, tableVars, Go
<1>1. CASE VerifyToken(s)  BY <1>1 DEF VerifyToken
<1>2. CASE FindTenant(s)   BY <1>2 DEF FindTenant
<1>3. CASE CreateTenant(s) BY <1>3 DEF CreateTenant, TenantInserted
<1>4. CASE FindUser(s)     BY <1>4 DEF FindUser
<1>5. CASE WriteUser(s)    BY <1>5 DEF WriteUser
<1>6. CASE UserUnwritten(s) BY <1>6 DEF UserUnwritten
<1>7. CASE Serve(s)        BY <1>7 DEF Serve
<1>8. CASE TryAgain(s)     BY <1>8 DEF TryAgain
<1> QED BY <1>1, <1>2, <1>3, <1>4, <1>5, <1>6, <1>7, <1>8 DEF Request

LEMMA TypeStep == TypeOK /\ [Next]_vars => TypeOK'
<1> SUFFICES ASSUME TypeOK, [Next]_vars PROVE TypeOK'
  OBVIOUS
<1>1. CASE UNCHANGED vars
  BY <1>1 DEF vars, TypeOK, clerkVars, eventVars, tableVars
<1> QED BY <1>1, TypeClerk, TypeHandle, TypeRequest DEF Next

-----------------------------------------------------------------------------
(***************************************************************************)
(* The tenant is there, and rows are lost only to a membership that ends.  *)
(***************************************************************************)

\* A tenant is never removed.
LEMMA TenantStays ==
  ASSUME TypeOK, [Next]_vars, tenant # NoTenant
  PROVE  tenant' # NoTenant
<1> USE ProvisioningAssumption DEF tableVars
<1>1. CASE UNCHANGED vars BY <1>1 DEF vars
<1>2. CASE Clerk BY <1>2 DEF Clerk, Rename, Repeat, Join, Leave
<1>3. CASE Handle
  <2>1. CASE NameTenant BY <2>1 DEF NameTenant, Names
  <2>2. ASSUME NEW n \in Names, RenameTenant(n) PROVE tenant' # NoTenant
    BY <2>2 DEF RenameTenant
  <2> QED BY <1>3, <2>1, <2>2
          DEF Handle, LookForTenant, DropEvent, LookForUser, SaveUser, UserUnsaved,
               RemoveUser
<1>4. ASSUME NEW s \in Sessions, Request(s) PROVE tenant' # NoTenant
  BY <1>4 DEF Request, VerifyToken, FindTenant, CreateTenant, TenantInserted, FindUser,
              WriteUser, UserUnwritten, Serve, TryAgain
<1> QED BY <1>1, <1>2, <1>3, <1>4 DEF Next

\* What a step may do to the rows.
RowChange ==
  \/ email' = email
  \/ \E m \in Stays : RemoveUser(m) /\ email' = [email EXCEPT ![Who[m]] = NoUser]
  \/ \E m \in Stays : SaveUser(m) /\ email' = [email EXCEPT ![Who[m]] = Email[Who[m]]]
  \/ \E s \in Sessions : WriteUser(s) /\ email' = [email EXCEPT ![By[s]] = Claim[s]]

LEMMA RowChanges ==
  ASSUME [Next]_vars
  PROVE  RowChange
<1> USE DEF RowChange, tableVars
<1>1. CASE UNCHANGED vars BY <1>1 DEF vars
<1>2. CASE Clerk BY <1>2 DEF Clerk, Rename, Repeat, Join, Leave
<1>3. CASE Handle
  <2>1. ASSUME NEW m \in Stays, RemoveUser(m) PROVE RowChange
    <3>1. email' = [email EXCEPT ![Who[m]] = NoUser] \/ email' = email
      BY <2>1 DEF RemoveUser
    <3> QED BY <2>1, <3>1
  <2>2. ASSUME NEW m \in Stays, SaveUser(m) PROVE RowChange
    <3>1. email' = [email EXCEPT ![Who[m]] = Email[Who[m]]]
      BY <2>2 DEF SaveUser
    <3> QED BY <2>2, <3>1
  <2> QED BY <1>3, <2>1, <2>2
          DEF Handle, LookForTenant, NameTenant, DropEvent, RenameTenant, LookForUser, UserUnsaved
<1>4. ASSUME NEW s \in Sessions, Request(s) PROVE RowChange
  <2>1. CASE WriteUser(s)
    <3>1. email' = [email EXCEPT ![By[s]] = Claim[s]]
      BY <2>1 DEF WriteUser
    <3> QED BY <2>1, <3>1
  <2> QED BY <1>4, <2>1 DEF Request, VerifyToken, FindTenant, CreateTenant, FindUser,
                            UserUnwritten, Serve, TryAgain
<1> QED BY <1>1, <1>2, <1>3, <1>4 DEF Next

\* The row of a user stays as long as no event says that the user has left.
LEMMA RowStays ==
  ASSUME TypeOK, [Next]_vars, NEW u \in Rows, \A m \in Stays : Who[m] = u => left[m] = "unsent"
  PROVE  u \in Rows'
<1> USE ProvisioningAssumption DEF TypeOK, Rows
<1>1. CASE email' = email
  BY <1>1
<1>2. ASSUME NEW m \in Stays, RemoveUser(m), email' = [email EXCEPT ![Who[m]] = NoUser]
      PROVE  u \in Rows'
  <2>1. Who[m] # u
    BY <1>2 DEF RemoveUser, Left
  <2> QED BY <1>2, <2>1
<1>3. ASSUME NEW m \in Stays, email' = [email EXCEPT ![Who[m]] = Email[Who[m]]]
      PROVE  u \in Rows'
  BY <1>3
<1>4. ASSUME NEW s \in Sessions, email' = [email EXCEPT ![By[s]] = Claim[s]]
      PROVE  u \in Rows'
  BY <1>4
<1> QED BY RowChanges, <1>1, <1>2, <1>3, <1>4 DEF RowChange

\* Whoever was a member was one.
LEMMA MemberStays ==
  ASSUME TypeOK, [Next]_vars
  PROVE  /\ \A m \in Stays : stay[m] # "before" => stay'[m] # "before"
         /\ \A u \in Users : EverMember(u) => EverMember(u)'
<1> USE DEF TypeOK, clerkVars
<1>1. \A m \in Stays : stay[m] # "before" => stay'[m] # "before"
  <2>1. CASE UNCHANGED vars BY <2>1 DEF vars
  <2>2. CASE Clerk BY <2>2 DEF Clerk, Rename, Repeat, Join, Leave
  <2>3. CASE Handle
    BY <2>3 DEF Handle, LookForTenant, NameTenant, DropEvent, RenameTenant, LookForUser, SaveUser,
                UserUnsaved, RemoveUser
  <2>4. ASSUME NEW s \in Sessions, Request(s)
        PROVE  \A m \in Stays : stay[m] # "before" => stay'[m] # "before"
    BY <2>4 DEF Request, VerifyToken, FindTenant, CreateTenant, FindUser, WriteUser, UserUnwritten,
                Serve, TryAgain
  <2> QED BY <2>1, <2>2, <2>3, <2>4 DEF Next
<1> QED BY <1>1 DEF EverMember

\* An event that has been sent is never unsent.
LEMMA SentStays ==
  ASSUME TypeOK, [Next]_vars, NEW m \in Stays, left'[m] = "unsent"
  PROVE  left[m] = "unsent"
<1> USE DEF TypeOK, eventVars
<1>1. CASE UNCHANGED vars BY <1>1 DEF vars
<1>2. CASE Clerk BY <1>2 DEF Clerk, Rename, Repeat, Join, Leave
<1>3. CASE Handle
  BY <1>3 DEF Handle, LookForTenant, NameTenant, DropEvent, RenameTenant, LookForUser, SaveUser, UserUnsaved,
              RemoveUser, Left
<1>4. ASSUME NEW s \in Sessions, Request(s) PROVE left[m] = "unsent"
  BY <1>4 DEF Request, VerifyToken, FindTenant, CreateTenant, FindUser, WriteUser, UserUnwritten, Serve,
              TryAgain
<1> QED BY <1>1, <1>2, <1>3, <1>4 DEF Next

\* Whoever has passed the tenant by finds it there.
LEMMA TenantThereStep ==
  ASSUME TypeOK, TenantThere, [Next]_vars
  PROVE  TenantThere'
<1>0. tenant # NoTenant => tenant' # NoTenant
  BY TenantStays
<1> USE <1>0 DEF TypeOK, TenantThere
<1>1. CASE UNCHANGED vars
  BY <1>1 DEF vars, eventVars, tableVars
<1>2. CASE Clerk
  <2> USE DEF clerkVars, tableVars
  <2>1. CASE Rename BY <2>1, ProvisioningAssumption DEF Rename, Names
  <2>2. CASE Repeat BY <2>2, ProvisioningAssumption DEF Repeat, Names
  <2>3. ASSUME NEW m \in Stays, Join(m) \/ Leave(m) PROVE TenantThere'
    BY <2>3 DEF Join, Leave
  <2> QED BY <1>2, <2>1, <2>2, <2>3 DEF Clerk
<1>3. CASE Handle
  <2> USE DEF Told, Joined, Left, clerkVars, tableVars
  <2>1. CASE LookForTenant \/ NameTenant \/ DropEvent
    BY <2>1 DEF LookForTenant, NameTenant, DropEvent
  <2>2. ASSUME NEW n \in Names, RenameTenant(n) PROVE TenantThere'
    BY <2>2 DEF RenameTenant
  <2>3. ASSUME NEW m \in Stays, LookForUser(m) \/ SaveUser(m) \/ UserUnsaved(m) \/ RemoveUser(m)
        PROVE  TenantThere'
    BY <2>3 DEF LookForUser, SaveUser, UserUnsaved,
               RemoveUser
  <2> QED BY <1>3, <2>1, <2>2, <2>3 DEF Handle
<1>4. ASSUME NEW s \in Sessions, Request(s) PROVE TenantThere'
  <2> USE DEF Go, clerkVars, eventVars, tableVars
  <2>1. CASE VerifyToken(s) \/ FindTenant(s) \/ TryAgain(s)
    BY <2>1 DEF VerifyToken, FindTenant, TenantSeen, TryAgain
  <2>2. CASE CreateTenant(s)
    BY <2>2, ProvisioningAssumption DEF CreateTenant, TenantInserted
  <2>3. CASE FindUser(s) \/ WriteUser(s) \/ UserUnwritten(s) \/ Serve(s)
    BY <2>3 DEF FindUser, WriteUser, UserUnwritten, Serve
  <2> QED BY <1>4, <2>1, <2>2, <2>3 DEF Request
<1> QED BY <1>1, <1>2, <1>3, <1>4 DEF Next

\* The organization's event is acknowledged only with the tenant in place.
LEMMA OrganizationKept ==
  ASSUME TypeOK, TenantThere, AcknowledgedKept, [Next]_vars, told'[0] = "acked"
  PROVE  tenant' # NoTenant
<1>0. tenant # NoTenant => tenant' # NoTenant
  BY TenantStays
<1>1. told[0] = "acked" => tenant' # NoTenant
  BY <1>0 DEF AcknowledgedKept
<1> SUFFICES ASSUME told[0] # "acked" PROVE tenant' # NoTenant
  BY <1>1
<1> USE <1>0, ProvisioningAssumption DEF TypeOK, Told
<1>2. CASE UNCHANGED vars BY <1>2 DEF vars, eventVars
<1>3. CASE Clerk
  <2>0. told \in [Names -> EventStates] /\ 0 \in Names /\ name + 1 # 0
    BY DEF Names
  <2>1. CASE Rename BY ONLY <1>1, <2>0, <2>1, told[0] # "acked", told'[0] = "acked" DEF Rename
  <2>2. CASE Repeat
    <3>1. told'[0] # "acked"
      BY ONLY <2>0, <2>2, told[0] # "acked" DEF Repeat
    <3> QED BY <3>1
  <2>3. ASSUME NEW m \in Stays, Join(m) \/ Leave(m) PROVE tenant' # NoTenant
    BY <2>3 DEF Join, Leave
  <2> QED BY <1>3, <2>1, <2>2, <2>3 DEF Clerk
<1>4. CASE Handle
  <2>1. CASE LookForTenant BY <2>1 DEF LookForTenant, Names
  <2>2. CASE NameTenant BY <2>2 DEF NameTenant, Names
  <2>3. CASE DropEvent BY <2>3 DEF DropEvent, Names
  <2>4. ASSUME NEW n \in Names, RenameTenant(n) PROVE tenant' # NoTenant
    BY <2>4 DEF RenameTenant
  <2> QED BY <1>4, <2>1, <2>2, <2>3, <2>4 DEF Handle, LookForUser, SaveUser, UserUnsaved,
               RemoveUser
<1>5. ASSUME NEW s \in Sessions, Request(s) PROVE tenant' # NoTenant
  BY <1>5 DEF Request, VerifyToken, FindTenant, CreateTenant, FindUser, WriteUser, UserUnwritten, Serve,
              TryAgain, eventVars
<1> QED BY <1>2, <1>3, <1>4, <1>5 DEF Next

\* The settled were settled.
LEMMA SettledBefore ==
  ASSUME TypeOK, [Next]_vars, NEW u \in Users, NEW a, Settled(u, a)'
  PROVE  Settled(u, a)
<1>1. \A m \in Stays : Who[m] = u => left[m] = "unsent"
  BY SentStays DEF Settled
<1>2. \A v \in Users \ {u} : EverMember(v) => a \notin Addresses(v)
  BY MemberStays DEF Settled, Addresses
<1> QED BY <1>1, <1>2 DEF Settled

\* Which memberships are known, and whose requests are under way.
LEMMA KnownStep ==
  ASSUME TypeOK, RowsRight, [Next]_vars
  PROVE  /\ \A m \in Stays : joined'[m] # "unsent" => stay'[m] # "before"
         /\ \A s \in Sessions : pc'[s] # "idle" => EverMember(By[s])'
<1>1. ASSUME NEW m \in Stays, joined'[m] # "unsent" PROVE stay'[m] # "before"
  <2>1. joined[m] # "unsent" => stay'[m] # "before"
    BY MemberStays DEF RowsRight
  <2> USE DEF TypeOK, Joined, eventVars
  <2>2. CASE UNCHANGED vars BY <1>1, <2>1, <2>2 DEF vars
  <2>3. CASE Clerk BY <1>1, <2>1, <2>3 DEF Clerk, Rename, Repeat, Join, Leave
  <2>4. CASE Handle
    BY <1>1, <2>1, <2>4 DEF Handle, LookForTenant, NameTenant, DropEvent, RenameTenant, LookForUser,
                     SaveUser, UserUnsaved, RemoveUser
  <2>5. ASSUME NEW s \in Sessions, Request(s) PROVE stay'[m] # "before"
    BY <1>1, <2>1, <2>5 DEF Request, VerifyToken, FindTenant, CreateTenant, FindUser, WriteUser,
                     UserUnwritten, Serve, TryAgain
  <2> QED BY <2>2, <2>3, <2>4, <2>5 DEF Next
<1>2. ASSUME NEW s \in Sessions, pc'[s] # "idle" PROVE EverMember(By[s])'
  <2>1. By[s] \in Users
    BY ProvisioningAssumption
  <2>2. pc[s] # "idle" => EverMember(By[s])'
    BY <2>1, MemberStays DEF RowsRight
  <2> USE DEF TypeOK, Go
  <2>3. CASE UNCHANGED vars BY <1>2, <2>2, <2>3 DEF vars
  <2>4. CASE Clerk BY <1>2, <2>2, <2>4 DEF Clerk, Rename, Repeat, Join, Leave
  <2>5. CASE Handle
    BY <1>2, <2>2, <2>5 DEF Handle, LookForTenant, NameTenant, DropEvent, RenameTenant, LookForUser,
                     SaveUser, UserUnsaved, RemoveUser
  <2>6. ASSUME NEW t \in Sessions, Request(t) PROVE EverMember(By[s])'
    <3>1. CASE VerifyToken(t)
      <4>1. t = s \/ pc[s] # "idle"
        BY <1>2, <3>1 DEF VerifyToken
      <4>2. t = s => EverMember(By[s])
        BY <3>1 DEF VerifyToken, Member, EverMember
      <4> QED BY <2>1, <2>2, <4>1, <4>2, MemberStays
    <3>2. CASE ~ VerifyToken(t)
      <4>1. pc[s] # "idle"
        BY <1>2, <2>6, <3>2 DEF Request, FindTenant, CreateTenant, FindUser, WriteUser,
                                UserUnwritten, Serve, TryAgain
      <4> QED BY <2>2, <4>1
    <3> QED BY <3>1, <3>2
  <2> QED BY <2>3, <2>4, <2>5, <2>6 DEF Next
<1> QED BY <1>1, <1>2

\* Rows get addresses of their users.
LEMMA OwnedStep ==
  ASSUME TypeOK, RowsRight, [Next]_vars
  PROVE  \A u \in Rows' : EverMember(u)' /\ email'[u] \in Addresses(u)
<1> USE ProvisioningAssumption DEF TypeOK, Rows
<1>0. \A u \in Rows : EverMember(u)' /\ email[u] \in Addresses(u)
  BY MemberStays DEF RowsRight
<1>1. CASE email' = email
  BY <1>0, <1>1
<1>2. ASSUME NEW m \in Stays, email' = [email EXCEPT ![Who[m]] = NoUser]
      PROVE  \A u \in Rows' : EverMember(u)' /\ email'[u] \in Addresses(u)
  BY <1>0, <1>2
<1>3. ASSUME NEW m \in Stays, SaveUser(m), email' = [email EXCEPT ![Who[m]] = Email[Who[m]]]
      PROVE  \A u \in Rows' : EverMember(u)' /\ email'[u] \in Addresses(u)
  <2>1. stay[m] # "before"
    BY <1>3 DEF SaveUser, Joined, RowsRight
  <2>2. EverMember(Who[m])'
    BY <2>1, MemberStays DEF EverMember
  <2>3. Email[Who[m]] \in Addresses(Who[m])
    BY DEF Addresses
  <2> QED BY <1>0, <1>3, <2>2, <2>3
<1>4. ASSUME NEW s \in Sessions, WriteUser(s), email' = [email EXCEPT ![By[s]] = Claim[s]]
      PROVE  \A u \in Rows' : EverMember(u)' /\ email'[u] \in Addresses(u)
  <2>1. EverMember(By[s])
    BY <1>4 DEF WriteUser, Go, RowsRight
  <2>2. EverMember(By[s])'
    BY <2>1, MemberStays
  <2>3. Claim[s] \in Addresses(By[s])
    BY DEF Addresses
  <2> QED BY <1>0, <1>4, <2>2, <2>3
<1> QED BY RowChanges, <1>1, <1>2, <1>3, <1>4 DEF RowChange

\* The row that a handler has found stays.
LEMMA FoundStep ==
  ASSUME TypeOK, RowsRight, [Next]_vars, NEW m \in Stays,
         joined'[m] = "found", Settled(Who[m], Email[Who[m]])'
  PROVE  Who[m] \in Rows'
<1>1. Settled(Who[m], Email[Who[m]]) /\ Who[m] \in Users
  BY SettledBefore, ProvisioningAssumption
<1>2. Who[m] \in Rows => Who[m] \in Rows'
  BY <1>1, RowStays DEF Settled
<1>3. joined[m] = "found" => Who[m] \in Rows'
  BY <1>1, <1>2 DEF RowsRight
<1> SUFFICES ASSUME joined[m] # "found" PROVE Who[m] \in Rows'
  BY <1>3
<1> USE DEF TypeOK, Joined
<1>4. CASE UNCHANGED vars BY <1>4 DEF vars, eventVars
<1>5. CASE Clerk BY <1>5 DEF Clerk, Rename, Repeat, Join, Leave
<1>6. CASE Handle
  <2>1. ASSUME NEW k \in Stays, LookForUser(k) PROVE Who[m] \in Rows'
    BY <1>2, <2>1 DEF LookForUser
  <2> QED BY <1>6, <2>1
          DEF Handle, LookForTenant, NameTenant, DropEvent, RenameTenant, SaveUser, UserUnsaved,
              RemoveUser
<1>7. ASSUME NEW s \in Sessions, Request(s) PROVE Who[m] \in Rows'
  BY <1>7 DEF Request, VerifyToken, FindTenant, CreateTenant, FindUser, WriteUser,
              UserUnwritten, Serve, TryAgain, eventVars
<1> QED BY <1>4, <1>5, <1>6, <1>7 DEF Next

\* A membership is acknowledged only with the row in place: one that cannot be inserted is
\* there already, since nobody else has the address, and one that was found still is.
LEMMA MembershipKept ==
  ASSUME TypeOK, RowsRight, AcknowledgedKept, [Next]_vars, NEW m \in Stays,
         joined'[m] = "acked", Settled(Who[m], Email[Who[m]])'
  PROVE  Who[m] \in Rows'
<1>1. Settled(Who[m], Email[Who[m]]) /\ Who[m] \in Users
  BY SettledBefore, ProvisioningAssumption
<1>2. Who[m] \in Rows => Who[m] \in Rows'
  BY <1>1, RowStays DEF Settled
<1>3. joined[m] \in {"found", "acked"} => Who[m] \in Rows'
  BY <1>1, <1>2 DEF AcknowledgedKept, RowsRight
<1> SUFFICES ASSUME joined[m] \notin {"found", "acked"} PROVE Who[m] \in Rows'
  BY <1>3
<1>4. Free(Who[m], Email[Who[m]])
  <2> SUFFICES ASSUME NEW v \in Users \ {Who[m]}, email[v] = Email[Who[m]] PROVE FALSE
    BY DEF Free
  <2>1. v \in Rows
    BY <1>1, ProvisioningAssumption DEF Rows
  <2>2. EverMember(v) /\ email[v] \in Addresses(v)
    BY <2>1 DEF RowsRight
  <2> QED BY <1>1, <2>2 DEF Settled
<1>5. Who[m] \in Rows \/ Insertable(Who[m], Email[Who[m]])
  BY <1>4 DEF Insertable
<1> USE DEF TypeOK, Joined
<1>6. CASE UNCHANGED vars BY <1>6 DEF vars, eventVars
<1>7. CASE Clerk BY <1>7 DEF Clerk, Rename, Repeat, Join, Leave
<1>8. CASE Handle
  <2>1. ASSUME NEW k \in Stays, SaveUser(k) PROVE Who[m] \in Rows'
    <3>1. k = m
      BY <2>1 DEF SaveUser
    <3>2. email'[Who[m]] = Email[Who[m]]
      BY <1>1, <2>1, <3>1 DEF SaveUser
    <3> QED BY <1>1, <3>2, ProvisioningAssumption DEF Rows
  <2>2. ASSUME NEW k \in Stays, UserUnsaved(k) PROVE Who[m] \in Rows'
    <3>1. k = m
      BY <2>2 DEF UserUnsaved
    <3> QED BY <1>2, <1>5, <2>2, <3>1 DEF UserUnsaved
  <2> QED BY <1>8, <2>1, <2>2
          DEF Handle, LookForTenant, NameTenant, DropEvent, RenameTenant, LookForUser, RemoveUser
<1>9. ASSUME NEW s \in Sessions, Request(s) PROVE Who[m] \in Rows'
  BY <1>9 DEF Request, VerifyToken, FindTenant, CreateTenant, FindUser, WriteUser,
              UserUnwritten, Serve, TryAgain, eventVars
<1> QED BY <1>6, <1>7, <1>8, <1>9 DEF Next

LEMMA RowsRightStep ==
  ASSUME TypeOK, RowsRight, [Next]_vars
  PROVE  RowsRight'
<1>1. \A u \in Rows' : EverMember(u)' /\ email'[u] \in Addresses(u)
  BY OwnedStep
<1>2. /\ \A m \in Stays : joined'[m] # "unsent" => stay'[m] # "before"
      /\ \A s \in Sessions : pc'[s] # "idle" => EverMember(By[s])'
  BY KnownStep
<1>3. \A m \in Stays :
        joined'[m] = "found" /\ Settled(Who[m], Email[Who[m]])' => Who[m] \in Rows'
  BY FoundStep
<1> QED BY <1>1, <1>2, <1>3 DEF RowsRight, Addresses

-----------------------------------------------------------------------------
\* What Clerk was told is processed is there: the tenant of the organization, and the row
\* of every member who has not left, for any number of racing logins and deliveries.
THEOREM ProvisioningCorrect == Spec => []ProvisioningInv
<1>1. ProvisioningInv /\ [Next]_vars => ProvisioningInv'
  <2> SUFFICES ASSUME ProvisioningInv, [Next]_vars PROVE ProvisioningInv'
    OBVIOUS
  <2> USE DEF ProvisioningInv
  <2>1. TypeOK'
    BY TypeStep
  <2>2. TenantThere'
    BY TenantThereStep
  <2>3. RowsRight'
    BY RowsRightStep
  <2>4. AcknowledgedKept'
    BY OrganizationKept, MembershipKept DEF AcknowledgedKept
  <2> QED BY <2>1, <2>2, <2>3, <2>4
<1> QED BY ProvisioningInit, <1>1, PTL DEF Spec

\* Neither a first login nor a repeated or late webhook takes the name of a tenant away.
THEOREM NameCorrect == Spec => NameKept
<1> DEFINE Kept == tenant \in Names => tenant' \in Names
<1>1. ProvisioningInv /\ [Next]_vars => [Kept]_vars
  <2> SUFFICES ASSUME ProvisioningInv, [Next]_vars, tenant \in Names PROVE tenant' \in Names
    OBVIOUS
  <2> USE ProvisioningAssumption DEF tableVars
  <2>1. CASE UNCHANGED vars BY <2>1 DEF vars
  <2>2. CASE Clerk BY <2>2 DEF Clerk, Rename, Repeat, Join, Leave
  <2>3. CASE Handle
    BY <2>3 DEF Handle, LookForTenant, NameTenant, DropEvent, RenameTenant, LookForUser, SaveUser, UserUnsaved,
                RemoveUser, Names
  <2>4. ASSUME NEW s \in Sessions, Request(s) PROVE tenant' \in Names
    BY <2>4 DEF Request, VerifyToken, FindTenant, CreateTenant, TenantInserted, FindUser,
                WriteUser, UserUnwritten, Serve, TryAgain
  <2> QED BY <2>1, <2>2, <2>3, <2>4 DEF Next
<1> QED BY <1>1, ProvisioningCorrect, PTL DEF Spec, NameKept
=============================================================================
