CONSTANTS
  u1 = u1  u2 = u2
  m1 = m1  m2 = m2
  s1 = s1
  empty = empty
  Users = {u1, u2}
  Emails = {u1, empty}
  Email <- AddressOf
  Stays = {m1, m2}
  Who <- UserOf
  Leaving = {m1}
  Sessions = {s1}
  By <- UserBy
  Claim <- ClaimOf
  MaxRenames = 1
  NoTenant = NoTenant
  NoUser = NoUser
  Placeholder = Placeholder
SPECIFICATION FairSpec
INVARIANTS ProvisioningInv
PROPERTIES NameKept LoginsSucceed MembershipsHandled
CHECK_DEADLOCK FALSE
