\* The status jobs against one request at a time, on two addresses: one may
\* have an EXPIRED row already when the other's invitation lapses.
CONSTANTS
  Tenant = {t1}
  Request = {r1}
  InvitationsPerAddress = 2
  Email = {e1, e2}
  Invited = {e1, e2}
  Reinvited = {e1}
  Registering = {}
  UsersPerEmail = 1
  Invitation <- MCInvitation
  User <- MCUser
  MaxResends = 1
  Unused = Unused
  Deleted = Deleted
  Tenantless = Tenantless
  StatusJobsScheduled = TRUE
SPECIFICATION FairSpec
INVARIANTS
  PurgeSparesOpenInvitations

  
\* Every row deleted and every id used: the instance has run out.
CHECK_DEADLOCK FALSE
