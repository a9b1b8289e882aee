\* Two requests at once on the two invitations an address may get in turn;
\* somebody else tries its links too.
CONSTANTS
  Tenant = {t1}
  Request = {r1, r2}
  InvitationsPerAddress = 2
  Email = {e1, e2}
  Invited = {e1}
  Reinvited = {e1}
  Registering = {e1, e2}
  UsersPerEmail = 2
  Invitation <- MCInvitation
  User <- MCUser
  MaxResends = 1
  Unused = Unused
  Deleted = Deleted
  Tenantless = Tenantless
  StatusJobsScheduled = FALSE
SYMMETRY RequestSymmetry
SPECIFICATION Spec
INVARIANTS
  AcceptedWasProvisioned
  OneMemberPerInvitation
  MembersWereInvited
PROPERTIES
  ClosedStaysClosed
  ImplementsLifecycle
\* Every row deleted and every id used: the instance has run out.
CHECK_DEADLOCK FALSE
