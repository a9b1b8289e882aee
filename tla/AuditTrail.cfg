\* Two calls of a user, an invitation of another, retention after one day and after three.
CONSTANTS
  e1 = e1
  e2 = e2
  u1 = u1
  u2 = u2
  t1 = t1
  i1 = i1
  a1 = a1
  a2 = a2
  Account = {u1, u2}
  Tenant = {t1}
  Invitation = {i1}
  InvitedBy <- MCInvitedBy
  Ip = {a1, a2}
  Event = {e1, e2}
  Shapes <- MCShapes
  Unheard = Unheard
  Missing = Missing
  FailureLimit = 1
  ChangesLimit = 1
  VerificationLimit = 1
  GenerationLimit = 1
  RefusalLimit = 1
  NotificationDays = 1
  AuditDays = 3
  LastDay = 3
SYMMETRY Symmetry
SPECIFICATION AuditSpec
INVARIANTS
  TrailKept
  EveryRowIsFound
CHECK_DEADLOCK FALSE
