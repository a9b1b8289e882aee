\* Two requests at once, two tenants, one user.
CONSTANTS
  t1 = t1
  t2 = t2
  u1 = u1
  p1 = p1
  Tenant = {t1, t2}
  User = {u1}
  Project = {p1}
  Name = {t1, t2}
  Request = {r1, r2}
  Role <- MCRole
  Permission <- MCPermission
  DefaultKeys = {"create"}
  ReadKeys = {}
  Required = {"create"}
  MaxServed = 4
  Founded = {t1}
  Asked <- MCAsked
  Deletable <- MCDeletable
  NoTenant = NoTenant
  Tenantless = Tenantless
  Unborn = Unborn
  Gone = Gone
SYMMETRY Symmetry
SPECIFICATION Spec
INVARIANTS
  GrantsOfOwnTenant
  AssignmentsHold
  GuardJudgesRight
  ProjectsOfOwnTenant
CHECK_DEADLOCK FALSE
