\* Two requests at once: one address in one tenant and outside it.
CONSTANTS
  Address = {"ann"}
  Tenant = {"none", "acme"}
  AccountsPerAddress = 2
  User <- MCUser
  Account <- MCAccount
  State = {s1, s2}
  Request = {r1, r2}
  NoUser = NoUser
  Gone = Gone
  NoState = NoState
  Unlinked = Unlinked
SYMMETRY Symmetry
SPECIFICATION Spec
INVARIANTS
  NobodyLockedOut
  UncontendedMethodsMatch
  UncontendedStateUsedOnce
\* Every user deleted and every state used: the instance has run out.
CHECK_DEADLOCK FALSE
