\* Two users, two creations, one broadcast, two sockets; three calls and failures.
CONSTANTS
  b1 = b1
  Email = Email
  u1 = u1
  u2 = u2
  c1 = c1
  c2 = c2
  s1 = s1
  s2 = s2
  User = {u1, u2}
  Creation = {c1, c2}
  Broadcast = {b1}
  Service = Service
  InApp = InApp
  External = {Email}
  Socket = {s1, s2}
  None = None
  LastDay = 1
  Dates = {1}
  Choices = {{Email}}
  MaxServed = 3
SYMMETRY Symmetry
SPECIFICATION Spec
INVARIANTS
  PushedCountsAreBehind
  BroadcastReaches
  ConnectedMapRight
PROPERTIES
  RetentionTakesOnlyDue
CHECK_DEADLOCK FALSE
