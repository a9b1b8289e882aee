\* Two requests at once for one key of each service, with two faults.
CONSTANTS
  Request = {r1, r2}
  Limit = 2
  Window = 3
  Buffer = 1
  MaxDelay = 1
  MaxEntries = 4
  MaxFaults = 2
SPECIFICATION Spec
INVARIANTS
  LimitHolds
  OnlyAdmissionsCount
  ExpiryForgetsNothing
PROPERTIES
  KeepsAdmitting
