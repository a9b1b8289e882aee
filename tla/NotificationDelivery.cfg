\* One notification over the in-app channel and a queued one.
CONSTANTS
  Creation = {c1}
  InApp = "IN_APP"
  External = {"EMAIL"}
  Attempts = 2
  MaxStalls = 1
  NoRow = NoRow
SPECIFICATION FairSpec
INVARIANTS
  LogsMatchSends
  CompletedWasSent
  ClaimsAreBacked
PROPERTIES
  DeliversAtLeastOnce
  JobsEnd
\* Every job ended and every row deleted.
CHECK_DEADLOCK FALSE
