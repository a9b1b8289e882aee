\* One management call at a time against one other request.
CONSTANTS
  t1 = t1
  e1 = e1
  Tenant = {t1}
  Email = {e1}
  Request = {r1, m1}
  Manager = {m1}
  Invitation <- MCInvitation
  User <- MCUser
  MaxResends = 1
  Unused = Unused
  Deleted = Deleted
  Tenantless = Tenantless
  StatusJobsScheduled = FALSE
  Malformed = Malformed
  EmailList <- MCEmailList
  IdList <- MCIdList
  MaxEmails = 2
  MaxIds = 2
SPECIFICATION MFairSpec
INVARIANTS
  AnswersAreTrue
  FiguresAgree
PROPERTIES
  BulkCallsEnd
\* Every row deleted and every id used: the instance has run out.
CHECK_DEADLOCK FALSE
