\* The query of a resend as it is written: it names a column that does not
\* exist, so that a user whose code is gone asks in vain.
CONSTANTS
  User = {u1}
  Code = {c1}
  Request = {r1}
  MaxAttempts = 2
  MaxRequests = 2
  MaxOtps = 2
  MaxMisses = 1
  NoOtp = NoOtp
  ResendQueryWorks = FALSE
SPECIFICATION FairSpec
PROPERTY LostOtpIsReplaced
