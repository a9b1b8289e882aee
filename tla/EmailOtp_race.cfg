\* Two requests at once for one user, with expiry, outages and resends (the
\* runs of the code whose resend query is refused are among them).
CONSTANTS
  User = {u1}
  Code = {c1, c2}
  Request = {r1, r2}
  MaxAttempts = 2
  MaxRequests = 2
  MaxOtps = 2
  MaxMisses = 1
  NoOtp = NoOtp
  ResendQueryWorks = TRUE
SYMMETRY CodeRequestSymmetry
SPECIFICATION Spec
INVARIANTS
  ResetFollowsVerification
  
  
