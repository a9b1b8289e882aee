---------------------------- MODULE MCAuditTrail ----------------------------
(* An instance of AuditTrail for TLC: events of one user, in a tenant and  *)
(* without, with two addresses, and of an invitation that another sent.    *)
EXTENDS AuditTrail, TLC

CONSTANTS e1, e2, u1, u2, t1, i1, a1, a2

Of(service, action, success) ==
  [service |-> service, action |-> action, success |-> success, user |-> u1, tenant |-> t1,
   invitation |-> Missing, ip |-> IF service = "otp" THEN a1 ELSE Missing]

MCShapes ==
  {Of("auth", "google_login", TRUE), [Of("auth", "google_login", FALSE) EXCEPT !.user = Missing],
   Of("auth", "google_link", TRUE), Of("auth", "google_settings_update", FALSE),
   Of("otp", "otp_generated", TRUE), [Of("otp", "otp_verified", TRUE) EXCEPT !.ip = a2],
   Of("otp", "otp_verification_failed", FALSE), Of("otp", "otp_rate_limit_hit", FALSE),
   Of("tenant", "tenant_creation", TRUE),
   [Of("tenant", "tenant_management_rate_limit_exceeded", FALSE) EXCEPT !.tenant = Missing],
   [Of("invitation", "invitation_created", TRUE) EXCEPT !.invitation = i1],
   [Of("invitation", "invitation_validation_failed", FALSE) EXCEPT !.invitation = i1, !.user = Missing]}

MCInvitedBy == [i \in Invitation |-> u2]

Symmetry == Permutations(Event)

=============================================================================
