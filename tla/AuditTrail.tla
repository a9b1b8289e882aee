----------------------------- MODULE AuditTrail -----------------------------
(***************************************************************************)
(* What the audit services leave in the database: AuthAuditService and the *)
(* two that extend it (enhanced-audit.service.ts, otp-audit.service.ts),   *)
(* TenantManagementAuditService and InvitationAuditService.                *)
(*                                                                         *)
(* The first three store an event as a row of notification_audit_logs,     *)
(* which needs a notification to point to, so each makes one up first.     *)
(* The row goes with that notification: the two tables are cleaned by jobs *)
(* with retention periods of their own, and the owner may dismiss the      *)
(* notification.  The OTP services count earlier rows after an event to    *)
(* find patterns; they find none, since no event of theirs is stored.  A   *)
(* failure to store is caught and only logged.                             *)
(***************************************************************************)
EXTENDS Naturals, FiniteSets

CONSTANTS
  Account,          \* user ids
  Tenant,           \* tenant ids
  Invitation,       \* invitation ids
  InvitedBy,        \* who invited, for each
  Ip,               \* addresses of clients
  Event,            \* calls of the audit services
  Shapes,           \* what they may be about
  Unheard,          \* not called yet
  Missing,          \* "unknown", "tenant-less", "system-audit", "": an id of no row
  FailureLimit,     \* failures from one address
  ChangesLimit,     \* changes of one account
  VerificationLimit, \* wrong codes of one user
  GenerationLimit,  \* codes made for one user
  RefusalLimit,     \* refusals of one address
  NotificationDays, \* how long notifications are kept
  AuditDays,        \* how long audit rows are kept
  LastDay           \* how many days are looked at

VARIABLES
  users,         \* the users there are
  invitations,   \* the invitations there are
  events,        \* what each call is about
  todo,          \* what is left to do of each call
  notifications, \* the notification made up for each event
  rows,          \* the row of each event, in either of the two tables
  storedOn,      \* the day they were stored
  found,         \* the notifications the retention job found
  purging,       \* the invitations the clean-up found and whose rows it deleted
  reported,      \* the last count of OTP events that a monitoring request got
  alerts,        \* the patterns found
  failed,        \* history: the events of which a statement failed
  day            \* the clock

tables == <<users, invitations, notifications, rows, storedOn>>
jobs == <<found, purging, reported>>
auditVars == <<tables, events, todo, jobs, alerts, failed, day>>

-----------------------------------------------------------------------------
(* The events the callers log: which action, for whom, where, with which   *)
(* address.  Google handlers pass no address, and no user when they fail;  *)
(* those of memberships log what succeeded, without an address.            *)

GoogleActions == {"google_login", "google_link", "google_unlink", "google_settings_update"}
OtpGenerations == {"otp_generated", "otp_resent"}
OtpVerifications == {"otp_verified", "otp_verification_failed"}
OtpActions ==
  OtpGenerations \cup OtpVerifications
    \cup {"otp_rate_limit_hit", "email_verification_completed", "email_verification_required"}
TenantlessActions ==
  {"tenant_less_registration", "tenant_less_google_registration", "tenant_less_login",
   "tenant_less_google_login", "tenant_management_rate_limit_exceeded"}
MembershipActions ==
  {"tenant_creation", "tenant_joining", "invitation_acceptance", "tenant_status_check"}
InvitationActions ==
  {"invitation_created", "invitation_sent", "invitation_resent", "invitation_cancelled",
   "invitation_accepted", "invitation_expired", "invitation_validated", "invitation_cleanup"}
InvitationRefusals == {"invitation_validation_failed", "invitation_rate_limit_exceeded"}

Shape ==
  [service : {"auth", "otp", "tenant", "invitation"},
   action : GoogleActions \cup {"password_login"} \cup OtpActions \cup TenantlessActions
              \cup MembershipActions \cup InvitationActions \cup InvitationRefusals,
   user : Account \cup {Missing},
   tenant : Tenant \cup {Missing},
   invitation : Invitation \cup {Missing},
   ip : Ip \cup {Missing},
   success : BOOLEAN]

ASSUME AuditAssumption ==
  /\ Shapes \subseteq Shape /\ Unheard \notin Shape
  /\ Missing \notin Account \cup Tenant \cup Invitation \cup Ip
  /\ InvitedBy \in [Invitation -> Account]
  /\ {FailureLimit, ChangesLimit, VerificationLimit, GenerationLimit, RefusalLimit} \subseteq Nat \ {0}
  /\ NotificationDays \in Nat \ {0}
  /\ AuditDays \in Nat /\ AuditDays >= NotificationDays
  /\ LastDay \in Nat

IsGoogleSignIn(x) ==
  /\ x.service = "auth" /\ x.action = "google_login"
  /\ x.ip = Missing
  /\ ~x.success => x.user = Missing

IsGoogleChange(x) ==
  /\ x.service = "auth"
  /\ x.action \in {"google_link", "google_unlink", "google_settings_update"}
  /\ x.ip = Missing

IsOtpEvent(x) ==
  /\ x.service = "otp"
  /\ \/ x.action \in OtpGenerations
     \/ x.action = "otp_verified" /\ x.success
     \/ x.action = "otp_verification_failed" /\ ~x.success

IsOtpRefusal(x) ==
  /\ x.service = "otp"
  /\ \/ x.action \in {"otp_rate_limit_hit", "email_verification_required"} /\ ~x.success
     \/ x.action = "email_verification_completed" /\ x.success

(* A tenant that is null is stored as "system-audit".                      *)
IsTenantlessEvent(x) ==
  x.service = "tenant" /\ x.action \in TenantlessActions /\ x.tenant = Missing

IsMembershipEvent(x) ==
  /\ x.service = "tenant" /\ x.action \in MembershipActions
  /\ x.success /\ x.ip = Missing

(* A bulk operation logs one event with an id that is not an invitation's. *)
IsInvitationEvent(x) ==
  x.service = "invitation" /\ x.action \in InvitationActions /\ x.success

IsInvitationRefusal(x) ==
  x.service = "invitation" /\ x.action \in InvitationRefusals /\ ~x.success

-----------------------------------------------------------------------------
Task == {"notification", "row", "suspicious", "pattern"}

AuditTypeOK ==
  /\ users \subseteq Account
  /\ invitations \subseteq Invitation
  /\ events \in [Event -> Shape \cup {Unheard}]
  /\ todo \in [Event -> SUBSET Task]
  /\ notifications \in [Event -> {"none", "there", "dismissed", "gone"}]
  /\ rows \in [Event -> {"none", "there", "gone"}]
  /\ storedOn \in [Event -> 0 .. LastDay]
  /\ found \subseteq Event
  /\ purging \subseteq Invitation
  /\ reported \in Nat
  /\ alerts \subseteq (Event \X STRING)
  /\ failed \subseteq Event
  /\ day \in 0 .. LastDay

AuditInit ==
  /\ users = Account
  /\ invitations = Invitation
  /\ events = [e \in Event |-> Unheard]
  /\ todo = [e \in Event |-> {}]
  /\ notifications = [e \in Event |-> "none"]
  /\ rows = [e \in Event |-> "none"]
  /\ storedOn = [e \in Event |-> 0]
  /\ found = {}
  /\ purging = {}
  /\ reported = 0
  /\ alerts = {}
  /\ failed = {}
  /\ day = 0

Age(e) == day - storedOn[e]

(* The rows of notification_audit_logs that a WHERE clause selects.        *)
Trail == {e \in Event : rows[e] = "there" /\ events[e].service # "invitation"}
InvitationTrail == {e \in Event : rows[e] = "there" /\ events[e].service = "invitation"}

(* The windows of the checks are minutes: rows of today are within them.   *)
Recent(es) == {e \in es : Age(e) = 0}

-----------------------------------------------------------------------------
(* Plausible mistakes in the services, for mutation checks.                *)

(* A clean-up that takes the period of the notifications.                  *)
CleanupAuditLogsEarly ==
  /\ rows' = [e \in Event |->
       IF e \in Trail /\ Age(e) >= NotificationDays THEN "gone" ELSE rows[e]]
  /\ UNCHANGED <<users, invitations, notifications, storedOn, events, todo, jobs, alerts, failed>>

(* A query that leaves out what an administrator did.                      *)
AuthLogsOfSignIns == {e \in Trail : events[e].action \in GoogleActions \ {"google_settings_update"}}

-----------------------------------------------------------------------------
(* Storing an event *)

(* logAuthEvent stores what starts with "google_"; logOTPEvent goes through*)
(* it and then looks for patterns, in two checks that are not ordered.     *)
TasksOf(x) ==
  CASE x.service = "auth" /\ x.action \in GoogleActions -> {"notification", "row"}
    [] x.service = "auth" /\ x.action \notin GoogleActions -> {}
    [] x.service = "tenant" -> {"notification", "row"}
    [] x.service = "otp" -> {"suspicious", "pattern"}
    [] x.service = "invitation" -> {"row"}

Log(e, x) ==
  /\ events[e] = Unheard
  /\ events' = [events EXCEPT ![e] = x]
  /\ todo' = [todo EXCEPT ![e] = TasksOf(x)]
  /\ UNCHANGED <<tables, jobs, alerts, failed>>

LogAuthEvent(e, x) == (IsGoogleSignIn(x) \/ IsGoogleChange(x)) /\ Log(e, x)
LogOtpEvent(e, x) == (IsOtpEvent(x) \/ IsOtpRefusal(x)) /\ Log(e, x)
LogTenantManagementEvent(e, x) == (IsTenantlessEvent(x) \/ IsMembershipEvent(x)) /\ Log(e, x)
LogInvitationEvent(e, x) == (IsInvitationEvent(x) \/ IsInvitationRefusal(x)) /\ Log(e, x)

(* What the foreign keys of a table want.                                  *)
Known(x) == x.user \in users /\ x.tenant \in Tenant
InvitationKnown(x) == x.invitation \in invitations /\ x.user \in users \cup {Missing}

(* createDatabaseAuditLog: first the notification ...                      *)
StoreNotification(e) ==
  /\ "notification" \in todo[e]
  /\ Known(events[e])
  /\ notifications' = [notifications EXCEPT ![e] = "there"]
  /\ storedOn' = [storedOn EXCEPT ![e] = day]
  /\ todo' = [todo EXCEPT ![e] = @ \ {"notification"}]
  /\ UNCHANGED <<users, invitations, rows, events, jobs, alerts, failed>>

(* ... then the row that points to it.                                     *)
StoreRow(e) ==
  /\ "row" \in todo[e] /\ "notification" \notin todo[e]
  /\ events[e].service # "invitation"
  /\ Known(events[e])
  /\ notifications[e] \in {"there", "dismissed"}
  /\ rows' = [rows EXCEPT ![e] = "there"]
  /\ todo' = [todo EXCEPT ![e] = @ \ {"row"}]
  /\ UNCHANGED <<users, invitations, notifications, storedOn, events, jobs, alerts, failed>>

(* An event of an invitation is one row.                                   *)
StoreInvitationRow(e) ==
  /\ "row" \in todo[e]
  /\ events[e].service = "invitation"
  /\ InvitationKnown(events[e])
  /\ rows' = [rows EXCEPT ![e] = "there"]
  /\ storedOn' = [storedOn EXCEPT ![e] = day]
  /\ todo' = [todo EXCEPT ![e] = @ \ {"row"}]
  /\ UNCHANGED <<users, invitations, notifications, events, jobs, alerts, failed>>

(* A statement is refused or gets lost: what is left to store is not, and  *)
(* the checks go on.                                                       *)
FailToStore(e) ==
  /\ todo[e] \cap {"notification", "row"} # {}
  /\ todo' = [todo EXCEPT ![e] = @ \ {"notification", "row"}]
  /\ failed' = failed \cup {e}
  /\ UNCHANGED <<tables, events, jobs, alerts>>

-----------------------------------------------------------------------------
(* Looking for patterns *)

(* checkForSuspiciousActivity: failures from the address of a failure, and *)
(* changes of the account.                                                 *)
FailuresFrom(x) ==
  {e \in Recent(Trail) : events[e].tenant = x.tenant /\ events[e].ip = x.ip /\ ~events[e].success}
ChangesOf(x) ==
  {e \in Recent(Trail) :
     /\ events[e].user = x.user /\ events[e].tenant = x.tenant
     /\ events[e].action \in {"google_link", "google_unlink"}}

SuspicionsAbout(x) ==
  {kind \in {"multiple_failed_attempts", "rapid_account_changes"} :
     CASE kind = "multiple_failed_attempts" ->
            ~x.success /\ x.ip # Missing /\ Cardinality(FailuresFrom(x)) >= FailureLimit
       [] kind = "rapid_account_changes" ->
            /\ x.action \in {"google_link", "google_unlink"}
            /\ Cardinality(ChangesOf(x)) >= ChangesLimit}

CheckSuspiciousActivity(e) ==
  /\ "suspicious" \in todo[e]
  /\ todo[e] \cap {"notification", "row"} = {}
  /\ alerts' = alerts \cup {<<e, kind>> : kind \in SuspicionsAbout(events[e])}
  /\ todo' = [todo EXCEPT ![e] = @ \ {"suspicious"}]
  /\ UNCHANGED <<tables, events, jobs, failed>>

(* checkOTPSecurityPatterns *)
OtpRowsOf(x, actions) ==
  {e \in Trail :
     events[e].user = x.user /\ events[e].tenant = x.tenant /\ events[e].action \in actions}
RefusalsFrom(x) ==
  {e \in Recent(Trail) :
     /\ events[e].tenant = x.tenant /\ events[e].ip = x.ip /\ x.ip # Missing
     /\ events[e].action = "otp_rate_limit_hit"}

(* Of one day any may be the last.                                         *)
LastOf(es) == {e \in es : \A f \in es : storedOn[f] <= storedOn[e]}

PatternsAbout(x) ==
  {kind \in {"excessive_failed_verifications", "rapid_otp_generation",
             "ip_mismatch_verification", "rate_limit_abuse"} :
     CASE kind = "excessive_failed_verifications" ->
            /\ x.action = "otp_verification_failed"
            /\ Cardinality(Recent(OtpRowsOf(x, {"otp_verification_failed"}))) >= VerificationLimit
       [] kind = "rapid_otp_generation" ->
            /\ x.action \in OtpGenerations
            /\ Cardinality(Recent(OtpRowsOf(x, OtpGenerations))) >= GenerationLimit
       [] kind = "ip_mismatch_verification" ->
            /\ x.action = "otp_verified"
            /\ \E e \in LastOf(OtpRowsOf(x, OtpGenerations)) :
                 Missing \notin {events[e].ip, x.ip} /\ events[e].ip # x.ip
       [] kind = "rate_limit_abuse" ->
            x.action = "otp_rate_limit_hit" /\ Cardinality(RefusalsFrom(x)) >= RefusalLimit}

CheckOtpPatterns(e) ==
  /\ "pattern" \in todo[e]
  /\ todo[e] \cap {"notification", "row"} = {}
  /\ alerts' = alerts \cup {<<e, kind>> : kind \in PatternsAbout(events[e])}
  /\ todo' = [todo EXCEPT ![e] = @ \ {"pattern"}]
  /\ UNCHANGED <<tables, events, jobs, failed>>

-----------------------------------------------------------------------------
(* Reading: each service lists the rows whose action is one of its own.    *)

OtpLogs == {e \in Trail : events[e].action \in OtpActions}
AuthLogs == {e \in Trail : events[e].action \in GoogleActions \cup {"password_login"}}
UserTenantLogs == {e \in Trail : events[e].action \in TenantlessActions \cup MembershipActions}
TenantLogs(t) == {e \in Trail : events[e].tenant = t /\ events[e].action \in MembershipActions}
InvitationLogs(i) == {e \in InvitationTrail : events[e].invitation = i}
InvitationSecurityEvents == {e \in InvitationTrail : events[e].action \in InvitationRefusals}

(* One of the counts of getOTPAuditStatistics, which are read in parallel. *)
ReadOtpStatistics ==
  /\ \E actions \in {OtpActions, OtpGenerations, OtpVerifications, {"otp_verified"},
                     {"otp_verification_failed"}, {"otp_rate_limit_hit"}} :
       reported' = Cardinality({e \in OtpLogs : events[e].action \in actions})
  /\ UNCHANGED <<tables, events, todo, found, purging, alerts, failed>>

(* getOTPMetrics computes rates from the rows of certain actions, whoever  *)
(* wrote them; what it filters by is one tenant or none.                   *)
TenantRows(t, actions) ==
  {e \in Trail : (t = Missing \/ events[e].tenant = t) /\ events[e].action \in actions}

GenerationEvents(t) == TenantRows(t, OtpGenerations)
VerificationEvents(t) == TenantRows(t, OtpVerifications)
SecurityEvents(t) == TenantRows(t, {"otp_rate_limit_hit", "email_verification_required"})
BehaviorEvents(t) == TenantRows(t, OtpGenerations \cup {"otp_verified", "otp_expired"})

ReadOtpMetrics(t) ==
  /\ \E es \in {GenerationEvents(t), VerificationEvents(t), SecurityEvents(t), BehaviorEvents(t)} :
       reported' = Cardinality(es)
  /\ UNCHANGED <<tables, events, todo, found, purging, alerts, failed>>

-----------------------------------------------------------------------------
(* Removing *)

(* DELETE /notifications/:id, by its owner.                                *)
Dismiss(e) ==
  /\ notifications[e] = "there"
  /\ notifications' = [notifications EXCEPT ![e] = "dismissed"]
  /\ UNCHANGED <<users, invitations, rows, storedOn, events, todo, jobs, alerts, failed>>

(* enforceRetentionPolicy lists what is old and not dismissed ...          *)
FindExpired ==
  /\ found = {}
  /\ found' = {e \in Event : notifications[e] = "there" /\ Age(e) >= NotificationDays}
  /\ UNCHANGED <<tables, events, todo, purging, reported, alerts, failed>>

(* ... and deletes by id, with the row; an error is caught.                *)
DeleteExpired(e) ==
  /\ e \in found
  /\ found' = found \ {e}
  /\ notifications' = [notifications EXCEPT ![e] = "gone"]
  /\ rows' = [rows EXCEPT ![e] = IF @ = "there" THEN "gone" ELSE @]
  /\ UNCHANGED <<users, invitations, storedOn, events, todo, purging, reported, alerts, failed>>

StopRetention ==
  /\ found # {}
  /\ found' = {}
  /\ UNCHANGED <<tables, events, todo, purging, reported, alerts, failed>>

CleanupAuditLogs ==
  /\ rows' = [e \in Event |->
       IF e \in Trail /\ Age(e) >= AuditDays THEN "gone" ELSE rows[e]]
  /\ UNCHANGED <<users, invitations, notifications, storedOn, events, todo, jobs, alerts, failed>>

(* cleanupOldInvitations: the rows, then the invitation and what was       *)
(* stored meanwhile; then it logs an event (of an id that is gone).        *)
PurgeInvitationLogs(i) ==
  /\ i \in invitations \ purging
  /\ purging' = purging \cup {i}
  /\ rows' = [e \in Event |-> IF e \in InvitationLogs(i) THEN "gone" ELSE rows[e]]
  /\ UNCHANGED <<users, invitations, notifications, storedOn, events, todo, found, reported, alerts, failed>>

PurgeInvitation(i) ==
  /\ i \in purging \cap invitations
  /\ invitations' = invitations \ {i}
  /\ rows' = [e \in Event |-> IF e \in InvitationLogs(i) THEN "gone" ELSE rows[e]]
  /\ UNCHANGED <<users, notifications, storedOn, events, todo, jobs, alerts, failed>>

(* Deleting a user takes the notifications and their rows, and the         *)
(* invitations the user sent and theirs.                                   *)
DeleteUser(u) ==
  LET own == {e \in Event : notifications[e] \in {"there", "dismissed"} /\ events[e].user = u}
      sent == {i \in invitations : InvitedBy[i] = u} IN
  /\ u \in users
  /\ users' = users \ {u}
  /\ invitations' = invitations \ sent
  /\ notifications' = [e \in Event |-> IF e \in own THEN "gone" ELSE notifications[e]]
  /\ rows' = [e \in Event |->
       IF e \in (own \cap Trail) \cup UNION {InvitationLogs(i) : i \in sent} THEN "gone"
       ELSE rows[e]]
  /\ UNCHANGED <<storedOn, events, todo, jobs, alerts, failed>>

Tick ==
  /\ day < LastDay
  /\ \A e \in Event : todo[e] = {}
  /\ day' = day + 1
  /\ UNCHANGED <<tables, events, todo, jobs, alerts, failed>>

Call(e) ==
  \/ \E x \in Shapes :
       \/ LogAuthEvent(e, x) \/ LogOtpEvent(e, x)
       \/ LogTenantManagementEvent(e, x) \/ LogInvitationEvent(e, x)
  \/ StoreNotification(e) \/ StoreRow(e) \/ StoreInvitationRow(e) \/ FailToStore(e)
  \/ CheckSuspiciousActivity(e) \/ CheckOtpPatterns(e)
  \/ Dismiss(e)

Step ==
  \/ \E e \in Event : Call(e) \/ DeleteExpired(e)
  \/ ReadOtpStatistics
  \/ \E t \in Tenant \cup {Missing} : ReadOtpMetrics(t)
  \/ FindExpired \/ StopRetention
  \/ CleanupAuditLogs
  \/ \E i \in Invitation : PurgeInvitationLogs(i) \/ PurgeInvitation(i)
  \/ \E u \in Account : DeleteUser(u)

AuditNext == (Step /\ UNCHANGED day) \/ Tick

AuditSpec == AuditInit /\ [][AuditNext]_auditVars

-----------------------------------------------------------------------------
(* What the trail is worth *)

(* A row is lost before its own period is over only with what it points    *)
(* to: the notification, once that is old enough, the user or the          *)
(* invitation, which goes with whoever sent it, wanted or not.             *)
RowsKept ==
  \A e \in Event : rows[e] = "gone" =>
    \/ /\ events[e].service = "invitation"
       /\ events[e].invitation \in purging \/ InvitedBy[events[e].invitation] \notin users
    \/ events[e].service # "invitation" /\ Age(e) >= AuditDays
    \/ notifications[e] = "gone" /\ (Age(e) >= NotificationDays \/ events[e].user \notin users)

(* A notification made up for an event has its row; where it has not, a    *)
(* statement failed or the row was old enough to go.                       *)
HalvesMatch ==
  \A e \in Event :
    notifications[e] \in {"there", "dismissed"} /\ todo[e] = {} /\ e \notin failed =>
      rows[e] = "there" \/ Age(e) >= AuditDays

(* The trail keeps what it was told: its two halves, stored by two         *)
(* statements and removed by two jobs and three cascades, stay together    *)
(* but for failures and what the periods of retention take.                *)
TrailKept == RowsKept /\ HalvesMatch

RowsOfTenantsFound ==
  \A e \in Trail :
    /\ Cardinality({s \in {"auth", "tenant", "otp"} :
         e \in CASE s = "auth" -> AuthLogs
                 [] s = "tenant" -> UserTenantLogs
                 [] s = "otp" -> OtpLogs}) = 1
    /\ events[e].service = "tenant" => e \in TenantLogs(events[e].tenant)

(* What is stored of a tenant is found again, by the listing of one        *)
(* service: the actions a service writes are the ones it looks for, and    *)
(* no other service looks for them.  Of the events of invitations exactly  *)
(* the refusals are listed as security events.                             *)
EveryRowIsFound ==
  /\ InvitationSecurityEvents = {e \in InvitationTrail : ~events[e].success}
  /\ RowsOfTenantsFound

=============================================================================
