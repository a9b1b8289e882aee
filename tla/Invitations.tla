----------------------------- MODULE Invitations -----------------------------
(***************************************************************************)
(* The tenant invitation component (src/src/invitation) together with the  *)
(* two ways an invitee becomes a member: the public acceptance endpoint,   *)
(* which creates a user, and POST /tenants/join, which moves an existing   *)
(* user without a tenant (src/src/tenant/tenant-management.service.ts).    *)
(*                                                                         *)
(* Every HTTP request is a sequence of database round trips.  Between two  *)
(* of them any other request, either status job, or the clock may step, so *)
(* one action below is one round trip, and a request remembers what it     *)
(* read.  Nothing but the last transaction of a handler is atomic.         *)
(***************************************************************************)
EXTENDS Naturals

CONSTANTS
  Tenant,        \* the tenants
  Email,         \* normalised e-mail addresses
  Invitation,    \* identities of invitation rows: [tenant, email, nr]
  User,          \* identities of user rows: [email, nr]
  Request,       \* HTTP requests that may be in progress at once
  MaxResends,    \* bound: how many times one invitation is resent
  Unused,        \* tenant column of a user row not yet inserted
  Deleted,       \* ... of a user row that was deleted
  Tenantless,    \* ... of a user with tenantId = null
  StatusJobsScheduled \* whether Nest registers the two @Cron jobs

(* The address of a row never changes, so it is part of its identity.  No  *)
(* tenant is one of the three values that mean "no tenant".                *)
ASSUME InvitationsAssumption ==
  /\ Invitation \subseteq [tenant : Tenant, email : Email, nr : Nat]
  /\ User \subseteq [email : Email, nr : Nat]
  /\ MaxResends \in Nat
  /\ StatusJobsScheduled \in BOOLEAN
  /\ {Unused, Deleted, Tenantless} \cap Tenant = {}
  /\ Unused # Deleted /\ Unused # Tenantless /\ Deleted # Tenantless

VARIABLES
  invitations,  \* the tenant_invitations table
  tenantOf,     \* the tenantId column of the users table
  roles,        \* user_roles: the invitations whose roles each user holds
  requests,     \* what each request in progress has read so far
  sweep,        \* the ids checkExpiredInvitations found and has yet to update
  purge,        \* the ids cleanupOldInvitations found and has yet to delete
  provisioned   \* history: invitations whose roles were ever given to a user

vars == <<invitations, tenantOf, roles, requests, sweep, purge, provisioned>>

-----------------------------------------------------------------------------
(* Rows *)

Closed == {"ACCEPTED", "CANCELLED", "EXPIRED"}
InvitationStatus == {"PENDING"} \cup Closed

(* NONE: not inserted yet.  GONE: deleted.  The random token is the number *)
(* of the link in force; expiresAt is the Boolean "it has passed", and     *)
(* aged says that the retention period has passed since the timestamp      *)
(* cleanupOldInvitations compares for the row's status.                    *)
InvitationRow ==
  [status : {"NONE", "GONE"} \cup InvitationStatus,
   token  : 0 .. MaxResends,
   lapsed : BOOLEAN,
   aged   : BOOLEAN]

NoRow == [status |-> "NONE", token |-> 0, lapsed |-> FALSE, aged |-> FALSE]
NewRow == [NoRow EXCEPT !.status = "PENDING"]
GoneRow == [NoRow EXCEPT !.status = "GONE"]

Status(i) == invitations[i].status
Stored(i) == Status(i) \in InvitationStatus
Pending(i) == Status(i) = "PENDING"
SameAddress(i, j) == i.tenant = j.tenant /\ i.email = j.email

(* The id a row inserted for the address gets: ids are never used again.   *)
NextInvitation(i) ==
  /\ Status(i) = "NONE"
  /\ \A j \in Invitation : SameAddress(i, j) /\ j.nr < i.nr => Status(j) # "NONE"

NextUser(u) ==
  /\ tenantOf[u] = Unused
  /\ \A w \in User : w.email = u.email /\ w.nr < u.nr => tenantOf[w] # Unused

(* The unique index on (tenantId, email, status): whether row i may be     *)
(* given status s.  It covers every status, not only PENDING.              *)
IndexAdmits(i, s) ==
  \A j \in Invitation \ {i} : SameAddress(i, j) => Status(j) # s

(* The users with this e-mail address in this tenant: at most one, by the  *)
(* unique index on (email, tenantId).                                      *)
Members(email, tenant) == {u \in User : u.email = email /\ tenantOf[u] = tenant}

(* UPDATE ... SET status, with the timestamp that goes with the status.    *)
SetStatus(i, s) ==
  invitations' = [invitations EXCEPT ![i].status = s, ![i].aged = FALSE]

-----------------------------------------------------------------------------
(* Requests *)

Idle == [step |-> "idle"]

RowStep == {"cancelling", "resending", "expiring", "accepting"}
TokenStep == {"validated", "checked", "provisioned"}

RequestState ==
  {Idle}
    \cup [step : {"inserting"}, tenant : Tenant, email : Email]
    \cup [step : RowStep, inv : Invitation]
    \cup [step : TokenStep, inv : Invitation, token : 0 .. MaxResends]
    \cup [step : {"joining"}, inv : Invitation, token : 0 .. MaxResends, user : User]
    \cup [step : {"admitted"}, inv : Invitation, user : User]

At(r, step) == requests[r].step = step

Go(r, state) == requests' = [requests EXCEPT ![r] = state]
Finish(r) == Go(r, Idle)

(* The row a token in hand leads to: findUnique({ where: { token } }).     *)
TokenFinds(r) ==
  LET q == requests[r] IN Stored(q.inv) /\ invitations[q.inv].token = q.token

TypeOK ==
  /\ invitations \in [Invitation -> InvitationRow]
  /\ tenantOf \in [User -> Tenant \cup {Unused, Deleted, Tenantless}]
  /\ roles \in [User -> SUBSET Invitation]
  /\ requests \in [Request -> RequestState]
  /\ sweep \in SUBSET Invitation
  /\ purge \in SUBSET Invitation
  /\ provisioned \in SUBSET Invitation

(* Some users have registered without a tenant, no two with one address.   *)
Init ==
  /\ invitations = [i \in Invitation |-> NoRow]
  /\ tenantOf \in [User -> {Unused, Tenantless}]
  /\ \A u, w \in User : u.email = w.email /\ u.nr < w.nr => tenantOf[w] = Unused
  /\ roles = [u \in User |-> {}]
  /\ requests = [r \in Request |-> Idle]
  /\ sweep = {}
  /\ purge = {}
  /\ provisioned = {}

-----------------------------------------------------------------------------
(* Plausible mistakes in the handlers below, for mutation checks: each      *)
(* breaks one of the properties at the end of the module.                  *)

(* createInvitation without the unique index behind its check.             *)
InsertInvitationUnindexed(r, i) ==
  /\ At(r, "inserting")
  /\ i.tenant = requests[r].tenant /\ i.email = requests[r].email
  /\ NextInvitation(i)
  /\ invitations' = [invitations EXCEPT ![i] = NewRow]
  /\ Finish(r)
  /\ UNCHANGED <<tenantOf, roles, sweep, purge, provisioned>>

(* A resend that writes the status it read back with the token.            *)
WriteResentAsPending(r) ==
  LET i == requests[r].inv IN
  /\ At(r, "resending")
  /\ Stored(i)
  /\ IndexAdmits(i, "PENDING")
  /\ invitations[i].token < MaxResends
  /\ invitations' = [invitations EXCEPT
       ![i] = [NewRow EXCEPT !.token = invitations[i].token + 1]]
  /\ Finish(r)
  /\ UNCHANGED <<tenantOf, roles, sweep, purge, provisioned>>

(* A user created under the membership check of an earlier round trip only.*)
ProvisionUserUnindexed(r, u) ==
  LET i == requests[r].inv IN
  /\ At(r, "checked")
  /\ NextUser(u)
  /\ u.email = i.email
  /\ tenantOf' = [tenantOf EXCEPT ![u] = i.tenant]
  /\ roles' = [roles EXCEPT ![u] = {i}]
  /\ provisioned' = provisioned \cup {i}
  /\ Go(r, [requests[r] EXCEPT !.step = "provisioned"])
  /\ UNCHANGED <<invitations, sweep, purge>>

(* The status written before the user is created.                          *)
RevalidateTokenFirst(r) ==
  LET i == requests[r].inv IN
  /\ At(r, "checked") \/ At(r, "provisioned")
  /\ TokenFinds(r)
  /\ Pending(i)
  /\ Go(r, [step |-> IF invitations[i].lapsed THEN "expiring" ELSE "accepting",
            inv |-> i])
  /\ UNCHANGED <<invitations, tenantOf, roles, sweep, purge, provisioned>>

(* A join that does not compare the addresses.                             *)
CheckInvitationOfAnyone(r) ==
  LET q == requests[r] IN
  /\ At(r, "joining")
  /\ TokenFinds(r)
  /\ Pending(q.inv)
  /\ ~invitations[q.inv].lapsed
  /\ Go(r, [step |-> "admitted", inv |-> q.inv, user |-> q.user])
  /\ UNCHANGED <<invitations, tenantOf, roles, sweep, purge, provisioned>>

(* A cleanup that leaves out EXPIRED rows.                                 *)
PurgeFindAnswered ==
  /\ StatusJobsScheduled
  /\ purge = {}
  /\ purge' = {i \in Invitation :
       Status(i) \in {"ACCEPTED", "CANCELLED"} /\ invitations[i].aged}
  /\ purge' # {}
  /\ UNCHANGED <<invitations, tenantOf, roles, requests, sweep, provisioned>>

-----------------------------------------------------------------------------
(* Tenant administrators: invitation.service.ts                            *)

(* createInvitation up to checkExistingInvitation: no PENDING row for the  *)
(* address.                                                                *)
CheckNoPendingInvitation(r, tenant, email) ==
  /\ requests[r] = Idle
  /\ \A j \in Invitation : j.tenant = tenant /\ j.email = email => ~Pending(j)
  /\ Go(r, [step |-> "inserting", tenant |-> tenant, email |-> email])
  /\ UNCHANGED <<invitations, tenantOf, roles, sweep, purge, provisioned>>

(* The transaction of createInvitation: the row and its roles.             *)
InsertInvitation(r, i) ==
  /\ At(r, "inserting")
  /\ i.tenant = requests[r].tenant /\ i.email = requests[r].email
  /\ NextInvitation(i)
  /\ IndexAdmits(i, "PENDING")
  /\ invitations' = [invitations EXCEPT ![i] = NewRow]
  /\ Finish(r)
  /\ UNCHANGED <<tenantOf, roles, sweep, purge, provisioned>>

(* cancelInvitation and resendInvitation both read the row and insist that *)
(* it is PENDING ...                                                       *)
ReadInvitation(r, i, next) ==
  /\ requests[r] = Idle
  /\ Pending(i)
  /\ Go(r, [step |-> next, inv |-> i])
  /\ UNCHANGED <<invitations, tenantOf, roles, sweep, purge, provisioned>>

(* ... and then update it by id, whatever has become of its status.        *)
WriteCancelled(r) ==
  LET i == requests[r].inv IN
  /\ At(r, "cancelling")
  /\ Stored(i)
  /\ IndexAdmits(i, "CANCELLED")
  /\ SetStatus(i, "CANCELLED")
  /\ Finish(r)
  /\ UNCHANGED <<tenantOf, roles, sweep, purge, provisioned>>

WriteResent(r) ==
  LET i == requests[r].inv IN
  /\ At(r, "resending")
  /\ Stored(i)
  /\ invitations[i].token < MaxResends
  /\ invitations' = [invitations EXCEPT
       ![i] = [invitations[i] EXCEPT !.token = invitations[i].token + 1, !.lapsed = FALSE]]
  /\ Finish(r)
  /\ UNCHANGED <<tenantOf, roles, sweep, purge, provisioned>>

-----------------------------------------------------------------------------
(* Public acceptance: invitation-acceptance.service.ts acceptInvitation    *)

(* validateToken for a token that is in force: the row must be PENDING and *)
(* not lapsed.                                                             *)
ValidateToken(r, i) ==
  /\ requests[r] = Idle
  /\ Pending(i)
  /\ ~invitations[i].lapsed
  /\ Go(r, [step |-> "validated", inv |-> i, token |-> invitations[i].token])
  /\ UNCHANGED <<invitations, tenantOf, roles, sweep, purge, provisioned>>

(* validateToken (also behind GET /invitations/:token) of a PENDING row    *)
(* whose time has passed goes on to mark the row.                          *)
FindLapsed(r, i) ==
  /\ requests[r] = Idle
  /\ Pending(i)
  /\ invitations[i].lapsed
  /\ Go(r, [step |-> "expiring", inv |-> i])
  /\ UNCHANGED <<invitations, tenantOf, roles, sweep, purge, provisioned>>

(* update({ where: { id }, data: { status: 'EXPIRED' } }); the request     *)
(* then answers with an error.                                             *)
WriteExpired(r) ==
  LET i == requests[r].inv IN
  /\ At(r, "expiring")
  /\ Stored(i)
  /\ IndexAdmits(i, "EXPIRED")
  /\ SetStatus(i, "EXPIRED")
  /\ Finish(r)
  /\ UNCHANGED <<tenantOf, roles, sweep, purge, provisioned>>

CheckNotMember(r) ==
  LET i == requests[r].inv IN
  /\ At(r, "validated")
  /\ Members(i.email, i.tenant) = {}
  /\ Go(r, [requests[r] EXCEPT !.step = "checked"])
  /\ UNCHANGED <<invitations, tenantOf, roles, sweep, purge, provisioned>>

(* createUserFromInvitation, one transaction: the user row, under the      *)
(* unique index on (email, tenantId), and its roles.                       *)
ProvisionUser(r, u) ==
  LET i == requests[r].inv IN
  /\ At(r, "checked")
  /\ NextUser(u)
  /\ u.email = i.email
  /\ Members(i.email, i.tenant) = {}
  /\ tenantOf' = [tenantOf EXCEPT ![u] = i.tenant]
  /\ roles' = [roles EXCEPT ![u] = {i}]
  /\ provisioned' = provisioned \cup {i}
  /\ Go(r, [requests[r] EXCEPT !.step = "provisioned"])
  /\ UNCHANGED <<invitations, sweep, purge>>

(* invitationService.acceptInvitation starts over from the token ...       *)
RevalidateToken(r) ==
  LET i == requests[r].inv IN
  /\ At(r, "provisioned")
  /\ TokenFinds(r)
  /\ Pending(i)
  /\ Go(r, [step |-> IF invitations[i].lapsed THEN "expiring" ELSE "accepting",
            inv |-> i])
  /\ UNCHANGED <<invitations, tenantOf, roles, sweep, purge, provisioned>>

(* ... and updates by id.                                                  *)
WriteAccepted(r) ==
  LET i == requests[r].inv IN
  /\ At(r, "accepting")
  /\ Stored(i)
  /\ IndexAdmits(i, "ACCEPTED")
  /\ SetStatus(i, "ACCEPTED")
  /\ Finish(r)
  /\ UNCHANGED <<tenantOf, roles, sweep, purge, provisioned>>

-----------------------------------------------------------------------------
(* POST /tenants/join: tenant-management.service.ts joinTenantForUser      *)

(* The request arrives with a token; the caller must have no tenant.       *)
CheckTenantless(r, u, i) ==
  /\ requests[r] = Idle
  /\ tenantOf[u] = Tenantless
  /\ Stored(i)
  /\ Go(r, [step |-> "joining", inv |-> i, token |-> invitations[i].token, user |-> u])
  /\ UNCHANGED <<invitations, tenantOf, roles, sweep, purge, provisioned>>

CheckInvitation(r) ==
  LET q == requests[r] IN
  /\ At(r, "joining")
  /\ TokenFinds(r)
  /\ Pending(q.inv)
  /\ ~invitations[q.inv].lapsed
  /\ q.inv.email = q.user.email
  /\ Go(r, [step |-> "admitted", inv |-> q.inv, user |-> q.user])
  /\ UNCHANGED <<invitations, tenantOf, roles, sweep, purge, provisioned>>

(* The transaction: tenantId by user id, one user_roles row per role (its  *)
(* primary key refuses a role held already), ACCEPTED by invitation id.    *)
JoinTenant(r) ==
  LET i == requests[r].inv
      u == requests[r].user IN
  /\ At(r, "admitted")
  /\ tenantOf[u] \in Tenant \cup {Tenantless}
  /\ Members(u.email, i.tenant) \subseteq {u}
  /\ i \notin roles[u]
  /\ Stored(i)
  /\ IndexAdmits(i, "ACCEPTED")
  /\ tenantOf' = [tenantOf EXCEPT ![u] = i.tenant]
  /\ roles' = [roles EXCEPT ![u] = @ \cup {i}]
  /\ provisioned' = provisioned \cup {i}
  /\ SetStatus(i, "ACCEPTED")
  /\ Finish(r)
  /\ UNCHANGED <<sweep, purge>>

-----------------------------------------------------------------------------
(* A request whose next check fails or whose next statement is refused     *)
(* answers with an error, and a process may die between two round trips:   *)
(* what it wrote before stays written.                                     *)
Fail(r) ==
  /\ requests[r] # Idle
  /\ Finish(r)
  /\ UNCHANGED <<invitations, tenantOf, roles, sweep, purge, provisioned>>

(* UserService.delete of a member.  user_roles rows go with the user, and  *)
(* so do the invitations the user had sent (onDelete: Cascade).            *)
DeleteUser(u, sent) ==
  /\ tenantOf[u] \in Tenant
  /\ sent \subseteq {i \in Invitation : Stored(i) /\ i.tenant = tenantOf[u]}
  /\ tenantOf' = [tenantOf EXCEPT ![u] = Deleted]
  /\ roles' = [roles EXCEPT ![u] = {}]
  /\ invitations' = [i \in Invitation |->
       IF i \in sent THEN GoneRow ELSE invitations[i]]
  /\ UNCHANGED <<requests, sweep, purge, provisioned>>

-----------------------------------------------------------------------------
(* The status jobs: invitation-status.service.ts                           *)

(* checkExpiredInvitations: findMany of PENDING rows whose time has passed *)
SweepFind ==
  /\ StatusJobsScheduled
  /\ sweep = {}
  /\ sweep' = {i \in Invitation : Pending(i) /\ invitations[i].lapsed}
  /\ sweep' # {}
  /\ UNCHANGED <<invitations, tenantOf, roles, requests, purge, provisioned>>

(* Whether updateMany by id can give every row of the batch that is still  *)
(* there the status EXPIRED: one duplicate refuses the whole statement.    *)
SweepAdmitted ==
  \A i \in sweep : Stored(i) =>
    /\ IndexAdmits(i, "EXPIRED")
    /\ \A j \in sweep \ {i} : Stored(j) => ~SameAddress(i, j)

SweepUpdate ==
  /\ sweep # {}
  /\ SweepAdmitted
  /\ invitations' = [i \in Invitation |->
       IF i \in sweep /\ Stored(i)
       THEN [invitations[i] EXCEPT !.status = "EXPIRED", !.aged = FALSE]
       ELSE invitations[i]]
  /\ sweep' = {}
  /\ UNCHANGED <<tenantOf, roles, requests, purge, provisioned>>

(* The refused statement throws; the job logs the error and ends.          *)
SweepRefused ==
  /\ sweep # {}
  /\ ~SweepAdmitted
  /\ sweep' = {}
  /\ UNCHANGED <<invitations, tenantOf, roles, requests, purge, provisioned>>

(* cleanupOldInvitations: findMany of closed rows past retention, then the *)
(* deletes by id.  The code deletes roles, audit log and invitations in    *)
(* three statements; only the last is seen here, for the rows are closed.  *)
PurgeFind ==
  /\ StatusJobsScheduled
  /\ purge = {}
  /\ purge' = {i \in Invitation : Status(i) \in Closed /\ invitations[i].aged}
  /\ purge' # {}
  /\ UNCHANGED <<invitations, tenantOf, roles, requests, sweep, provisioned>>

PurgeDelete ==
  /\ purge # {}
  /\ invitations' = [i \in Invitation |->
       IF i \in purge THEN GoneRow ELSE invitations[i]]
  /\ purge' = {}
  /\ UNCHANGED <<tenantOf, roles, requests, sweep, provisioned>>

(* Time: an invitation's expiresAt passes, a closed row's retention ends.  *)
Lapse(i) ==
  /\ Pending(i)
  /\ ~invitations[i].lapsed
  /\ invitations' = [invitations EXCEPT ![i].lapsed = TRUE]
  /\ UNCHANGED <<tenantOf, roles, requests, sweep, purge, provisioned>>

Age(i) ==
  /\ Status(i) \in Closed
  /\ ~invitations[i].aged
  /\ invitations' = [invitations EXCEPT ![i].aged = TRUE]
  /\ UNCHANGED <<tenantOf, roles, requests, sweep, purge, provisioned>>

-----------------------------------------------------------------------------
Administer(r) ==
  \/ \E tenant \in Tenant, email \in Email : CheckNoPendingInvitation(r, tenant, email)
  \/ \E i \in Invitation :
       \/ InsertInvitation(r, i)
       \/ ReadInvitation(r, i, "cancelling")
       \/ ReadInvitation(r, i, "resending")
  \/ WriteCancelled(r)
  \/ WriteResent(r)

Accept(r) ==
  \/ \E i \in Invitation : ValidateToken(r, i) \/ FindLapsed(r, i)
  \/ WriteExpired(r)
  \/ CheckNotMember(r)
  \/ \E u \in User : ProvisionUser(r, u)
  \/ RevalidateToken(r)
  \/ WriteAccepted(r)

Join(r) ==
  \/ \E u \in User, i \in Invitation : CheckTenantless(r, u, i)
  \/ CheckInvitation(r)
  \/ JoinTenant(r)

StatusJobs == SweepFind \/ SweepUpdate \/ SweepRefused \/ PurgeFind \/ PurgeDelete

Next ==
  \/ \E r \in Request : Administer(r) \/ Accept(r) \/ Join(r) \/ Fail(r)
  \/ \E u \in User, sent \in SUBSET Invitation : DeleteUser(u, sent)
  \/ StatusJobs
  \/ \E i \in Invitation : Lapse(i) \/ Age(i)

Spec == Init /\ [][Next]_vars

(* The scheduler starts both jobs again and again and a job that found     *)
(* rows goes on to its next statement; time passes.                        *)
Fairness ==
  /\ WF_vars(SweepFind)
  /\ WF_vars(SweepUpdate \/ SweepRefused)
  /\ WF_vars(PurgeFind)
  /\ WF_vars(PurgeDelete)
  /\ \A i \in Invitation : WF_vars(Age(i))

FairSpec == Spec /\ Fairness

-----------------------------------------------------------------------------
(* What the component guarantees *)

(* One open invitation per address.  createInvitation looks for one and    *)
(* inserts later (checkExistingInvitation, invitation.service.ts:599-617), *)
(* so two administrators inviting one address at once both pass the check: *)
(* only the unique index keeps the second row out.                         *)
OnePendingPerAddress ==
  \A i, j \in Invitation :
    i # j /\ SameAddress(i, j) /\ Pending(i) => ~Pending(j)

(* An invitation is never marked ACCEPTED unless its roles were given to   *)
(* some user first: acceptance writes the user and the status in separate  *)
(* round trips, and every way of failing in between must leave the row     *)
(* not accepted rather than the invitee without an account.                *)
AcceptedWasProvisioned ==
  \A i \in Invitation : Status(i) = "ACCEPTED" => i \in provisioned

(* Roles reach only the address they were offered to, and a member of a    *)
(* tenant holds the roles of an invitation of that tenant: in particular   *)
(* a join that was checked against one invitation and user commits against *)
(* the same two.                                                           *)
MembersWereInvited ==
  \A u \in User :
    /\ \A i \in roles[u] : i.email = u.email
    /\ tenantOf[u] \in Tenant => \E i \in roles[u] : i.tenant = tenantOf[u]

(* However many acceptances and joins of one invitation are in progress,   *)
(* one invitation never makes two members of its tenant.  Each of them     *)
(* looks for a member first and creates or moves the user later.           *)
OneMemberPerInvitation ==
  \A u, w \in User :
    u # w /\ tenantOf[u] \in Tenant /\ tenantOf[u] = tenantOf[w]
      => roles[u] \cap roles[w] = {}

(* The daily cleanup deletes by the ids it found earlier: none of them is  *)
(* an open invitation by the time they are deleted, because no handler,    *)
(* however old what it read, reopens a row.                                *)
PurgeSparesOpenInvitations == \A i \in purge : ~Pending(i)

(* No step reopens a closed invitation or brings a deleted row back: every *)
(* handler writes by id and a resend that read PENDING may write long      *)
(* after the row was cancelled or accepted.                                *)
ClosedStaysClosed ==
  [][\A i \in Invitation :
       /\ Status(i) \in Closed => Status(i)' \in Closed \cup {"GONE"}
       /\ Status(i) = "GONE" => Status(i)' = "GONE"]_vars

(* The hourly job closes what the clock has invalidated, all of a batch or *)
(* none: a lapsed open row whose address has an EXPIRED row already keeps  *)
(* every other lapsed row open.  Such a clash ends, when the daily cleanup *)
(* has deleted that EXPIRED row; and while no other address clashes, the   *)
(* lapsed invitation of an address is closed.  Clashes of several          *)
(* addresses may follow one another, so no more than that is promised.     *)
LapsedAt(tenant, email) ==
  {i \in Invitation : i.tenant = tenant /\ i.email = email
                         /\ Pending(i) /\ invitations[i].lapsed}
Clashes(tenant, email) ==
  \E i \in LapsedAt(tenant, email) : ~IndexAdmits(i, "EXPIRED")

LapsedInvitationsClose ==
  \A t \in Tenant, e \in Email :
    /\ []<>~Clashes(t, e)
    /\ []<>(\/ LapsedAt(t, e) = {}
            \/ \E u \in Tenant, f \in Email : <<u, f>> # <<t, e>> /\ Clashes(u, f))

-----------------------------------------------------------------------------
(* The abstract specification this module implements.                      *)
Lifecycle == INSTANCE InvitationLifecycle WITH
  life <- [i \in Invitation |-> Status(i)],
  home <- tenantOf,
  granted <- roles,
  given <- provisioned

(* Whatever a handler read, and however old it is when it writes, its      *)
(* effect is one step of the lifecycle that is allowed at that moment: no  *)
(* interleaving of round trips, jobs and failures shows anything else.     *)
ImplementsLifecycle == Lifecycle!Spec

=============================================================================
