--------------------------- MODULE InvitationsProofs ---------------------------
(***************************************************************************)
(* The safety properties of Invitations hold for any set of tenants,       *)
(* addresses, invitations, users and concurrent requests; it implements its*)
(* lifecycle; and the management calls, which are requests of it, answer   *)
(* truthfully for lists of any length.                                     *)
(***************************************************************************)
EXTENDS InvitationManagement, FiniteSetTheorems, TLAPS

(* What the statements refused by the unique indexes leave behind.         *)
IndexHolds ==
  \A i, j \in Invitation :
    i # j /\ SameAddress(i, j) /\ Stored(i) => Status(i) # Status(j)

(* A request that is about to write ACCEPTED has given the roles.          *)
AcceptingWasProvisioned ==
  \A r \in Request :
    requests[r].step \in {"provisioned", "accepting"} => requests[r].inv \in provisioned

(* A join in its transaction was checked for the address of its user.      *)
AdmittedByAddress ==
  \A r \in Request : At(r, "admitted") => requests[r].inv.email = requests[r].user.email

(* The unique index on (email, tenantId) of users.                         *)
UserIndexHolds ==
  \A u, w \in User :
    u # w /\ u.email = w.email /\ tenantOf[u] \in Tenant => tenantOf[u] # tenantOf[w]

(* A batch of the cleanup holds rows that are closed or gone.              *)
PurgeBatchClosed == \A i \in purge : Status(i) \in Closed \cup {"GONE"}

(* The inductive invariant: both indexes, and what requests and jobs on    *)
(* their way know about the rows.                                          *)
IInv ==
  /\ TypeOK
  /\ IndexHolds
  /\ AcceptedWasProvisioned
  /\ AcceptingWasProvisioned
  /\ MembersWereInvited
  /\ AdmittedByAddress
  /\ UserIndexHolds
  /\ PurgeBatchClosed

-----------------------------------------------------------------------------
(* What a request at each step holds.                                      *)
LEMMA RequestShapes ==
  ASSUME TypeOK, NEW r \in Request
  PROVE  /\ At(r, "inserting") =>
              requests[r] \in [step : {"inserting"}, tenant : Tenant, email : Email]
         /\ requests[r].step \in RowStep =>
              requests[r] \in [step : RowStep, inv : Invitation]
         /\ requests[r].step \in TokenStep =>
              requests[r] \in [step : TokenStep, inv : Invitation, token : 0 .. MaxResends]
         /\ At(r, "joining") =>
              requests[r] \in [step : {"joining"}, inv : Invitation,
                               token : 0 .. MaxResends, user : User]
         /\ At(r, "admitted") =>
              requests[r] \in [step : {"admitted"}, inv : Invitation, user : User]
         /\ requests[r] = Idle => requests[r].step = "idle"
  BY DEF TypeOK, RequestState, RowStep, TokenStep, At, Idle

(* A request goes to a state of one of these kinds and no other changes.   *)
LEMMA GoTypeOK ==
  ASSUME NEW r \in Request, NEW q \in RequestState,
         requests \in [Request -> RequestState], Go(r, q)
  PROVE  /\ requests' \in [Request -> RequestState]
         /\ requests'[r] = q
         /\ \A s \in Request : s # r => requests'[s] = requests[s]
  BY DEF Go

(* The states requests are put in are request states.                      *)
LEMMA RequestStates ==
  /\ Idle \in RequestState
  /\ \A t \in Tenant, e \in Email : [step |-> "inserting", tenant |-> t, email |-> e] \in RequestState
  /\ \A s \in RowStep, i \in Invitation : [step |-> s, inv |-> i] \in RequestState
  /\ \A s \in TokenStep, i \in Invitation, k \in 0 .. MaxResends :
       [step |-> s, inv |-> i, token |-> k] \in RequestState
  /\ \A i \in Invitation, k \in 0 .. MaxResends, u \in User :
       [step |-> "joining", inv |-> i, token |-> k, user |-> u] \in RequestState
  /\ \A i \in Invitation, u \in User :
       [step |-> "admitted", inv |-> i, user |-> u] \in RequestState
  BY DEF RequestState

(* Writing a status writes one row and nothing else of it.                 *)
LEMMA SetStatusTypeOK ==
  ASSUME TypeOK, NEW i \in Invitation, NEW s \in InvitationStatus, SetStatus(i, s)
  PROVE  /\ invitations' \in [Invitation -> InvitationRow]
         /\ Status(i)' = s
         /\ \A j \in Invitation : j # i => invitations'[j] = invitations[j]
  BY DEF TypeOK, SetStatus, Status, InvitationRow

(* The rows that are written are rows.                                     *)
LEMMA RowConstants ==
  /\ NoRow \in InvitationRow
  /\ NewRow \in InvitationRow /\ NewRow.status = "PENDING"
  /\ GoneRow \in InvitationRow /\ GoneRow.status = "GONE"
  <1>1. NoRow \in InvitationRow
    BY InvitationsAssumption DEF NoRow, InvitationRow
  <1>2. NewRow \in InvitationRow /\ NewRow.status = "PENDING"
    BY <1>1 DEF NewRow, InvitationRow, InvitationStatus
  <1>3. GoneRow \in InvitationRow /\ GoneRow.status = "GONE"
    BY <1>1 DEF GoneRow, InvitationRow
  <1> QED BY <1>1, <1>2, <1>3

-----------------------------------------------------------------------------
(* Type correctness.                                                       *)
LEMMA TypeStep ==
  ASSUME TypeOK, [Next]_vars
  PROVE  TypeOK'
<1> USE RequestStates
<1>1. ASSUME NEW r \in Request, Administer(r) PROVE TypeOK'
  <2>1. ASSUME NEW t \in Tenant, NEW e \in Email, CheckNoPendingInvitation(r, t, e)
        PROVE  TypeOK'
    BY <2>1, GoTypeOK DEF CheckNoPendingInvitation, TypeOK
  <2>2. ASSUME NEW i \in Invitation, InsertInvitation(r, i) PROVE TypeOK'
    BY <2>2, GoTypeOK, RowConstants DEF InsertInvitation, Finish, TypeOK
  <2>3. ASSUME NEW i \in Invitation, NEW s \in RowStep, ReadInvitation(r, i, s)
        PROVE  TypeOK'
    BY <2>3, GoTypeOK DEF ReadInvitation, TypeOK
  <2>4. CASE WriteCancelled(r)
    <3>1. requests[r].inv \in Invitation
      BY <2>4, RequestShapes DEF WriteCancelled, At, RowStep
    <3> QED BY <2>4, <3>1, GoTypeOK, SetStatusTypeOK
            DEF WriteCancelled, Finish, TypeOK, InvitationStatus, Closed
  <2>5. CASE WriteResent(r)
    <3>1. requests[r].inv \in Invitation
      BY <2>5, RequestShapes DEF WriteResent, At, RowStep
    <3> DEFINE row == invitations[requests[r].inv]
    <3>2. row.token + 1 \in 0 .. MaxResends
      BY <2>5, <3>1, InvitationsAssumption DEF WriteResent, TypeOK, InvitationRow
    <3>3. [row EXCEPT !.token = row.token + 1, !.lapsed = FALSE] \in InvitationRow
      BY <3>1, <3>2 DEF TypeOK, InvitationRow
    <3> QED BY <2>5, <3>1, <3>3, GoTypeOK DEF WriteResent, Finish, TypeOK
  <2> QED BY <1>1, <2>1, <2>2, <2>3, <2>4, <2>5 DEF Administer, RowStep
<1>2. ASSUME NEW r \in Request, Accept(r) PROVE TypeOK'
  <2>1. ASSUME NEW i \in Invitation, ValidateToken(r, i) PROVE TypeOK'
    <3>1. invitations[i].token \in 0 .. MaxResends
      BY DEF TypeOK, InvitationRow
    <3> QED BY <2>1, <3>1, GoTypeOK DEF ValidateToken, TypeOK, TokenStep
  <2>2. ASSUME NEW i \in Invitation, FindLapsed(r, i) PROVE TypeOK'
    BY <2>2, GoTypeOK DEF FindLapsed, TypeOK, RowStep
  <2>3. CASE WriteExpired(r)
    <3>1. requests[r].inv \in Invitation
      BY <2>3, RequestShapes DEF WriteExpired, At, RowStep
    <3> QED BY <2>3, <3>1, GoTypeOK, SetStatusTypeOK
            DEF WriteExpired, Finish, TypeOK, InvitationStatus, Closed
  <2>4. CASE CheckNotMember(r)
    <3>1. [requests[r] EXCEPT !.step = "checked"] \in RequestState
      BY <2>4, RequestShapes DEF CheckNotMember, At, TokenStep, RequestState
    <3> QED BY <2>4, <3>1, GoTypeOK DEF CheckNotMember, TypeOK
  <2>5. ASSUME NEW u \in User, ProvisionUser(r, u) PROVE TypeOK'
    <3>1. /\ [requests[r] EXCEPT !.step = "provisioned"] \in RequestState
          /\ requests[r].inv \in Invitation
      BY <2>5, RequestShapes DEF ProvisionUser, At, TokenStep, RequestState
    <3>2. requests[r].inv.tenant \in Tenant
      BY <3>1, InvitationsAssumption
    <3>3. requests' \in [Request -> RequestState]
      BY <2>5, <3>1, GoTypeOK DEF ProvisionUser, TypeOK
    <3> QED BY <2>5, <3>1, <3>2, <3>3 DEF ProvisionUser, TypeOK
  <2>6. CASE RevalidateToken(r)
    <3>1. requests[r].inv \in Invitation
      BY <2>6, RequestShapes DEF RevalidateToken, At, TokenStep
    <3> QED BY <2>6, <3>1, GoTypeOK DEF RevalidateToken, TypeOK, RowStep
  <2>7. CASE WriteAccepted(r)
    <3>1. requests[r].inv \in Invitation
      BY <2>7, RequestShapes DEF WriteAccepted, At, RowStep
    <3> QED BY <2>7, <3>1, GoTypeOK, SetStatusTypeOK
            DEF WriteAccepted, Finish, TypeOK, InvitationStatus, Closed
  <2> QED BY <1>2, <2>1, <2>2, <2>3, <2>4, <2>5, <2>6, <2>7 DEF Accept
<1>3. ASSUME NEW r \in Request, Join(r) PROVE TypeOK'
  <2>1. ASSUME NEW u \in User, NEW i \in Invitation, CheckTenantless(r, u, i)
        PROVE  TypeOK'
    <3>1. invitations[i].token \in 0 .. MaxResends
      BY DEF TypeOK, InvitationRow
    <3> QED BY <2>1, <3>1, GoTypeOK DEF CheckTenantless, TypeOK
  <2>2. CASE CheckInvitation(r)
    <3>1. requests[r].inv \in Invitation /\ requests[r].user \in User
      BY <2>2, RequestShapes DEF CheckInvitation, At
    <3> QED BY <2>2, <3>1, GoTypeOK DEF CheckInvitation, TypeOK
  <2>3. CASE JoinTenant(r)
    <3>1. requests[r].inv \in Invitation /\ requests[r].user \in User
      BY <2>3, RequestShapes DEF JoinTenant, At
    <3>2. requests[r].inv.tenant \in Tenant
      BY <3>1, InvitationsAssumption
    <3>3. requests' \in [Request -> RequestState]
      BY <2>3, GoTypeOK DEF JoinTenant, Finish, TypeOK
    <3>4. invitations' \in [Invitation -> InvitationRow]
      BY <2>3, <3>1, SetStatusTypeOK DEF JoinTenant, InvitationStatus, Closed
    <3> QED BY <2>3, <3>1, <3>2, <3>3, <3>4 DEF JoinTenant, TypeOK
  <2> QED BY <1>3, <2>1, <2>2, <2>3 DEF Join
<1>4. ASSUME NEW r \in Request, Fail(r) PROVE TypeOK'
  BY <1>4, GoTypeOK DEF Fail, Finish, TypeOK
<1>5. ASSUME NEW u \in User, NEW sent \in SUBSET Invitation, DeleteUser(u, sent)
      PROVE  TypeOK'
  BY <1>5, RowConstants DEF DeleteUser, TypeOK
<1>6. CASE StatusJobs
  <2>1. CASE SweepUpdate
    <3>1. invitations' \in [Invitation -> InvitationRow]
      BY <2>1 DEF SweepUpdate, TypeOK, InvitationRow, InvitationStatus, Closed
    <3> QED BY <2>1, <3>1 DEF SweepUpdate, TypeOK
  <2>2. CASE PurgeDelete
    BY <2>2, RowConstants DEF PurgeDelete, TypeOK
  <2> QED BY <1>6, <2>1, <2>2
          DEF StatusJobs, SweepFind, SweepRefused, PurgeFind, TypeOK
<1>7. ASSUME NEW i \in Invitation, Lapse(i) \/ Age(i) PROVE TypeOK'
  <2>1. /\ [invitations[i] EXCEPT !.lapsed = TRUE] \in InvitationRow
        /\ [invitations[i] EXCEPT !.aged = TRUE] \in InvitationRow
    BY DEF TypeOK, InvitationRow
  <2>2. CASE Lapse(i)
    BY <2>1, <2>2 DEF Lapse, TypeOK
  <2>3. CASE Age(i)
    BY <2>1, <2>3 DEF Age, TypeOK
  <2> QED BY <1>7, <2>2, <2>3
<1>8. CASE UNCHANGED vars
  BY <1>8 DEF vars, TypeOK
<1> QED BY <1>1, <1>2, <1>3, <1>4, <1>5, <1>6, <1>7, <1>8 DEF Next

(* Every reachable state has its type.                                     *)
THEOREM TypeCorrect == Spec => []TypeOK
<1>1. Init => TypeOK
  BY RowConstants, RequestStates DEF Init, TypeOK
<1>2. TypeOK /\ [Next]_vars => TypeOK'
  BY TypeStep
<1> QED BY <1>1, <1>2, PTL DEF Spec

-----------------------------------------------------------------------------
(* A request reaches the step that writes ACCEPTED only after the roles    *)
(* were given, and the history never forgets.                              *)
LEMMA AcceptingStep ==
  ASSUME TypeOK, AcceptingWasProvisioned, [Next]_vars
  PROVE  AcceptingWasProvisioned' /\ provisioned \subseteq provisioned'
<1> USE DEF AcceptingWasProvisioned
<1>1. ASSUME UNCHANGED requests, provisioned \subseteq provisioned'
      PROVE  AcceptingWasProvisioned'
  BY <1>1
<1>2. ASSUME NEW r \in Request, NEW q, Go(r, q), provisioned \subseteq provisioned',
             q.step \in {"provisioned", "accepting"} => q.inv \in provisioned'
      PROVE  AcceptingWasProvisioned'
  BY <1>2 DEF Go, TypeOK
<1> USE DEF Finish, Idle
<1>3. ASSUME NEW r \in Request, Administer(r)
      PROVE  AcceptingWasProvisioned' /\ provisioned \subseteq provisioned'
  BY <1>3, <1>2 DEF Administer, CheckNoPendingInvitation, InsertInvitation,
                    ReadInvitation, WriteCancelled, WriteResent
<1>4. ASSUME NEW r \in Request, Accept(r)
      PROVE  AcceptingWasProvisioned' /\ provisioned \subseteq provisioned'
  <2>1. CASE CheckNotMember(r)
    <3>1. [requests[r] EXCEPT !.step = "checked"].step = "checked"
      BY <2>1, RequestShapes DEF CheckNotMember, At, TokenStep
    <3> QED BY <2>1, <3>1, <1>2 DEF CheckNotMember
  <2>2. ASSUME NEW u \in User, ProvisionUser(r, u)
        PROVE  AcceptingWasProvisioned' /\ provisioned \subseteq provisioned'
    <3> DEFINE q == [requests[r] EXCEPT !.step = "provisioned"]
    <3>1. q.inv = requests[r].inv
      BY <2>2, RequestShapes DEF ProvisionUser, At, TokenStep
    <3>2. Go(r, q) /\ provisioned' = provisioned \cup {requests[r].inv}
      BY <2>2 DEF ProvisionUser
    <3>3. q.inv \in provisioned' /\ provisioned \subseteq provisioned'
      BY <3>1, <3>2
    <3> HIDE DEF q
    <3> QED BY <3>2, <3>3, <1>2
  <2>3. CASE RevalidateToken(r)
    BY <2>3, <1>2 DEF RevalidateToken, At
  <2> QED BY <1>4, <1>2, <2>1, <2>2, <2>3
          DEF Accept, ValidateToken, FindLapsed, WriteExpired, WriteAccepted
<1>5. ASSUME NEW r \in Request, Join(r)
      PROVE  AcceptingWasProvisioned' /\ provisioned \subseteq provisioned'
  BY <1>5, <1>2 DEF Join, CheckTenantless, CheckInvitation, JoinTenant
<1>6. ASSUME NEW r \in Request, Fail(r)
      PROVE  AcceptingWasProvisioned' /\ provisioned \subseteq provisioned'
  BY <1>6, <1>2 DEF Fail
<1>7. ASSUME NEW u \in User, NEW sent \in SUBSET Invitation, DeleteUser(u, sent)
      PROVE  AcceptingWasProvisioned' /\ provisioned \subseteq provisioned'
  BY <1>7, <1>1 DEF DeleteUser
<1>8. CASE StatusJobs
  BY <1>8, <1>1 DEF StatusJobs, SweepFind, SweepUpdate, SweepRefused, PurgeFind, PurgeDelete
<1>9. ASSUME NEW i \in Invitation, Lapse(i) \/ Age(i)
      PROVE  AcceptingWasProvisioned' /\ provisioned \subseteq provisioned'
  BY <1>9, <1>1 DEF Lapse, Age
<1>10. CASE UNCHANGED vars
  BY <1>10, <1>1 DEF vars
<1> QED BY <1>3, <1>4, <1>5, <1>6, <1>7, <1>8, <1>9, <1>10 DEF Next

(* The ways a step changes the status column: not at all, one row to a     *)
(* status the index admits, some rows deleted, or the batch of the sweep.  *)
OneRowWritten ==
  \E i \in Invitation, s \in InvitationStatus :
    /\ IndexAdmits(i, s)
    /\ Status(i)' = s
    /\ IF s = "PENDING" THEN Status(i) = "NONE" ELSE Stored(i)
    /\ s = "ACCEPTED" => i \in provisioned'
    /\ \A j \in Invitation \ {i} : Status(j)' = Status(j)

(* A step that at most deletes rows.                                       *)
RowsDeletedOnly == \A j \in Invitation : Status(j)' \in {Status(j), "GONE"}

(* A step writes one status that the index admits, deletes rows, or is     *)
(* the sweep.                                                              *)
LEMMA StatusChange ==
  ASSUME TypeOK, AcceptingWasProvisioned, [Next]_vars
  PROVE  OneRowWritten \/ RowsDeletedOnly \/ SweepUpdate
<1>1. ASSUME NEW i \in Invitation, NEW s \in Closed, SetStatus(i, s), Stored(i),
             IndexAdmits(i, s), s = "ACCEPTED" => i \in provisioned'
      PROVE  OneRowWritten
  <2>1. s \in InvitationStatus /\ s # "PENDING"
    BY DEF InvitationStatus, Closed
  <2> QED BY <1>1, <2>1, SetStatusTypeOK DEF OneRowWritten, Status
<1>2. ASSUME UNCHANGED invitations PROVE RowsDeletedOnly
  BY <1>2 DEF RowsDeletedOnly, Status
<1>3. ASSUME NEW r \in Request, Administer(r) PROVE OneRowWritten \/ RowsDeletedOnly
  <2>1. ASSUME NEW i \in Invitation, InsertInvitation(r, i) PROVE OneRowWritten
    <3>1. "PENDING" \in InvitationStatus
      BY DEF InvitationStatus
    <3>2. /\ IndexAdmits(i, "PENDING") /\ Status(i) = "NONE"
          /\ Status(i)' = "PENDING"
          /\ \A j \in Invitation \ {i} : Status(j)' = Status(j)
      BY <2>1, RowConstants DEF InsertInvitation, NextInvitation, Status, TypeOK
    <3> QED BY <3>1, <3>2 DEF OneRowWritten
  <2>2. CASE WriteCancelled(r)
    <3>1. requests[r].inv \in Invitation
      BY <2>2, RequestShapes DEF WriteCancelled, At, RowStep
    <3> QED BY <2>2, <3>1, <1>1 DEF WriteCancelled, Closed
  <2>3. CASE WriteResent(r)
    <3>1. requests[r].inv \in Invitation
      BY <2>3, RequestShapes DEF WriteResent, At, RowStep
    <3>2. \A j \in Invitation : Status(j)' = Status(j)
      BY <2>3, <3>1 DEF WriteResent, Status, TypeOK, InvitationRow
    <3> QED BY <3>2 DEF RowsDeletedOnly
  <2> QED BY <1>3, <2>1, <2>2, <2>3, <1>2
          DEF Administer, CheckNoPendingInvitation, ReadInvitation
<1>4. ASSUME NEW r \in Request, Accept(r) PROVE OneRowWritten \/ RowsDeletedOnly
  <2>1. CASE WriteExpired(r)
    <3>1. requests[r].inv \in Invitation
      BY <2>1, RequestShapes DEF WriteExpired, At, RowStep
    <3> QED BY <2>1, <3>1, <1>1 DEF WriteExpired, Closed
  <2>2. CASE WriteAccepted(r)
    <3>1. requests[r].inv \in Invitation
      BY <2>2, RequestShapes DEF WriteAccepted, At, RowStep
    <3>2. requests[r].inv \in provisioned'
      BY <2>2 DEF WriteAccepted, At, AcceptingWasProvisioned
    <3> QED BY <2>2, <3>1, <3>2, <1>1 DEF WriteAccepted, Closed
  <2> QED BY <1>4, <2>1, <2>2, <1>2 DEF Accept, ValidateToken, FindLapsed, CheckNotMember,
                                        ProvisionUser, RevalidateToken
<1>5. ASSUME NEW r \in Request, Join(r) PROVE OneRowWritten \/ RowsDeletedOnly
  <2>1. CASE JoinTenant(r)
    <3>1. requests[r].inv \in Invitation
      BY <2>1, RequestShapes DEF JoinTenant, At
    <3> QED BY <2>1, <3>1, <1>1 DEF JoinTenant, Closed
  <2> QED BY <1>5, <2>1, <1>2 DEF Join, CheckTenantless, CheckInvitation
<1>6. ASSUME NEW u \in User, NEW sent \in SUBSET Invitation, DeleteUser(u, sent)
      PROVE  RowsDeletedOnly
  BY <1>6, RowConstants DEF DeleteUser, RowsDeletedOnly, Status
<1>7. CASE StatusJobs
  <2>1. CASE PurgeDelete
    BY <2>1, RowConstants DEF PurgeDelete, RowsDeletedOnly, Status
  <2> QED BY <1>7, <2>1, <1>2 DEF StatusJobs, SweepFind, SweepRefused, PurgeFind
<1>8. ASSUME NEW i \in Invitation, Lapse(i) \/ Age(i) PROVE RowsDeletedOnly
  <2>1. CASE Lapse(i)
    BY <2>1 DEF Lapse, RowsDeletedOnly, Status, TypeOK, InvitationRow
  <2>2. CASE Age(i)
    BY <2>2 DEF Age, RowsDeletedOnly, Status, TypeOK, InvitationRow
  <2> QED BY <1>8, <2>1, <2>2
<1>9. CASE UNCHANGED vars
  BY <1>9, <1>2 DEF vars
<1> QED BY <1>2, <1>3, <1>4, <1>5, <1>6, <1>7, <1>8, <1>9 DEF Next, Fail

(* The unique index on invitations survives every step.                    *)
LEMMA IndexStep ==
  ASSUME TypeOK, AcceptingWasProvisioned, IndexHolds, [Next]_vars
  PROVE  IndexHolds'
<1> SUFFICES ASSUME NEW i \in Invitation, NEW j \in Invitation,
                    i # j, SameAddress(i, j), Stored(i)'
             PROVE  Status(i)' # Status(j)'
  BY DEF IndexHolds, SameAddress
<1> USE DEF Stored
<1>1. Stored(i) => Status(i) # Status(j)
  BY DEF IndexHolds
<1>2. CASE OneRowWritten
  <2> PICK k \in Invitation, s \in InvitationStatus :
        /\ IndexAdmits(k, s)
        /\ Status(k)' = s
        /\ \A m \in Invitation \ {k} : Status(m)' = Status(m)
    BY <1>2 DEF OneRowWritten
  <2>1. CASE k = i
    BY <2>1 DEF IndexAdmits
  <2>2. CASE k = j
    BY <2>2 DEF IndexAdmits, SameAddress
  <2> QED BY <2>1, <2>2, <1>1
<1>3. CASE RowsDeletedOnly
  BY <1>3, <1>1 DEF RowsDeletedOnly, InvitationStatus, Closed
<1>4. CASE SweepUpdate
  <2>1. \A k \in Invitation :
          Status(k)' = IF k \in sweep /\ Stored(k) THEN "EXPIRED" ELSE Status(k)
    BY <1>4 DEF SweepUpdate, Status, TypeOK, InvitationRow
  <2>2. CASE i \in sweep /\ Stored(i)
    BY <1>4, <2>1, <2>2 DEF SweepUpdate, SweepAdmitted, IndexAdmits
  <2>3. CASE j \in sweep /\ Stored(j)
    <3>1. SameAddress(j, i)
      BY DEF SameAddress
    <3> QED BY <1>4, <2>1, <2>3, <3>1 DEF SweepUpdate, SweepAdmitted, IndexAdmits
  <2> QED BY <2>1, <2>2, <2>3, <1>1
<1> QED BY <1>2, <1>3, <1>4, StatusChange

(* Only an acceptance that provisioned writes ACCEPTED.                    *)
LEMMA AcceptedStep ==
  ASSUME TypeOK, AcceptingWasProvisioned, AcceptedWasProvisioned, [Next]_vars
  PROVE  AcceptedWasProvisioned'
<1>1. provisioned \subseteq provisioned'
  BY AcceptingStep
<1>2. CASE OneRowWritten
  BY <1>1, <1>2 DEF AcceptedWasProvisioned, OneRowWritten
<1>3. CASE RowsDeletedOnly
  BY <1>1, <1>3 DEF AcceptedWasProvisioned, RowsDeletedOnly
<1>4. CASE SweepUpdate
  <2>1. \A k \in Invitation : Status(k)' \in {Status(k), "EXPIRED"}
    BY <1>4 DEF SweepUpdate, Status, TypeOK, InvitationRow
  <2> QED BY <1>1, <2>1 DEF AcceptedWasProvisioned
<1> QED BY <1>2, <1>3, <1>4, StatusChange

(* One step of ClosedStaysClosed.                                          *)
ClosedStep ==
  \A i \in Invitation :
    /\ Status(i) \in Closed => Status(i)' \in Closed \cup {"GONE"}
    /\ Status(i) = "GONE" => Status(i)' = "GONE"

(* No step reopens what is closed.                                         *)
LEMMA ClosedStepHolds ==
  ASSUME TypeOK, AcceptingWasProvisioned, [Next]_vars
  PROVE  ClosedStep
<1>1. CASE OneRowWritten
  BY <1>1 DEF OneRowWritten, ClosedStep, Stored, InvitationStatus, Closed
<1>2. CASE RowsDeletedOnly
  BY <1>2 DEF RowsDeletedOnly, ClosedStep
<1>3. CASE SweepUpdate
  <2>1. \A k \in Invitation :
          Status(k)' = IF k \in sweep /\ Stored(k) THEN "EXPIRED" ELSE Status(k)
    BY <1>3 DEF SweepUpdate, Status, TypeOK, InvitationRow
  <2> QED BY <2>1 DEF ClosedStep, Stored, InvitationStatus, Closed
<1> QED BY <1>1, <1>2, <1>3, StatusChange

(* A batch of the cleanup stays closed.                                    *)
LEMMA PurgeStep ==
  ASSUME TypeOK, AcceptingWasProvisioned, PurgeBatchClosed, [Next]_vars
  PROVE  PurgeBatchClosed'
<1>1. CASE purge' \subseteq purge
  BY <1>1, ClosedStepHolds DEF PurgeBatchClosed, ClosedStep, TypeOK
<1>2. CASE PurgeFind
  BY <1>2 DEF PurgeFind, PurgeBatchClosed, Status
<1>3. purge' \subseteq purge \/ PurgeFind
  <2>1. ASSUME NEW r \in Request, Administer(r) PROVE purge' \subseteq purge
    BY <2>1 DEF Administer, CheckNoPendingInvitation, InsertInvitation, ReadInvitation,
                WriteCancelled, WriteResent
  <2>2. ASSUME NEW r \in Request, Accept(r) PROVE purge' \subseteq purge
    BY <2>2 DEF Accept, ValidateToken, FindLapsed, WriteExpired, CheckNotMember,
                ProvisionUser, RevalidateToken, WriteAccepted
  <2>3. ASSUME NEW r \in Request, Join(r) PROVE purge' \subseteq purge
    BY <2>3 DEF Join, CheckTenantless, CheckInvitation, JoinTenant
  <2>4. CASE StatusJobs
    BY <2>4 DEF StatusJobs, SweepFind, SweepUpdate, SweepRefused, PurgeDelete
  <2> QED BY <2>1, <2>2, <2>3, <2>4 DEF Next, Fail, DeleteUser, Lapse, Age, vars
<1> QED BY <1>1, <1>2, <1>3

-----------------------------------------------------------------------------
(* Only these three steps touch the users table or user_roles.             *)
UsersUnchanged == UNCHANGED <<tenantOf, roles>>

(* Members come by acceptances and joins, and go by deletion.              *)
LEMMA UsersChange ==
  ASSUME [Next]_vars
  PROVE  \/ UsersUnchanged
         \/ \E r \in Request, u \in User : ProvisionUser(r, u)
         \/ \E r \in Request : JoinTenant(r)
         \/ \E u \in User, sent \in SUBSET Invitation : DeleteUser(u, sent)
<1> USE DEF UsersUnchanged
<1>1. ASSUME NEW r \in Request, Administer(r) PROVE UsersUnchanged
  BY <1>1 DEF Administer, CheckNoPendingInvitation, InsertInvitation, ReadInvitation,
              WriteCancelled, WriteResent
<1>2. ASSUME NEW r \in Request, Accept(r)
      PROVE  UsersUnchanged \/ \E u \in User : ProvisionUser(r, u)
  BY <1>2 DEF Accept, ValidateToken, FindLapsed, WriteExpired, CheckNotMember,
              RevalidateToken, WriteAccepted
<1>3. ASSUME NEW r \in Request, Join(r) PROVE UsersUnchanged \/ JoinTenant(r)
  BY <1>3 DEF Join, CheckTenantless, CheckInvitation
<1>4. CASE StatusJobs
  BY <1>4 DEF StatusJobs, SweepFind, SweepUpdate, SweepRefused, PurgeFind, PurgeDelete
<1> QED BY <1>1, <1>2, <1>3, <1>4 DEF Next, Fail, Lapse, Age, vars

(* A join in its transaction keeps to the address of its user.             *)
LEMMA AdmittedStep ==
  ASSUME TypeOK, AdmittedByAddress, [Next]_vars
  PROVE  AdmittedByAddress'
<1> USE DEF AdmittedByAddress, At
<1>1. ASSUME NEW r \in Request, NEW q, Go(r, q),
             q.step = "admitted" => q.inv.email = q.user.email
      PROVE  AdmittedByAddress'
  BY <1>1 DEF Go, TypeOK
<1> USE DEF Finish, Idle
<1>2. ASSUME NEW r \in Request, Administer(r) PROVE AdmittedByAddress'
  BY <1>2, <1>1 DEF Administer, CheckNoPendingInvitation, InsertInvitation,
                    ReadInvitation, WriteCancelled, WriteResent
<1>3. ASSUME NEW r \in Request, Accept(r) PROVE AdmittedByAddress'
  <2>1. ASSUME NEW s \in {"checked", "provisioned"}, requests[r].step \in TokenStep,
               Go(r, [requests[r] EXCEPT !.step = s])
        PROVE  AdmittedByAddress'
    <3>1. [requests[r] EXCEPT !.step = s].step = s
      BY <2>1, RequestShapes DEF TokenStep
    <3> QED BY <2>1, <3>1, <1>1
  <2>2. CASE CheckNotMember(r)
    BY <2>2, <2>1 DEF CheckNotMember, TokenStep
  <2>3. ASSUME NEW u \in User, ProvisionUser(r, u) PROVE AdmittedByAddress'
    BY <2>3, <2>1 DEF ProvisionUser, TokenStep
  <2> QED BY <1>3, <1>1, <2>2, <2>3
          DEF Accept, ValidateToken, FindLapsed, WriteExpired, RevalidateToken, WriteAccepted
<1>4. ASSUME NEW r \in Request, Join(r) PROVE AdmittedByAddress'
  BY <1>4, <1>1 DEF Join, CheckTenantless, CheckInvitation, JoinTenant
<1>5. CASE StatusJobs
  BY <1>5 DEF StatusJobs, SweepFind, SweepUpdate, SweepRefused, PurgeFind, PurgeDelete
<1>6. ASSUME NEW r \in Request, Fail(r) PROVE AdmittedByAddress'
  BY <1>6, <1>1 DEF Fail
<1> QED BY <1>2, <1>3, <1>4, <1>5, <1>6 DEF Next, DeleteUser, Lapse, Age, vars

(* One address stays at most one member of a tenant.                       *)
LEMMA UserIndexStep ==
  ASSUME TypeOK, UserIndexHolds, [Next]_vars
  PROVE  UserIndexHolds'
<1> USE DEF UserIndexHolds
<1>1. CASE UsersUnchanged
  BY <1>1 DEF UsersUnchanged
<1>2. ASSUME NEW r \in Request, NEW u \in User, ProvisionUser(r, u) PROVE UserIndexHolds'
  BY <1>2 DEF ProvisionUser, Members, TypeOK
<1>3. ASSUME NEW r \in Request, JoinTenant(r) PROVE UserIndexHolds'
  <2> DEFINE u == requests[r].user
             t == requests[r].inv.tenant
  <2>1. u \in User
    BY <1>3, RequestShapes DEF JoinTenant, At
  <2>2. tenantOf' = [tenantOf EXCEPT ![u] = t] /\ Members(u.email, t) \subseteq {u}
    BY <1>3 DEF JoinTenant
  <2> HIDE DEF u, t
  <2> QED BY <2>1, <2>2 DEF Members, TypeOK
<1>4. ASSUME NEW u \in User, NEW sent \in SUBSET Invitation, DeleteUser(u, sent)
      PROVE  UserIndexHolds'
  BY <1>4, InvitationsAssumption DEF DeleteUser, TypeOK
<1> QED BY <1>1, <1>2, <1>3, <1>4, UsersChange

(* Members stay those that were invited.                                   *)
LEMMA MembersStep ==
  ASSUME TypeOK, MembersWereInvited, AdmittedByAddress, [Next]_vars
  PROVE  MembersWereInvited'
<1> USE DEF MembersWereInvited
<1>1. CASE UsersUnchanged
  BY <1>1 DEF UsersUnchanged
<1>2. ASSUME NEW r \in Request, NEW u \in User, ProvisionUser(r, u)
      PROVE  MembersWereInvited'
  BY <1>2 DEF ProvisionUser, TypeOK
<1>3. ASSUME NEW r \in Request, JoinTenant(r) PROVE MembersWereInvited'
  <2> DEFINE u == requests[r].user
             i == requests[r].inv
  <2>1. u \in User /\ i.email = u.email
    BY <1>3, RequestShapes DEF JoinTenant, At, AdmittedByAddress
  <2>2. /\ tenantOf' = [tenantOf EXCEPT ![u] = i.tenant]
        /\ roles' = [roles EXCEPT ![u] = roles[u] \cup {i}]
    BY <1>3 DEF JoinTenant
  <2> HIDE DEF u, i
  <2> QED BY <2>1, <2>2 DEF TypeOK
<1>4. ASSUME NEW u \in User, NEW sent \in SUBSET Invitation, DeleteUser(u, sent)
      PROVE  MembersWereInvited'
  BY <1>4, InvitationsAssumption DEF DeleteUser, TypeOK
<1> QED BY <1>1, <1>2, <1>3, <1>4, UsersChange

-----------------------------------------------------------------------------
(* The inductive invariant.                                                *)
LEMMA InitIInv == Init => IInv
<1> SUFFICES ASSUME Init PROVE IInv
  OBVIOUS
<1>1. TypeOK
  BY RowConstants, RequestStates DEF Init, TypeOK
<1>2. \A i \in Invitation : Status(i) = "NONE"
  BY DEF Init, Status, NoRow
<1>3. \A r \in Request : requests[r].step = "idle"
  BY DEF Init, Idle
<1>4. \A u \in User : roles[u] = {} /\ tenantOf[u] \notin Tenant
  BY InvitationsAssumption DEF Init
<1>5. IndexHolds /\ AcceptedWasProvisioned
  BY <1>2 DEF IndexHolds, AcceptedWasProvisioned, Stored, InvitationStatus, Closed
<1>6. AcceptingWasProvisioned /\ AdmittedByAddress
  BY <1>3 DEF AcceptingWasProvisioned, AdmittedByAddress, At
<1>7. MembersWereInvited /\ UserIndexHolds
  BY <1>4 DEF MembersWereInvited, UserIndexHolds
<1>8. PurgeBatchClosed
  BY DEF Init, PurgeBatchClosed
<1> QED BY <1>1, <1>5, <1>6, <1>7, <1>8 DEF IInv

(* All of this holds in every reachable state: the unique indexes,         *)
(* provisioning before ACCEPTED, the admission check of a join and the     *)
(* closed batch of the cleanup (invitation.service.ts, invitation-         *)
(* acceptance.service.ts, invitation-status.service.ts, tenant-            *)
(* management.service.ts).                                                 *)
THEOREM IInvInvariant == Spec => []IInv
<1>1. IInv /\ TypeOK' /\ [Next]_vars => IInv'
  BY IndexStep, AcceptedStep, AcceptingStep, MembersStep, AdmittedStep, UserIndexStep,
     PurgeStep DEF IInv
<1> QED BY InitIInv, <1>1, TypeCorrect, PTL DEF Spec

(* At most one open invitation for an address, whoever invites at once.    *)
THEOREM OnePendingPerAddressHolds == Spec => []OnePendingPerAddress
<1>1. IInv => OnePendingPerAddress
  BY DEF IInv, IndexHolds, OnePendingPerAddress, Pending, Stored, InvitationStatus
<1> QED BY <1>1, IInvInvariant, PTL

(* ACCEPTED is written only after the invitation's roles were given.       *)
THEOREM AcceptedWasProvisionedHolds == Spec => []AcceptedWasProvisioned
<1>1. IInv => AcceptedWasProvisioned
  BY DEF IInv
<1> QED BY <1>1, IInvInvariant, PTL

(* Roles reach only the address they were offered to.                      *)
THEOREM MembersWereInvitedHolds == Spec => []MembersWereInvited
<1>1. IInv => MembersWereInvited
  BY DEF IInv
<1> QED BY <1>1, IInvInvariant, PTL

(* One invitation never makes two members of its tenant.                   *)
THEOREM OneMemberPerInvitationHolds == Spec => []OneMemberPerInvitation
<1>1. IInv => OneMemberPerInvitation
  BY DEF IInv, MembersWereInvited, UserIndexHolds, OneMemberPerInvitation
<1> QED BY <1>1, IInvInvariant, PTL

(* The daily cleanup never deletes an open invitation.                     *)
THEOREM PurgeSparesOpenInvitationsHolds == Spec => []PurgeSparesOpenInvitations
<1>1. IInv => PurgeSparesOpenInvitations
  BY DEF IInv, PurgeBatchClosed, PurgeSparesOpenInvitations, Pending, Closed
<1> QED BY <1>1, IInvInvariant, PTL

(* No step reopens a closed invitation, whatever its request read before.  *)
THEOREM ClosedStaysClosedHolds == Spec => ClosedStaysClosed
<1>1. IInv /\ [Next]_vars => ClosedStep
  BY ClosedStepHolds DEF IInv
<1>2. IInv /\ [Next]_vars => [ClosedStep]_vars
  BY <1>1
<1> QED BY <1>2, IInvInvariant, PTL DEF Spec, ClosedStaysClosed, ClosedStep

-----------------------------------------------------------------------------
(* The refinement: every step of Invitations is a step of its lifecycle    *)
(* or invisible there.                                                     *)

(* What an acceptance in progress read was offered: ids are not reused.    *)
HeldWasOffered ==
  \A r \in Request :
    requests[r].step \in {"validated", "checked"} => Status(requests[r].inv) # "NONE"

(* What was offered stays offered.                                         *)
LEMMA HeldStep ==
  ASSUME TypeOK, AcceptingWasProvisioned, HeldWasOffered, [Next]_vars
  PROVE  HeldWasOffered'
<1>1. ASSUME NEW i \in Invitation, Status(i) # "NONE" PROVE Status(i)' # "NONE"
  <2>1. CASE OneRowWritten
    BY <1>1, <2>1 DEF OneRowWritten, InvitationStatus, Closed
  <2>2. CASE RowsDeletedOnly
    BY <1>1, <2>2 DEF RowsDeletedOnly
  <2>3. CASE SweepUpdate
    BY <1>1, <2>3 DEF SweepUpdate, Status, TypeOK, InvitationRow
  <2> QED BY <2>1, <2>2, <2>3, StatusChange
<1> DEFINE Held(q) == q.step \in {"validated", "checked"}
<1>2. \A r \in Request : Held(requests[r]) =>
        requests[r].inv \in Invitation /\ Status(requests[r].inv) # "NONE"
  BY RequestShapes DEF HeldWasOffered, TokenStep
<1>3. ASSUME \A r \in Request : Held(requests'[r]) =>
               requests'[r].inv \in Invitation /\ Status(requests'[r].inv) # "NONE"
      PROVE  HeldWasOffered'
  BY <1>1, <1>3 DEF HeldWasOffered
<1>4. CASE UNCHANGED requests
  BY <1>2, <1>3, <1>4
<1>5. ASSUME NEW r \in Request, NEW q, Go(r, q),
             Held(q) => q.inv \in Invitation /\ Status(q.inv) # "NONE"
      PROVE  HeldWasOffered'
  BY <1>2, <1>3, <1>5 DEF Go, TypeOK
<1>6. ASSUME NEW r \in Request, Administer(r) PROVE HeldWasOffered'
  BY <1>6, <1>5 DEF Administer, CheckNoPendingInvitation, InsertInvitation,
                    ReadInvitation, WriteCancelled, WriteResent, Finish, Idle
<1>7. ASSUME NEW r \in Request, Accept(r) PROVE HeldWasOffered'
  <2>1. CASE CheckNotMember(r)
    <3> DEFINE q == [requests[r] EXCEPT !.step = "checked"]
    <3>1. q.inv = requests[r].inv /\ Held(requests[r]) /\ Go(r, q)
      BY <2>1, RequestShapes DEF CheckNotMember, At, TokenStep
    <3> HIDE DEF q
    <3> QED BY <3>1, <1>2, <1>5
  <2>2. ASSUME NEW u \in User, ProvisionUser(r, u) PROVE HeldWasOffered'
    <3>1. [requests[r] EXCEPT !.step = "provisioned"].step = "provisioned"
      BY <2>2, RequestShapes DEF ProvisionUser, At, TokenStep
    <3> QED BY <2>2, <3>1, <1>5 DEF ProvisionUser
  <2>3. ASSUME NEW i \in Invitation, ValidateToken(r, i) PROVE HeldWasOffered'
    BY <2>3, <1>5 DEF ValidateToken, Pending
  <2> QED BY <1>7, <1>5, <2>1, <2>2, <2>3
          DEF Accept, FindLapsed, WriteExpired, RevalidateToken, WriteAccepted, Finish, Idle
<1>8. ASSUME NEW r \in Request, Join(r) PROVE HeldWasOffered'
  BY <1>8, <1>5 DEF Join, CheckTenantless, CheckInvitation, JoinTenant, Finish, Idle
<1>9. ASSUME NEW r \in Request, Fail(r) PROVE HeldWasOffered'
  BY <1>9, <1>5 DEF Fail, Finish, Idle
<1>10. CASE StatusJobs
  BY <1>10, <1>4 DEF StatusJobs, SweepFind, SweepUpdate, SweepRefused, PurgeFind, PurgeDelete
<1> QED BY <1>4, <1>6, <1>7, <1>8, <1>9, <1>10 DEF Next, DeleteUser, Lapse, Age, vars

(* An acceptance that has validated its invitation goes on with one that   *)
(* was issued, whatever became of it since (acceptInvitation reads it long *)
(* before it writes).                                                      *)
THEOREM HeldWasOfferedHolds == Spec => []HeldWasOffered
<1>1. Init => HeldWasOffered
  BY DEF Init, HeldWasOffered, Idle
<1>2. IInv /\ HeldWasOffered /\ [Next]_vars => HeldWasOffered'
  BY HeldStep DEF IInv
<1> QED BY <1>1, <1>2, IInvInvariant, PTL DEF Spec


(* What the lifecycle sees of a row.                                       *)
Life == [i \in Invitation |-> Status(i)]

(* The steps that close one row.                                           *)
LEMMA ClosesOne ==
  ASSUME TypeOK, NEW i \in Invitation, NEW s \in Closed,
         SetStatus(i, s), Stored(i), IndexAdmits(i, s),
         s = "ACCEPTED" => i \in provisioned,
         UNCHANGED <<tenantOf, roles, provisioned>>
  PROVE  Lifecycle!Next
<1>1. s \in InvitationStatus /\ s \in Lifecycle!Closing
  BY DEF InvitationStatus, Closed, Lifecycle!Closing
<1>2. Life' = [j \in Invitation |-> IF j \in {i} THEN s ELSE Life[j]]
  BY <1>1, SetStatusTypeOK DEF Life, Status
<1>3. {i} \subseteq Lifecycle!Existing
  BY DEF Lifecycle!Existing, Lifecycle!Closing, Stored, InvitationStatus, Closed
<1>4. Lifecycle!Unshared(i, s)
  BY DEF IndexAdmits, Lifecycle!Unshared, SameAddress, Lifecycle!SameOffer
<1>5. Lifecycle!Close({i}, s)
  BY <1>2, <1>3, <1>4 DEF Lifecycle!Close, Life
<1> QED BY <1>1, <1>5 DEF Lifecycle!Next

(* Nobody else with the address of u is a member of the tenant.            *)
LEMMA AloneInTenant ==
  ASSUME NEW u \in User, NEW t, Members(u.email, t) \subseteq {u}
  PROVE  Lifecycle!OnlyMember(u, t)
BY DEF Members, Lifecycle!OnlyMember

(* A write that keeps the status is invisible to the lifecycle.            *)
LEMMA Invisible ==
  ASSUME TypeOK, NEW k \in Invitation, NEW row,
         invitations' = [invitations EXCEPT ![k] = row], row.status = Status(k)
  PROVE  UNCHANGED Life
<1>1. \A i \in Invitation : Status(i)' = Status(i)
  BY DEF Status, TypeOK
<1> QED BY <1>1 DEF Life

(* Provisioning is the admission of the lifecycle.                         *)
LEMMA ProvisionUserAdmits ==
  ASSUME IInv, HeldWasOffered, NEW r \in Request, NEW u \in User, ProvisionUser(r, u)
  PROVE  Lifecycle!Next
<1> DEFINE i == requests[r].inv
<1>1. i \in Invitation /\ Status(i) # "NONE"
  BY RequestShapes DEF ProvisionUser, At, TokenStep, IInv, HeldWasOffered
<1>2. /\ tenantOf[u] = Unused /\ u.email = i.email
      /\ Members(u.email, i.tenant) \subseteq {u}
      /\ tenantOf' = [tenantOf EXCEPT ![u] = i.tenant]
      /\ roles' = [roles EXCEPT ![u] = {i}]
      /\ provisioned' = provisioned \cup {i}
      /\ invitations' = invitations
  BY DEF ProvisionUser, NextUser
<1> HIDE DEF i
<1>3. Lifecycle!OnlyMember(u, i.tenant)
  BY <1>2, AloneInTenant
<1>4. Life' = Life /\ Life[i] # "NONE"
  BY <1>1, <1>2 DEF Life, Status
<1>5. Lifecycle!Admit(u, i)
  BY <1>2, <1>3, <1>4 DEF Lifecycle!Admit, Life
<1> QED BY <1>1, <1>5 DEF Lifecycle!Next

(* A join is the join of the lifecycle.                                    *)
LEMMA JoinTenantJoins ==
  ASSUME IInv, NEW r \in Request, JoinTenant(r)
  PROVE  Lifecycle!Next
<1> DEFINE i == requests[r].inv
           u == requests[r].user
<1>1. i \in Invitation /\ u \in User /\ u.email = i.email
  BY RequestShapes DEF JoinTenant, At, IInv, AdmittedByAddress
<1>2. /\ tenantOf[u] \in Tenant \cup {Tenantless}
      /\ Members(u.email, i.tenant) \subseteq {u}
      /\ Stored(i) /\ IndexAdmits(i, "ACCEPTED") /\ SetStatus(i, "ACCEPTED")
      /\ tenantOf' = [tenantOf EXCEPT ![u] = i.tenant]
      /\ roles' = [roles EXCEPT ![u] = @ \cup {i}]
      /\ provisioned' = provisioned \cup {i}
  BY DEF JoinTenant
<1> HIDE DEF i, u
<1>3. Lifecycle!OnlyMember(u, i.tenant)
  BY <1>1, <1>2, AloneInTenant
<1>4. i \in Lifecycle!Existing
  BY <1>1, <1>2 DEF Lifecycle!Existing, Lifecycle!Closing, Stored, InvitationStatus, Closed
<1>5. Lifecycle!Unshared(i, "ACCEPTED")
  BY <1>1, <1>2 DEF IndexAdmits, Lifecycle!Unshared, SameAddress, Lifecycle!SameOffer
<1>6. Life' = [Life EXCEPT ![i] = "ACCEPTED"]
  BY <1>1, <1>2, SetStatusTypeOK DEF Life, Status, IInv, InvitationStatus, Closed
<1>7. Lifecycle!Join(u, i)
  BY <1>1, <1>2, <1>3, <1>4, <1>5, <1>6 DEF Lifecycle!Join, Life
<1> QED BY <1>1, <1>7 DEF Lifecycle!Next

(* A deleted batch is a set of abstract invitations that are gone.         *)
LEMMA Removed ==
  ASSUME NEW batch \in SUBSET Invitation,
         invitations' = [i \in Invitation |-> IF i \in batch THEN GoneRow ELSE invitations[i]]
  PROVE  Life' = [i \in Invitation |-> IF i \in batch THEN "GONE" ELSE Life[i]]
BY RowConstants DEF Life, Status

(* The expiry sweep closes rows.                                           *)
LEMMA SweepUpdateCloses ==
  ASSUME IInv, SweepUpdate
  PROVE  Lifecycle!Next
<1> DEFINE batch == {i \in sweep : Stored(i)}
<1>1. batch \in SUBSET Invitation
  BY DEF IInv, TypeOK
<1>2. Life' = [i \in Invitation |-> IF i \in batch THEN "EXPIRED" ELSE Life[i]]
  BY DEF SweepUpdate, Life, Status, IInv, TypeOK, InvitationRow
<1>3. batch \subseteq Lifecycle!Existing
  BY <1>1 DEF Lifecycle!Existing, Lifecycle!Closing, Stored, InvitationStatus, Closed
<1>4. ASSUME NEW i \in batch
      PROVE  /\ Lifecycle!Unshared(i, "EXPIRED")
             /\ \A j \in batch \ {i} : ~Lifecycle!SameOffer(i, j)
  <2>1. IndexAdmits(i, "EXPIRED") /\ \A j \in sweep \ {i} : Stored(j) => ~SameAddress(i, j)
    BY DEF SweepUpdate, SweepAdmitted
  <2> QED BY <1>1, <2>1
          DEF IndexAdmits, Lifecycle!Unshared, SameAddress, Lifecycle!SameOffer
<1>5. UNCHANGED <<tenantOf, roles, provisioned>>
  BY DEF SweepUpdate
<1> HIDE DEF batch
<1>6. Lifecycle!Close(batch, "EXPIRED")
  BY <1>2, <1>3, <1>4, <1>5 DEF Lifecycle!Close, Life
<1> QED BY <1>1, <1>6 DEF Lifecycle!Next, Lifecycle!Closing

(* The cleanup removes closed rows.                                        *)
LEMMA PurgeDeleteCleansUp ==
  ASSUME IInv, PurgeDelete
  PROVE  Lifecycle!Next
<1>1. purge \in SUBSET Invitation /\ \A i \in purge : Life[i] \in Lifecycle!Closing \cup {"GONE"}
  BY DEF IInv, TypeOK, PurgeBatchClosed, Life, Lifecycle!Closing, Closed
<1>2. Lifecycle!CleanUp(purge)
  BY <1>1, Removed DEF PurgeDelete, Lifecycle!CleanUp, Life
<1> QED BY <1>1, <1>2 DEF Lifecycle!Next

(* The deletion of a user takes a member and the rows he sent.             *)
LEMMA DeleteUserLeaves ==
  ASSUME IInv, NEW u \in User, NEW sent \in SUBSET Invitation, DeleteUser(u, sent)
  PROVE  Lifecycle!Next
<1>1. sent \subseteq {i \in Lifecycle!Existing : i.tenant = tenantOf[u]}
  BY DEF DeleteUser, Lifecycle!Existing, Lifecycle!Closing, Stored, InvitationStatus, Closed
<1>2. Lifecycle!Leave(u, sent)
  BY <1>1, Removed DEF DeleteUser, Lifecycle!Leave, Life
<1> QED BY <1>2 DEF Lifecycle!Next

(* An insert is the offer of the lifecycle.                                *)
LEMMA InsertInvitationOffers ==
  ASSUME IInv, NEW r \in Request, NEW i \in Invitation, InsertInvitation(r, i)
  PROVE  Lifecycle!Next
<1>1. Life[i] = "NONE"
  BY DEF InsertInvitation, NextInvitation, Life
<1>2. Lifecycle!Unshared(i, "PENDING")
  BY DEF InsertInvitation, IndexAdmits, Lifecycle!Unshared, SameAddress, Lifecycle!SameOffer
<1>3. Life' = [Life EXCEPT ![i] = "PENDING"]
  BY RowConstants DEF InsertInvitation, Life, Status, IInv, TypeOK
<1>4. Lifecycle!Offer(i)
  BY <1>1, <1>2, <1>3 DEF InsertInvitation, Lifecycle!Offer, Life
<1> QED BY <1>4 DEF Lifecycle!Next

(* The state of the lifecycle.                                             *)
Shown == <<Life, tenantOf, roles, provisioned>>

(* Every step is one of the lifecycle or invisible there.                  *)
LEMMA StepImplements ==
  ASSUME IInv, HeldWasOffered, [Next]_vars
  PROVE  Lifecycle!Next \/ UNCHANGED Shown
<1>1. ASSUME UNCHANGED <<invitations, tenantOf, roles, provisioned>> PROVE UNCHANGED Shown
  BY <1>1 DEF Shown, Life, Status
<1>2. ASSUME NEW r \in Request, Administer(r) PROVE Lifecycle!Next \/ UNCHANGED Shown
  <2>1. CASE WriteCancelled(r)
    BY <2>1, ClosesOne, RequestShapes DEF WriteCancelled, At, RowStep, IInv, Closed
  <2>2. CASE WriteResent(r)
    <3>1. requests[r].inv \in Invitation
      BY <2>2, RequestShapes DEF WriteResent, At, RowStep, IInv
    <3> DEFINE row == invitations[requests[r].inv]
    <3>2. [row EXCEPT !.token = row.token + 1, !.lapsed = FALSE].status = row.status
      BY <3>1 DEF IInv, TypeOK, InvitationRow
    <3>3. UNCHANGED Life
      BY <2>2, <3>1, <3>2, Invisible DEF WriteResent, IInv, Status
    <3> QED BY <2>2, <3>3 DEF WriteResent, Shown
  <2> QED BY <1>2, <1>1, <2>1, <2>2, InsertInvitationOffers
          DEF Administer, CheckNoPendingInvitation, ReadInvitation
<1>3. ASSUME NEW r \in Request, Accept(r) PROVE Lifecycle!Next \/ UNCHANGED Shown
  <2>1. CASE WriteExpired(r)
    BY <2>1, ClosesOne, RequestShapes DEF WriteExpired, At, RowStep, IInv, Closed
  <2>2. CASE WriteAccepted(r)
    BY <2>2, ClosesOne, RequestShapes
       DEF WriteAccepted, At, RowStep, IInv, Closed, AcceptingWasProvisioned
  <2> QED BY <1>3, <1>1, <2>1, <2>2, ProvisionUserAdmits
          DEF Accept, ValidateToken, FindLapsed, CheckNotMember, RevalidateToken
<1>4. ASSUME NEW r \in Request, Join(r) PROVE Lifecycle!Next \/ UNCHANGED Shown
  BY <1>4, <1>1, JoinTenantJoins DEF Join, CheckTenantless, CheckInvitation
<1>5. CASE StatusJobs
  BY <1>5, <1>1, SweepUpdateCloses, PurgeDeleteCleansUp
     DEF StatusJobs, SweepFind, SweepRefused, PurgeFind
<1>6. ASSUME NEW i \in Invitation, Lapse(i) \/ Age(i) PROVE UNCHANGED Shown
  <2>1. /\ [invitations[i] EXCEPT !.lapsed = TRUE].status = Status(i)
        /\ [invitations[i] EXCEPT !.aged = TRUE].status = Status(i)
    BY DEF IInv, TypeOK, InvitationRow, Status
  <2> DEFINE lapsed == [invitations[i] EXCEPT !.lapsed = TRUE]
             aged == [invitations[i] EXCEPT !.aged = TRUE]
  <2>2. \/ invitations' = [invitations EXCEPT ![i] = lapsed]
        \/ invitations' = [invitations EXCEPT ![i] = aged]
    BY <1>6 DEF Lapse, Age
  <2>3. UNCHANGED Life
    BY <2>1, <2>2, Invisible DEF IInv
  <2> QED BY <1>6, <2>3 DEF Lapse, Age, Shown
<1> QED BY <1>1, <1>2, <1>3, <1>4, <1>5, <1>6, DeleteUserLeaves DEF Next, Fail, vars

(* Whatever a handler read, and however old it is when it writes, its      *)
(* effect is one step the lifecycle allows at that moment, or none.        *)
THEOREM ImplementsLifecycleHolds == Spec => ImplementsLifecycle
<1>1. Init => Lifecycle!Init
  BY DEF Init, Lifecycle!Init, Status, NoRow
<1>2. IInv /\ HeldWasOffered /\ [Next]_vars => [Lifecycle!Next]_(Lifecycle!lifecycleVars)
  BY StepImplements DEF Shown, Life, Lifecycle!lifecycleVars
<1> QED BY <1>1, <1>2, IInvInvariant, HeldWasOfferedHolds, PTL
        DEF Spec, ImplementsLifecycle, Lifecycle!Spec


-----------------------------------------------------------------------------
(* Management calls (InvitationManagement).  A manager drives one of the   *)
(* requests above, so that everything above holds beside bulk calls; what  *)
(* their answers say is a second invariant on top of it.                   *)

(* The rows there are can be counted.                                      *)
FinitelyStored == IsFiniteSet({i \in Invitation : Stored(i)})

(* What has become of a row that a cancellation or a resending was done    *)
(* to; neither can be undone.                                              *)
ClosedForGood(i) == Status(i) \in Closed \cup {"GONE"}
Known(i) == Status(i) # "NONE"
LinkReplaced(i) == Known(i) /\ (Stored(i) => invitations[i].token > 0)

(* The states of a bulk call.                                              *)
BulkState ==
  [step : {"item", "reading", "answered"}, op : BulkOp, tenant : Tenant,
   items : Seq(Email \cup {Malformed}) \cup Seq(Invitation), at : Nat,
   successful : Seq(Invitation), failed : Nat]

(* A bulk call is a list and a place in it.  A creation works on addresses *)
(* that differ, the other two on ids.                                      *)
BulkTyped(m) ==
  LET c == calls[m] IN
  /\ c \in BulkState
  /\ c.op = "create" => /\ c.items \in Seq(Email \cup {Malformed})
                        /\ \A k, l \in DOMAIN c.items : k # l => c.items[k] # c.items[l]
  /\ c.op # "create" => c.items \in Seq(Invitation)
  /\ c.at >= 1 /\ Len(c.successful) + c.failed = c.at - 1
  /\ IF Answered(m) THEN c.at = Len(c.items) + 1 ELSE c.at <= Len(c.items)
  /\ c.step = "reading" => c.op # "create"

(* What the answer will name was done for items before the present one.    *)
BulkDone(m) ==
  LET c == calls[m]
      done == c.successful IN
  /\ \A k \in DOMAIN done : Known(done[k])
  /\ c.op = "create" =>
       /\ \A k \in DOMAIN done : \E j \in 1 .. c.at - 1 : c.items[j] = done[k].email
       /\ \A k, l \in DOMAIN done : k # l => done[k].email # done[l].email
  /\ c.op = "cancel" =>
       /\ \A k \in DOMAIN done : ClosedForGood(done[k])
       /\ \A k, l \in DOMAIN done : k # l => done[k] # done[l]
  /\ c.op = "resend" => \A k \in DOMAIN done : LinkReplaced(done[k])

(* The manager's request is about the present item; a row about to be      *)
(* cancelled was open when it was read, so nothing named before is it.     *)
RequestFollows(m) ==
  LET c == calls[m]
      q == requests[m]
      Fresh(i) == \A k \in DOMAIN c.successful : c.successful[k] # i IN
  /\ ~(IsBulk(m) /\ c.step = "item") => q = Idle
  /\ IsBulk(m) /\ c.step = "item" =>
       \/ q = Idle
       \/ q.step = "inserting" /\ c.op = "create" /\ q.email = Item(m)
       \/ q.step = "cancelling" /\ c.op = "cancel" /\ q.inv = Item(m) /\ Fresh(q.inv) /\ Known(q.inv)
       \/ q.step = "resending" /\ c.op = "resend" /\ q.inv = Item(m) /\ Known(q.inv)
  /\ IsBulk(m) /\ c.step = "reading" =>
       /\ c.op = "cancel" => ClosedForGood(Item(m)) /\ Fresh(Item(m))
       /\ c.op = "resend" => LinkReplaced(Item(m))

(* The request of every manager follows its call, and a bulk call is a     *)
(* place in its list.                                                      *)
BulkInv ==
  \A m \in Manager : RequestFollows(m) /\ (IsBulk(m) => BulkTyped(m) /\ BulkDone(m))

(* Figures in progress still fit the rows there are, unless these changed. *)
StatisticsFit(m) ==
  LET c == calls[m]
      rows == Rows(c.tenant) IN
  /\ c = [step |-> "counting", op |-> "statistics", tenant |-> c.tenant, cutoff |-> c.cutoff,
          byStatus |-> c.byStatus, counts |-> c.counts]
  /\ DOMAIN c.counts \subseteq Figure /\ DOMAIN c.counts # Figure
  /\ "rows" \notin disturbed[m] =>
       /\ c.cutoff \subseteq rows
       /\ Total(c.byStatus) = Cardinality(rows)
       /\ "sent" \in DOMAIN c.counts => c.counts["sent"] = Cardinality(rows \ c.cutoff)
       /\ "accepted" \in DOMAIN c.counts /\ c.cutoff \cap provisioned = {} =>
            c.counts["accepted"] <= Cardinality(rows \ c.cutoff)

(* Rows as a report or a listing shows them.                               *)
StatusList(rows) == [i \in rows |-> Status(i)]

(* The list of a report is still that of its rows, unless these changed.   *)
ReportFits(m) ==
  LET c == calls[m] IN
  /\ c = [step |-> "counting", op |-> "report", tenant |-> c.tenant, where |-> c.where,
          list |-> c.list, byStatus |-> c.byStatus]
  /\ disturbed[m] = {} => c.list = StatusList(Matching(c.tenant, c.where))

(* The total of a listing is still that of its rows, unless these          *)
(* changed.                                                                *)
ListingFits(m) ==
  LET c == calls[m] IN
  /\ c = [step |-> "counting", op |-> "listing", tenant |-> c.tenant, where |-> c.where,
          total |-> c.total, list |-> c.list]
  /\ disturbed[m] = {} => c.total = Cardinality(Matching(c.tenant, c.where))

(* Figures in progress fit.                                                *)
FiguresFit(m) ==
  /\ calls[m].step = "counting" =>
       \/ calls[m].op = "statistics" /\ StatisticsFit(m)
       \/ calls[m].op = "report" /\ ReportFits(m)
       \/ calls[m].op = "listing" /\ ListingFits(m)
  /\ disturbed[m] \in SUBSET {"rows", "status"}

(* calls and disturbed are functions of the managers.                      *)
CallsShaped ==
  /\ calls = [m \in Manager |-> calls[m]] /\ disturbed = [m \in Manager |-> disturbed[m]]
  /\ \A m \in Manager :
       \/ calls[m] \in {NoCall, CutOff}
       \/ calls[m].step \in {"item", "reading", "answered"} /\ calls[m].op \in BulkOp
       \/ calls[m].step \in {"counting", "answered"} /\ calls[m].op \in {"statistics", "report", "listing"}

(* The invariant of the management calls, on top of IInv.                  *)
MInv ==
  /\ CallsShaped
  /\ BulkInv
  /\ \A m \in Manager : FiguresFit(m)
  /\ FiguresAgree

-----------------------------------------------------------------------------
(* [...new Set(emails)] keeps the first of equal entries, each once: the   *)
(* ranks of the first entries are the places of the new list.              *)
LEMMA RankOfFirst ==
  ASSUME NEW firsts, IsFiniteSet(firsts), firsts \subseteq Nat \ {0},
         NEW n \in 1 .. Cardinality(firsts)
  PROVE  \E k \in firsts : Cardinality(firsts \cap 1 .. k) = n
<1> DEFINE N == Cardinality(firsts)
           rank == [k \in firsts |-> Cardinality(firsts \cap 1 .. k)]
<1>1. N \in Nat
  BY FS_CardinalityType
<1>2. ASSUME NEW k \in firsts
      PROVE  IsFiniteSet(firsts \cap 1 .. k) /\ Cardinality(firsts \cap 1 .. k) \in 1 .. N
  <2>1. firsts \cap 1 .. k \in SUBSET firsts /\ k \in firsts \cap 1 .. k
    OBVIOUS
  <2>2. IsFiniteSet(firsts \cap 1 .. k) /\ Cardinality(firsts \cap 1 .. k) <= N
    BY <2>1, FS_Subset
  <2>3. Cardinality(firsts \cap 1 .. k) \in Nat /\ Cardinality(firsts \cap 1 .. k) # 0
    BY <2>1, <2>2, FS_CardinalityType, FS_EmptySet
  <2> QED BY <1>1, <2>2, <2>3
<1>3. ASSUME NEW k \in firsts, NEW l \in firsts, k < l PROVE rank[k] # rank[l]
  <2>1. firsts \cap 1 .. k \in SUBSET (firsts \cap 1 .. l)
    BY <1>3
  <2>2. l \in firsts \cap 1 .. l /\ l \notin firsts \cap 1 .. k
    BY <1>3
  <2>3. Cardinality(firsts \cap 1 .. l) # Cardinality(firsts \cap 1 .. k)
    BY <1>2, <2>1, <2>2, FS_Subset
  <2> QED BY <2>3
<1>4. SUFFICES ASSUME \A k \in firsts : rank[k] # n PROVE FALSE
  OBVIOUS
<1>5. /\ IsFiniteSet((1 .. N) \ {n})
      /\ Cardinality((1 .. N) \ {n}) = N - 1
  <2>1. IsFiniteSet(1 .. N) /\ Cardinality(1 .. N) = N
    BY <1>1, FS_Interval
  <2> QED BY <1>1, <2>1, FS_RemoveElement
<1>6. rank \in [firsts -> (1 .. N) \ {n}]
  BY <1>2, <1>4
<1>7. \E k, l \in firsts : k # l /\ rank[k] = rank[l]
  <2> DEFINE others == (1 .. N) \ {n}
  <2>1. IsFiniteSet(others) /\ Cardinality(others) < Cardinality(firsts)
    BY <1>1, <1>5
  <2>2. rank \in [firsts -> others]
    BY <1>6
  <2> HIDE DEF rank, others
  <2> HIDE DEF N
  <2>3. IsFiniteSet(firsts)
    OBVIOUS
  <2> QED BY ONLY <2>1, <2>2, <2>3, FS_PigeonHole
<1> QED
  <2> HIDE DEF rank
  <2> QED BY <1>3, <1>7

(* First entries can be counted and there is one.                          *)
LEMMA FirstsFinite ==
  ASSUME NEW S, NEW list \in Seq(S), Len(list) >= 1
  PROVE  /\ Firsts(list) \subseteq 1 .. Len(list) /\ 1 \in Firsts(list)
         /\ IsFiniteSet(Firsts(list))
         /\ Cardinality(Firsts(list)) \in Nat /\ Cardinality(Firsts(list)) >= 1
<1>1. Firsts(list) \subseteq 1 .. Len(list) /\ 1 \in Firsts(list)
  BY DEF Firsts
<1>2. IsFiniteSet(1 .. Len(list))
  BY FS_Interval
<1>3. IsFiniteSet(Firsts(list))
  BY <1>1, <1>2, FS_Subset
<1>4. Cardinality(Firsts(list)) \in Nat /\ Cardinality(Firsts(list)) # 0
  BY <1>1, <1>3, FS_CardinalityType, FS_EmptySet
<1> QED BY <1>1, <1>3, <1>4

(* The entries of the new list differ, and there is one.                   *)
LEMMA DistinctDiffer ==
  ASSUME NEW S, NEW list \in Seq(S), Len(list) >= 1
  PROVE  /\ Distinct(list) \in Seq(S) /\ Len(Distinct(list)) >= 1
         /\ \A k, l \in DOMAIN Distinct(list) : k # l => Distinct(list)[k] # Distinct(list)[l]
<1> DEFINE firsts == Firsts(list)
           place(n) == CHOOSE k \in firsts : Cardinality(firsts \cap 1 .. k) = n
           N == Cardinality(firsts)
<1>1. /\ firsts \subseteq 1 .. Len(list) /\ IsFiniteSet(firsts)
      /\ N \in Nat /\ N >= 1
  BY FirstsFinite
<1>2. ASSUME NEW n \in 1 .. N
      PROVE  place(n) \in firsts /\ Cardinality(firsts \cap 1 .. place(n)) = n
  <2>1. firsts \subseteq Nat \ {0}
    BY <1>1
  <2>2. \E k \in firsts : Cardinality(firsts \cap 1 .. k) = n
    BY <1>1, <2>1, RankOfFirst
  <2> QED BY <2>2
<1>3. \A k, l \in firsts : k # l => list[k] # list[l]
  BY <1>1 DEF Firsts
<1>4. Distinct(list) = [n \in 1 .. N |-> list[place(n)]]
  BY DEF Distinct
<1> HIDE DEF place, firsts, N
<1>5. \A n \in 1 .. N : list[place(n)] \in S
  <2> SUFFICES ASSUME NEW n \in 1 .. N PROVE list[place(n)] \in S
    OBVIOUS
  <2>1. place(n) \in 1 .. Len(list)
    BY <1>1, <1>2
  <2> QED BY <2>1
<1>6. Distinct(list) \in Seq(S) /\ Len(Distinct(list)) = N /\ DOMAIN Distinct(list) = 1 .. N
  BY <1>1, <1>4, <1>5
<1>7. \A k, l \in 1 .. N : k # l => list[place(k)] # list[place(l)]
  BY <1>2, <1>3
<1> QED BY <1>1, <1>4, <1>6, <1>7


-----------------------------------------------------------------------------
(* What no step undoes: a row that is known stays known, a closed one stays*)
(* closed, and a link replaced once is never the first one again.          *)
TokensGrow ==
  \A i \in Invitation : Stored(i) /\ Stored(i)' => invitations'[i].token >= invitations[i].token

(* A resending gives a new token, nothing gives an old one.                *)
LEMMA TokensStep ==
  ASSUME TypeOK, [Next]_vars
  PROVE  TokensGrow
<1> USE DEF TokensGrow, Stored, Status
<1>1. ASSUME UNCHANGED invitations PROVE TokensGrow
  BY <1>1 DEF TypeOK, InvitationRow
<1>2. ASSUME NEW i \in Invitation, NEW s \in InvitationStatus, SetStatus(i, s) PROVE TokensGrow
  <2>1. \A j \in Invitation : invitations'[j].token = invitations[j].token
    BY <1>2 DEF SetStatus, TypeOK, InvitationRow
  <2> QED BY <2>1 DEF TypeOK, InvitationRow
<1>3. ASSUME \A j \in Invitation :
               \/ invitations'[j] = invitations[j]
               \/ invitations'[j].token >= invitations[j].token
               \/ Status(j) = "NONE" \/ Status(j)' = "GONE"
      PROVE  TokensGrow
  BY <1>3 DEF TypeOK, InvitationRow, InvitationStatus, Closed
<1>4. ASSUME NEW r \in Request, requests[r].step \in RowStep PROVE requests[r].inv \in Invitation
  BY <1>4, RequestShapes
<1>5. ASSUME NEW r \in Request, Administer(r) PROVE TokensGrow
  <2>1. ASSUME NEW i \in Invitation, InsertInvitation(r, i) PROVE TokensGrow
    BY <2>1, <1>3 DEF InsertInvitation, NextInvitation, TypeOK
  <2>2. CASE WriteCancelled(r)
    BY <2>2, <1>2, <1>4 DEF WriteCancelled, At, RowStep, InvitationStatus, Closed
  <2>3. CASE WriteResent(r)
    <3> DEFINE i == requests[r].inv
               row == [invitations[i] EXCEPT !.token = invitations[i].token + 1, !.lapsed = FALSE]
    <3>1. i \in Invitation
      BY <2>3, <1>4 DEF WriteResent, At, RowStep
    <3>2. invitations[i].token \in Nat /\ row.token = invitations[i].token + 1
      BY <3>1 DEF TypeOK, InvitationRow
    <3>3. invitations' = [invitations EXCEPT ![i] = row]
      BY <2>3 DEF WriteResent
    <3> HIDE DEF i, row
    <3>4. \A j \in Invitation :
            invitations'[j] = invitations[j] \/ invitations'[j].token >= invitations[j].token
      BY <3>1, <3>2, <3>3 DEF TypeOK
    <3> QED BY <3>4, <1>3
  <2> QED BY <1>5, <2>1, <2>2, <2>3, <1>1
          DEF Administer, CheckNoPendingInvitation, ReadInvitation
<1>6. ASSUME NEW r \in Request, Accept(r) PROVE TokensGrow
  <2>1. CASE WriteExpired(r)
    BY <2>1, <1>2, <1>4 DEF WriteExpired, At, RowStep, InvitationStatus, Closed
  <2>2. CASE WriteAccepted(r)
    BY <2>2, <1>2, <1>4 DEF WriteAccepted, At, RowStep, InvitationStatus, Closed
  <2> QED BY <1>6, <2>1, <2>2, <1>1 DEF Accept, ValidateToken, FindLapsed, CheckNotMember,
                                        ProvisionUser, RevalidateToken
<1>7. ASSUME NEW r \in Request, Join(r) PROVE TokensGrow
  <2>1. CASE JoinTenant(r)
    <3>1. requests[r].inv \in Invitation
      BY <2>1, RequestShapes DEF JoinTenant, At
    <3> QED BY <2>1, <3>1, <1>2 DEF JoinTenant, InvitationStatus, Closed
  <2> QED BY <1>7, <2>1, <1>1 DEF Join, CheckTenantless, CheckInvitation
<1>8. ASSUME NEW u \in User, NEW sent \in SUBSET Invitation, DeleteUser(u, sent) PROVE TokensGrow
  BY <1>8, <1>3, RowConstants DEF DeleteUser
<1>9. CASE StatusJobs
  <2>1. CASE SweepUpdate
    <3>1. \A j \in Invitation : invitations'[j].token = invitations[j].token
      BY <2>1 DEF SweepUpdate, TypeOK, InvitationRow
    <3> QED BY <3>1 DEF TypeOK, InvitationRow
  <2>2. CASE PurgeDelete
    BY <2>2, <1>3, RowConstants DEF PurgeDelete
  <2> QED BY <1>9, <2>1, <2>2, <1>1 DEF StatusJobs, SweepFind, SweepRefused, PurgeFind
<1>10. ASSUME NEW i \in Invitation, Lapse(i) \/ Age(i) PROVE TokensGrow
  <2>1. \A j \in Invitation : invitations'[j].token = invitations[j].token
    BY <1>10 DEF Lapse, Age, TypeOK, InvitationRow
  <2> QED BY <2>1 DEF TypeOK, InvitationRow
<1>11. CASE UNCHANGED vars
  BY <1>11, <1>1 DEF vars
<1> QED BY <1>1, <1>5, <1>6, <1>7, <1>8, <1>9, <1>10, <1>11 DEF Next, Fail

(* What no step undoes.                                                    *)
RowsKept ==
  \A i \in Invitation :
    /\ Known(i) => Known(i)'
    /\ ClosedForGood(i) => ClosedForGood(i)'
    /\ LinkReplaced(i) => LinkReplaced(i)'

(* No step undoes it.                                                      *)
LEMMA RowsStep ==
  ASSUME TypeOK, TypeOK', AcceptingWasProvisioned, [Next]_vars
  PROVE  RowsKept
<1>1. \A i \in Invitation : Known(i) => Known(i)' /\ (Stored(i)' => Stored(i))
  <2>1. CASE OneRowWritten
    BY <2>1 DEF OneRowWritten, Known, Stored, InvitationStatus, Closed
  <2>2. CASE RowsDeletedOnly
    BY <2>2 DEF RowsDeletedOnly, Known, Stored, InvitationStatus, Closed
  <2>3. CASE SweepUpdate
    <3>1. \A k \in Invitation :
            Status(k)' = IF k \in sweep /\ Stored(k) THEN "EXPIRED" ELSE Status(k)
      BY <2>3 DEF SweepUpdate, Status, TypeOK, InvitationRow
    <3> QED BY <3>1 DEF Known, Stored, InvitationStatus, Closed
  <2> QED BY <2>1, <2>2, <2>3, StatusChange
<1>2. \A i \in Invitation : ClosedForGood(i) => ClosedForGood(i)'
  BY ClosedStepHolds DEF ClosedStep, ClosedForGood
<1>3. ASSUME NEW i \in Invitation, LinkReplaced(i) PROVE LinkReplaced(i)'
  <2>1. Known(i)' /\ (Stored(i)' => invitations[i].token > 0)
    BY <1>1, <1>3 DEF LinkReplaced
  <2>2. Stored(i)' => invitations'[i].token >= invitations[i].token
    BY <1>1, <1>3, TokensStep DEF LinkReplaced, TokensGrow
  <2>3. invitations[i].token \in Int /\ invitations'[i].token \in Int
    BY DEF TypeOK, InvitationRow
  <2>4. Stored(i)' => invitations'[i].token > 0
    BY <2>1, <2>2, <2>3
  <2> QED BY <2>1, <2>4 DEF LinkReplaced
<1> QED BY <1>1, <1>2, <1>3 DEF RowsKept

(* A request's handlers touch no other request.                            *)
LEMMA OnlyOwn ==
  ASSUME TypeOK, NEW r \in Request, Administer(r) \/ Accept(r) \/ Join(r) \/ Fail(r)
  PROVE  \A s \in Request : s # r => requests'[s] = requests[s]
<1>1. \E q : Go(r, q)
  <2>1. ASSUME Administer(r) PROVE \E q : Go(r, q)
    BY <2>1 DEF Administer, CheckNoPendingInvitation, InsertInvitation, ReadInvitation,
                WriteCancelled, WriteResent, Finish
  <2>2. ASSUME Accept(r) PROVE \E q : Go(r, q)
    BY <2>2 DEF Accept, ValidateToken, FindLapsed, WriteExpired, CheckNotMember,
                ProvisionUser, RevalidateToken, WriteAccepted, Finish
  <2>3. ASSUME Join(r) PROVE \E q : Go(r, q)
    BY <2>3 DEF Join, CheckTenantless, CheckInvitation, JoinTenant, Finish
  <2> QED BY <2>1, <2>2, <2>3 DEF Fail, Finish
<1> QED BY <1>1 DEF Go, TypeOK


-----------------------------------------------------------------------------
(* A management call changes the tables only by steps its request may take *)
(* in module Invitations.                                                  *)

(* Where a call is that has not been made, or whose process died.          *)
LEMMA StepsOfResting == NoCall.step = "none" /\ CutOff.step = "cut off"
  BY DEF NoCall, CutOff

(* A bulk call at work has an item of its kind.                            *)
LEMMA BulkItem ==
  ASSUME CallsShaped, BulkInv, NEW m \in Manager,
         calls[m].step \in {"item", "reading"}
  PROVE  /\ IsBulk(m) /\ BulkTyped(m) /\ BulkDone(m)
         /\ calls[m].op = "create" => Item(m) \in Email \cup {Malformed}
         /\ calls[m].op # "create" => Item(m) \in Invitation
         /\ calls[m].tenant \in Tenant
<1>1. IsBulk(m)
  BY StepsOfResting DEF CallsShaped, IsBulk, Ended
<1>2. BulkTyped(m) /\ BulkDone(m)
  BY <1>1 DEF BulkInv
<1>3. calls[m].at \in 1 .. Len(calls[m].items)
  BY <1>2 DEF BulkTyped, BulkState, Answered
<1> QED BY <1>1, <1>2, <1>3 DEF BulkTyped, BulkState, Item

(* Sending an answer or an error ends the request, if one is in progress.  *)
LEMMA Ending ==
  ASSUME TypeOK, NEW r \in Request, Finish(r),
         UNCHANGED <<invitations, tenantOf, roles, sweep, purge, provisioned>>
  PROVE  [Next]_vars
<1>1. CASE requests[r] = Idle
  BY <1>1 DEF Finish, Go, TypeOK, vars
<1>2. CASE requests[r] # Idle
  BY <1>2 DEF Fail, Next
<1> QED BY <1>1, <1>2

(* Every step of the composition is a step of Invitations or none.         *)
LEMMA Composes ==
  ASSUME TypeOK, CallsShaped, BulkInv, [MNext]_allVars
  PROVE  [Next]_vars
<1>1. ASSUME NEW m \in Manager, Bulk(m) PROVE [Next]_vars
  <2>1. m \in Request
    BY ManagementAssumption
  <2>2. CASE ReadItem(m)
    <3>1. CASE calls[m].op = "create"
      <4>1. /\ Item(m) \in Email /\ calls[m].tenant \in Tenant
            /\ CheckNoPendingInvitation(m, calls[m].tenant, Item(m))
        BY <2>2, <3>1, BulkItem DEF ReadItem
      <4> QED BY <2>1, <4>1 DEF Next, Administer
    <3>2. CASE calls[m].op # "create"
      <4>1. /\ Item(m) \in Invitation
            /\ \/ ReadInvitation(m, Item(m), "cancelling")
               \/ ReadInvitation(m, Item(m), "resending")
        BY <2>2, <3>2, BulkItem DEF ReadItem
      <4> QED BY <2>1, <4>1 DEF Next, Administer
    <3> QED BY <3>1, <3>2
  <2>3. CASE WriteItem(m)
    BY <2>1, <2>3 DEF WriteItem, Next, Administer
  <2>4. CASE ItemThrows(m)
    BY <2>1, <2>4, Ending DEF ItemThrows
  <2> QED BY <1>1, <2>2, <2>3, <2>4 DEF Bulk, StartBulk, ReadAddress
<1>2. ASSUME NEW m \in Manager, Count(m) PROVE UNCHANGED vars
  BY <1>2 DEF Count, StartStatistics, CountFigure, StartReport, SummariseReport,
              StartListing, ListRows
<1>3. ASSUME NEW m \in Manager, End(m) PROVE [Next]_vars
  BY <1>3, Ending, ManagementAssumption DEF End
<1>4. CASE Others
  BY <1>4 DEF Others, Next
<1>5. CASE UNCHANGED allVars
  BY <1>5 DEF allVars
<1> QED BY <1>1, <1>2, <1>3, <1>4, <1>5 DEF MNext

(* A step is one of a manager's call, or leaves the call and the request   *)
(* of the manager alone.                                                   *)
Acts(m) == Bulk(m) \/ Count(m) \/ End(m)
Rests(m) == calls'[m] = calls[m] /\ requests'[m] = requests[m]

(* An update of a call leaves the others alone.                            *)
LEMMA UpdatesOne ==
  ASSUME CallsShaped, NEW n \in Manager, NEW call, Update(n, call)
  PROVE  calls'[n] = call /\ \A m \in Manager : m # n => calls'[m] = calls[m]
  BY DEF CallsShaped, Update

(* A manager changes its own call ...                                      *)
LEMMA ActsUpdate ==
  ASSUME NEW n, Acts(n)
  PROVE  (\E call : Update(n, call)) \/ UNCHANGED calls
<1> USE DEF Succeed, FailItem, Advance
<1>1. ASSUME Bulk(n) PROVE (\E call : Update(n, call)) \/ UNCHANGED calls
  BY <1>1 DEF Bulk, StartBulk, ReadItem, WriteItem, ReadAddress, ItemThrows
<1>2. ASSUME Count(n) PROVE \E call : Update(n, call)
  BY <1>2 DEF Count, StartStatistics, CountFigure, StartReport, SummariseReport,
              StartListing, ListRows
<1> QED BY <1>1, <1>2 DEF Acts, End

(* ... and its own request only.                                           *)
LEMMA ActsOnOwn ==
  ASSUME NEW n \in Manager, Acts(n)
  PROVE  (\E q : Go(n, q)) \/ UNCHANGED requests
<1>1. ASSUME Bulk(n) PROVE (\E q : Go(n, q)) \/ UNCHANGED requests
  BY <1>1 DEF Bulk, StartBulk, ReadItem, WriteItem, ReadAddress, ItemThrows, Finish, vars,
              CheckNoPendingInvitation, ReadInvitation, InsertInvitation, WriteCancelled,
              WriteResent
<1>2. ASSUME Count(n) PROVE UNCHANGED requests
  BY <1>2 DEF Count, StartStatistics, CountFigure, StartReport, SummariseReport,
              StartListing, ListRows, vars
<1> QED BY <1>1, <1>2 DEF Acts, End, Finish

(* Whatever steps, a manager acts or rests.                                *)
LEMMA ActsOrRests ==
  ASSUME TypeOK, CallsShaped, MNext, NEW m \in Manager
  PROVE  Acts(m) \/ Rests(m)
<1>1. m \in Request
  BY ManagementAssumption
<1>2. ASSUME NEW n \in Manager, n # m, Acts(n) PROVE Rests(m)
  <2>1. calls'[m] = calls[m]
    BY <1>2, ActsUpdate, UpdatesOne
  <2>2. requests'[m] = requests[m]
    BY <1>1, <1>2, ActsOnOwn DEF Go, TypeOK
  <2> QED BY <2>1, <2>2 DEF Rests
<1>3. CASE Others
  <2>1. calls' = calls
    BY <1>3 DEF Others
  <2>2. ASSUME NEW r \in Request \ Manager, Administer(r) \/ Accept(r) \/ Join(r) \/ Fail(r)
        PROVE  requests'[m] = requests[m]
    BY <1>1, <2>2, OnlyOwn
  <2>3. requests'[m] = requests[m]
    BY <1>3, <2>2 DEF Others, DeleteUser, Lapse
  <2> QED BY <2>1, <2>3 DEF Rests
<1> QED BY <1>2, <1>3 DEF MNext, Acts


-----------------------------------------------------------------------------
(* Bulk answers.  How an item that is done or has failed moves the call.   *)
AdvancedTo(c, d) ==
  /\ d \in BulkState
  /\ d.op = c.op /\ d.tenant = c.tenant /\ d.items = c.items /\ d.at = c.at + 1
  /\ d.step = IF c.at = Len(c.items) THEN "answered" ELSE "item"

(* The call moves to its next item or to its answer.                       *)
LEMMA Advancing ==
  ASSUME CallsShaped, NEW m \in Manager, NEW call \in BulkState, Advance(m, call)
  PROVE  /\ AdvancedTo(call, calls'[m])
         /\ calls'[m].successful = call.successful /\ calls'[m].failed = call.failed
<1>1. calls'[m] = [call EXCEPT !.at = call.at + 1,
                     !.step = IF call.at = Len(call.items) THEN "answered" ELSE "item"]
  BY UpdatesOne DEF Advance
<1>2. /\ call.at + 1 \in Nat
      /\ (IF call.at = Len(call.items) THEN "answered" ELSE "item") \in {"item", "answered"}
  BY DEF BulkState
<1> DEFINE step == IF call.at = Len(call.items) THEN "answered" ELSE "item"
           next == [call EXCEPT !.at = call.at + 1, !.step = step]
<1>3. step \in {"item", "answered"}
  BY <1>2
<1>4. /\ next \in BulkState
      /\ next.op = call.op /\ next.tenant = call.tenant /\ next.items = call.items
      /\ next.at = call.at + 1 /\ next.step = step
      /\ next.successful = call.successful /\ next.failed = call.failed
  <2> HIDE DEF step
  <2> QED BY <1>2, <1>3 DEF BulkState
<1> HIDE DEF next
<1>5. calls'[m] = next
  BY <1>1 DEF next
<1> QED BY <1>4, <1>5 DEF AdvancedTo

(* An item done is named.                                                  *)
LEMMA Succeeding ==
  ASSUME CallsShaped, NEW m \in Manager, calls[m] \in BulkState, NEW i \in Invitation,
         Succeed(m, i)
  PROVE  /\ AdvancedTo(calls[m], calls'[m])
         /\ calls'[m].successful = Append(calls[m].successful, i)
         /\ calls'[m].failed = calls[m].failed
<1> DEFINE call == [calls[m] EXCEPT !.successful = Append(calls[m].successful, i)]
<1>1. Append(calls[m].successful, i) \in Seq(Invitation)
  BY DEF BulkState
<1>2. /\ call \in BulkState /\ call.successful = Append(calls[m].successful, i)
      /\ call.op = calls[m].op /\ call.tenant = calls[m].tenant /\ call.items = calls[m].items
      /\ call.at = calls[m].at /\ call.failed = calls[m].failed
  BY <1>1 DEF BulkState
<1>3. Advance(m, call)
  BY DEF Succeed
<1> HIDE DEF call
<1> QED BY <1>2, <1>3, Advancing DEF AdvancedTo

(* An item that failed is counted.                                         *)
LEMMA Failing ==
  ASSUME CallsShaped, NEW m \in Manager, calls[m] \in BulkState, FailItem(m)
  PROVE  /\ AdvancedTo(calls[m], calls'[m])
         /\ calls'[m].successful = calls[m].successful
         /\ calls'[m].failed = calls[m].failed + 1
<1> DEFINE call == [calls[m] EXCEPT !.failed = calls[m].failed + 1]
<1>1. /\ call \in BulkState /\ call.successful = calls[m].successful
      /\ call.op = calls[m].op /\ call.tenant = calls[m].tenant /\ call.items = calls[m].items
      /\ call.at = calls[m].at /\ call.failed = calls[m].failed + 1
  BY DEF BulkState
<1>2. Advance(m, call)
  BY DEF FailItem
<1> HIDE DEF call
<1> QED BY <1>1, <1>2, Advancing DEF AdvancedTo

(* Either way, items and answers still add up.                             *)
LEMMA TypedAdvances ==
  ASSUME NEW m, BulkTyped(m), calls[m].step \in {"item", "reading"},
         AdvancedTo(calls[m], calls'[m]),
         \/ /\ \E i \in Invitation : calls'[m].successful = Append(calls[m].successful, i)
            /\ calls'[m].failed = calls[m].failed
         \/ /\ calls'[m].successful = calls[m].successful
            /\ calls'[m].failed = calls[m].failed + 1
  PROVE  IsBulk(m)' /\ BulkTyped(m)' /\ calls'[m].step # "reading"
<1> DEFINE c == calls[m]
           d == calls'[m]
<1>1. c \in BulkState /\ d \in BulkState
  BY DEF BulkTyped, AdvancedTo
<1>2. Len(d.successful) + d.failed = Len(c.successful) + c.failed + 1
  <2>1. Len(c.successful) \in Nat /\ c.failed \in Nat /\ d.failed \in Nat
    BY <1>1 DEF BulkState
  <2>2. \A i \in Invitation : Len(Append(c.successful, i)) = Len(c.successful) + 1
    BY <1>1 DEF BulkState
  <2>3. CASE d.successful = c.successful /\ d.failed = c.failed + 1
    BY <2>1, <2>3
  <2>4. ASSUME NEW i \in Invitation, d.successful = Append(c.successful, i), d.failed = c.failed
        PROVE  Len(d.successful) + d.failed = Len(c.successful) + c.failed + 1
    <3>1. Len(d.successful) = Len(c.successful) + 1
      BY <2>2, <2>4
    <3>2. d.failed = c.failed
      BY <2>4
    <3> HIDE DEF c, d
    <3> QED BY <2>1, <3>1, <3>2
  <2> QED BY <2>3, <2>4
<1>3. Len(d.successful) + d.failed = d.at - 1 /\ d.at >= 1
  BY <1>1, <1>2 DEF BulkTyped, AdvancedTo, BulkState
<1>4. IF d.step = "answered" THEN d.at = Len(d.items) + 1 ELSE d.at <= Len(d.items)
  BY <1>1 DEF BulkTyped, AdvancedTo, BulkState, Answered
<1>5. d.step \in {"item", "answered"}
  BY DEF AdvancedTo
<1> QED BY <1>1, <1>3, <1>4, <1>5 DEF BulkTyped, AdvancedTo, Answered, IsBulk, Ended, BulkState

(* What was done stays done, whoever steps.                                *)
LEMMA DoneStays ==
  ASSUME RowsKept, NEW m, BulkTyped(m), BulkDone(m),
         calls'[m].op = calls[m].op, calls'[m].items = calls[m].items,
         calls'[m].successful = calls[m].successful,
         calls'[m].at \in Nat, calls'[m].at >= calls[m].at
  PROVE  BulkDone(m)'
<1> PICK done : done = calls[m].successful
  OBVIOUS
<1>1. done \in Seq(Invitation) /\ calls[m].at \in Nat
  BY DEF BulkTyped, BulkState
<1>2. \A k \in DOMAIN done : done[k] \in Invitation
  BY <1>1
<1>3. \A k \in DOMAIN done : Known(done[k])'
  BY <1>2 DEF BulkDone, RowsKept
<1>4. calls[m].op = "cancel" => \A k \in DOMAIN done : ClosedForGood(done[k])'
  BY <1>2 DEF BulkDone, RowsKept
<1>5. calls[m].op = "resend" => \A k \in DOMAIN done : LinkReplaced(done[k])'
  BY <1>2 DEF BulkDone, RowsKept
<1>6. calls[m].op = "create" => \A k \in DOMAIN done :
        \E j \in 1 .. calls'[m].at - 1 : calls[m].items[j] = done[k].email
  <2> PICK p \in Nat : p = calls'[m].at
    OBVIOUS
  <2>1. 1 .. calls[m].at - 1 \subseteq 1 .. p - 1
    BY <1>1
  <2> QED BY <2>1 DEF BulkDone
<1> QED BY <1>3, <1>4, <1>5, <1>6 DEF BulkDone

(* One more is done, of which the same can be said.                        *)
LEMMA DoneGrows ==
  ASSUME RowsKept, NEW m, BulkTyped(m), BulkDone(m), NEW i \in Invitation,
         AdvancedTo(calls[m], calls'[m]),
         calls'[m].successful = Append(calls[m].successful, i),
         Known(i)',
         calls[m].op = "create" =>
           /\ i.email = Item(m)
           /\ \A j \in 1 .. calls[m].at - 1 : calls[m].items[j] # Item(m),
         calls[m].op = "cancel" =>
           ClosedForGood(i)' /\ \A k \in DOMAIN calls[m].successful : calls[m].successful[k] # i,
         calls[m].op = "resend" => LinkReplaced(i)'
  PROVE  BulkDone(m)'
<1> PICK done : done = calls[m].successful
  OBVIOUS
<1> DEFINE c == calls[m]
           all == Append(done, i)
<1>1. done \in Seq(Invitation) /\ c.at \in Nat /\ c.at >= 1 /\ calls'[m].at = c.at + 1
  BY DEF BulkTyped, BulkState, AdvancedTo
<1>2. /\ DOMAIN all = 1 .. Len(done) + 1 /\ DOMAIN done = 1 .. Len(done) /\ Len(done) \in Nat
      /\ all[Len(done) + 1] = i
      /\ \A k \in DOMAIN done : all[k] = done[k] /\ done[k] \in Invitation
  BY <1>1
<1>3. \A k \in DOMAIN all : k \in DOMAIN done \/ all[k] = i
  BY <1>2
<1>4. \A k \in DOMAIN all : Known(all[k])'
  <2>1. \A k \in DOMAIN done : Known(done[k])'
    BY <1>2 DEF BulkDone, RowsKept
  <2> QED BY <1>2, <1>3, <2>1
<1>5. ASSUME c.op = "cancel"
      PROVE  /\ \A k \in DOMAIN all : ClosedForGood(all[k])'
             /\ \A k, l \in DOMAIN all : k # l => all[k] # all[l]
  <2>1. \A k \in DOMAIN done : ClosedForGood(done[k])'
    BY <1>2, <1>5 DEF BulkDone, RowsKept
  <2>2. \A k, l \in DOMAIN done : k # l => done[k] # done[l]
    BY <1>5 DEF BulkDone
  <2>3. \A k \in DOMAIN done : done[k] # i
    BY <1>5
  <2>4. \A k \in DOMAIN all : ClosedForGood(all[k])'
    BY <1>2, <1>3, <1>5, <2>1
  <2> HIDE DEF all
  <2>5. \A k, l \in DOMAIN all : k # l => all[k] # all[l]
    BY <1>2, <2>2, <2>3
  <2> QED BY <2>4, <2>5
<1>6. ASSUME c.op = "resend" PROVE \A k \in DOMAIN all : LinkReplaced(all[k])'
  <2>1. \A k \in DOMAIN done : LinkReplaced(done[k])'
    BY <1>2, <1>6 DEF BulkDone, RowsKept
  <2> QED BY <1>2, <1>3, <1>6, <2>1
<1>7. ASSUME c.op = "create"
      PROVE  /\ \A k \in DOMAIN all : \E j \in 1 .. c.at : c.items[j] = all[k].email
             /\ \A k, l \in DOMAIN all : k # l => all[k].email # all[l].email
  <2>1. \A k \in DOMAIN done : \E j \in 1 .. c.at - 1 : c.items[j] = done[k].email
    BY <1>7 DEF BulkDone
  <2>2. \A k, l \in DOMAIN done : k # l => done[k].email # done[l].email
    BY <1>7 DEF BulkDone
  <2>3. i.email = c.items[c.at] /\ \A j \in 1 .. c.at - 1 : c.items[j] # i.email
    BY <1>7 DEF Item
  <2>4. \A k \in DOMAIN done : done[k].email # i.email
    BY <2>1, <2>3
  <2> HIDE DEF all
  <2>5. \A k \in DOMAIN all : \E j \in 1 .. c.at : c.items[j] = all[k].email
    <3> SUFFICES ASSUME NEW k \in DOMAIN all
                 PROVE  \E j \in 1 .. c.at : c.items[j] = all[k].email
      OBVIOUS
    <3>1. CASE k \in DOMAIN done
      BY <1>1, <1>2, <2>1, <3>1
    <3>2. CASE all[k] = i
      BY <1>1, <2>3, <3>2
    <3> QED BY <1>3, <3>1, <3>2
  <2>6. \A k, l \in DOMAIN all : k # l => all[k].email # all[l].email
    <3> SUFFICES ASSUME NEW k \in DOMAIN all, NEW l \in DOMAIN all, k # l
                 PROVE  all[k].email # all[l].email
      OBVIOUS
    <3>1. CASE k \in DOMAIN done /\ l \in DOMAIN done
      BY <1>2, <2>2, <3>1
    <3>2. CASE k \in DOMAIN done /\ l = Len(done) + 1
      BY <1>2, <2>4, <3>2
    <3>3. CASE k = Len(done) + 1 /\ l \in DOMAIN done
      BY <1>2, <2>4, <3>3
    <3> QED BY <1>2, <3>1, <3>2, <3>3
  <2> QED BY <2>5, <2>6
<1>8. /\ calls'[m].successful = all /\ calls'[m].op = c.op /\ calls'[m].items = c.items
      /\ calls'[m].at - 1 = c.at
  BY <1>1 DEF AdvancedTo
<1> HIDE DEF all
<1> QED BY <1>4, <1>5, <1>6, <1>7, <1>8 DEF BulkDone


(* What holds of one manager.                                              *)
CallInv(m) == RequestFollows(m) /\ (IsBulk(m) => BulkTyped(m) /\ BulkDone(m))

(* A call that has moved on, and whose request is over.                    *)
LEMMA MovedOn ==
  ASSUME TypeOK, NEW m \in Manager, Finish(m),
         IsBulk(m)', calls'[m].step # "reading", BulkTyped(m)', BulkDone(m)'
  PROVE  CallInv(m)'
<1>1. requests'[m] = Idle
  BY ManagementAssumption DEF Finish, Go, TypeOK
<1> QED BY <1>1 DEF CallInv, RequestFollows

(* A bulk call starts with nothing done and no request.                    *)
LEMMA StartBulkStep ==
  ASSUME TypeOK, CallsShaped, BulkInv, NEW m \in Manager, NEW op \in BulkOp, NEW tenant \in Tenant,
         NEW list, IF op = "create" THEN list \in EmailList ELSE list \in IdList,
         StartBulk(m, op, tenant, list)
  PROVE  CallInv(m)'
<1> DEFINE items == IF op = "create" THEN Distinct(list) ELSE list
           c == BulkCall(op, tenant, items)
<1>1. Len(list) >= 1
  BY ManagementAssumption DEF StartBulk
<1>2. /\ items \in Seq(Email \cup {Malformed}) \cup Seq(Invitation)
      /\ Len(items) >= 1 /\ Len(items) \in Nat
      /\ op = "create" => /\ items \in Seq(Email \cup {Malformed})
                          /\ \A k, l \in DOMAIN items : k # l => items[k] # items[l]
      /\ op # "create" => items \in Seq(Invitation)
  <2>1. CASE op = "create"
    <3>1. list \in Seq(Email \cup {Malformed})
      BY <2>1, ManagementAssumption
    <3> QED BY <1>1, <2>1, <3>1, DistinctDiffer
  <2>2. CASE op # "create"
    <3>1. list \in Seq(Invitation)
      BY <2>2, ManagementAssumption
    <3> QED BY <1>1, <2>2, <3>1
  <2> QED BY <2>1, <2>2
<1>3. calls'[m] = c /\ requests' = requests
  <2>1. Update(m, c)
    BY DEF StartBulk
  <2> QED BY <2>1, UpdatesOne DEF StartBulk, vars
<1> HIDE DEF items
<1>4. /\ c \in BulkState
      /\ c.op = op /\ c.items = items /\ c.at = 1 /\ c.successful = <<>> /\ c.failed = 0
      /\ c.step = "item"
  BY <1>2 DEF BulkCall, BulkState
<1> HIDE DEF c
<1>5. IsBulk(m)' /\ BulkTyped(m)'
  BY <1>2, <1>3, <1>4 DEF IsBulk, Ended, BulkTyped, Answered
<1>6. BulkDone(m)'
  BY <1>3, <1>4 DEF BulkDone
<1>7. requests[m] = Idle
  BY DEF BulkInv, RequestFollows, StartBulk, NoCall
<1> QED BY <1>3, <1>4, <1>5, <1>6, <1>7 DEF CallInv, RequestFollows

(* Reading a row makes the request about the present item.                 *)
LEMMA ReadItemStep ==
  ASSUME TypeOK, CallsShaped, BulkInv, RowsKept, NEW m \in Manager, ReadItem(m)
  PROVE  CallInv(m)'
<1>1. m \in Request
  BY ManagementAssumption
<1>2. /\ IsBulk(m) /\ BulkTyped(m) /\ BulkDone(m) /\ calls[m].step = "item"
      /\ calls[m].op # "create" => Item(m) \in Invitation
  BY BulkItem DEF ReadItem
<1>3. calls' = calls /\ Item(m)' = Item(m)
  BY DEF ReadItem, Item
<1>4. IsBulk(m)' /\ BulkTyped(m)'
  BY <1>2, <1>3 DEF IsBulk, Ended, BulkTyped, Answered
<1>5. BulkDone(m)'
  BY <1>2, <1>3, DoneStays DEF BulkTyped, BulkState
<1>6. RequestFollows(m)'
  <2>1. CASE calls[m].op = "create"
    <3>1. requests'[m] = [step |-> "inserting", tenant |-> calls[m].tenant, email |-> Item(m)]
      BY <1>1, <2>1 DEF ReadItem, CheckNoPendingInvitation, Go, TypeOK
    <3> QED BY <1>2, <1>3, <1>4, <2>1, <3>1 DEF RequestFollows
  <2>2. CASE calls[m].op = "cancel"
    <3>1. /\ requests'[m] = [step |-> "cancelling", inv |-> Item(m)]
          /\ Pending(Item(m)) /\ UNCHANGED invitations
      BY <1>1, <2>2 DEF ReadItem, ReadInvitation, Go, TypeOK
    <3>2. \A k \in DOMAIN calls[m].successful : calls[m].successful[k] # Item(m)
      BY <1>2, <2>2, <3>1 DEF BulkDone, ClosedForGood, Pending, Closed
    <3>3. Known(Item(m))'
      BY <1>3, <3>1 DEF Known, Pending, Status
    <3> QED BY <1>2, <1>3, <1>4, <2>2, <3>1, <3>2, <3>3 DEF RequestFollows
  <2>3. CASE calls[m].op = "resend"
    <3>1. /\ requests'[m] = [step |-> "resending", inv |-> Item(m)]
          /\ Pending(Item(m)) /\ UNCHANGED invitations
      BY <1>1, <2>3 DEF ReadItem, ReadInvitation, Go, TypeOK
    <3>2. Known(Item(m))'
      BY <1>3, <3>1 DEF Known, Pending, Status
    <3> QED BY <1>2, <1>3, <1>4, <2>3, <3>1, <3>2 DEF RequestFollows
  <2> QED BY <1>2, <2>1, <2>2, <2>3 DEF BulkTyped, BulkState, BulkOp
<1> QED BY <1>4, <1>5, <1>6 DEF CallInv

(* An item that throws ends its request and nothing else.                  *)
LEMMA ItemThrowsStep ==
  ASSUME TypeOK, CallsShaped, BulkInv, RowsKept, NEW m \in Manager, ItemThrows(m)
  PROVE  CallInv(m)'
<1>1. IsBulk(m) /\ BulkTyped(m) /\ BulkDone(m) /\ calls[m].step \in {"item", "reading"}
  BY BulkItem DEF ItemThrows
<1>2. /\ AdvancedTo(calls[m], calls'[m])
      /\ calls'[m].successful = calls[m].successful
      /\ calls'[m].failed = calls[m].failed + 1
  BY <1>1, Failing DEF ItemThrows, BulkTyped
<1>3. IsBulk(m)' /\ BulkTyped(m)' /\ calls'[m].step # "reading"
  BY <1>1, <1>2, TypedAdvances
<1>4. BulkDone(m)'
  <2>1. /\ calls'[m].op = calls[m].op /\ calls'[m].items = calls[m].items
        /\ calls'[m].at = calls[m].at + 1 /\ calls[m].at \in Nat
    BY <1>1, <1>2 DEF AdvancedTo, BulkTyped, BulkState
  <2>2. calls'[m].at \in Nat /\ calls'[m].at >= calls[m].at
    BY <2>1
  <2> QED BY <1>1, <1>2, <2>1, <2>2, DoneStays
<1> QED BY <1>3, <1>4, MovedOn DEF ItemThrows

(* What is named was done, though its row may be gone.                     *)
LEMMA ReadAddressStep ==
  ASSUME TypeOK, CallsShaped, BulkInv, RowsKept, NEW m \in Manager, ReadAddress(m)
  PROVE  CallInv(m)'
<1>1. /\ IsBulk(m) /\ BulkTyped(m) /\ BulkDone(m) /\ calls[m].step = "reading"
      /\ calls[m].op \in {"cancel", "resend"} /\ Item(m) \in Invitation
  <2>1. /\ IsBulk(m) /\ BulkTyped(m) /\ BulkDone(m) /\ calls[m].step = "reading"
        /\ calls[m].op # "create" => Item(m) \in Invitation
    BY BulkItem DEF ReadAddress
  <2> QED BY <2>1 DEF BulkTyped, BulkState, BulkOp
<1> PICK i \in Invitation : i = Item(m)
  BY <1>1
<1>2. /\ AdvancedTo(calls[m], calls'[m])
      /\ calls'[m].successful = Append(calls[m].successful, i)
      /\ calls'[m].failed = calls[m].failed
  BY <1>1, Succeeding DEF ReadAddress, BulkTyped
<1>3. IsBulk(m)' /\ BulkTyped(m)' /\ calls'[m].step # "reading"
  BY <1>1, <1>2, TypedAdvances
<1>4. /\ calls[m].op = "cancel" =>
           /\ ClosedForGood(i)
           /\ \A k \in DOMAIN calls[m].successful : calls[m].successful[k] # i
      /\ calls[m].op = "resend" => LinkReplaced(i)
  BY <1>1 DEF BulkInv, RequestFollows
<1>5. BulkDone(m)'
  <2>1. Known(i)
    BY <1>1, <1>4 DEF ClosedForGood, LinkReplaced, Known, Closed
  <2>2. /\ Known(i)'
        /\ calls[m].op = "cancel" => ClosedForGood(i)'
        /\ calls[m].op = "resend" => LinkReplaced(i)'
    BY <1>4, <2>1 DEF RowsKept
  <2> QED BY <1>1, <1>2, <1>4, <2>1, <2>2, DoneGrows DEF RowsKept
<1>6. requests'[m] = Idle
  BY <1>1 DEF BulkInv, RequestFollows, ReadAddress, vars
<1> QED BY <1>3, <1>5, <1>6 DEF CallInv, RequestFollows

(* The write of a cancellation or a resending, before its address is read. *)
LEMMA ReadingStep ==
  ASSUME TypeOK, CallsShaped, RowsKept, NEW m \in Manager, IsBulk(m), BulkTyped(m), BulkDone(m),
         calls[m].step = "item", calls[m].op # "create",
         Update(m, [calls[m] EXCEPT !.step = "reading"]), Finish(m),
         calls[m].op = "cancel" => /\ ClosedForGood(Item(m))'
                                   /\ \A k \in DOMAIN calls[m].successful :
                                        calls[m].successful[k] # calls[m].items[calls[m].at],
         calls[m].op = "resend" => LinkReplaced(Item(m))'
  PROVE  CallInv(m)'
<1> DEFINE c == [calls[m] EXCEPT !.step = "reading"]
<1>1. calls'[m] = c
  BY UpdatesOne
<1>2. /\ c \in BulkState /\ c.step = "reading"
      /\ c.op = calls[m].op /\ c.items = calls[m].items /\ c.at = calls[m].at
      /\ c.successful = calls[m].successful /\ c.failed = calls[m].failed
  BY DEF BulkTyped, BulkState
<1> HIDE DEF c
<1>3. IsBulk(m)' /\ BulkTyped(m)'
  BY <1>1, <1>2 DEF IsBulk, Ended, BulkTyped, Answered, BulkState
<1>4. BulkDone(m)'
  BY <1>1, <1>2, DoneStays DEF BulkTyped, BulkState
<1>5. requests'[m] = Idle
  BY ManagementAssumption DEF Finish, Go, TypeOK
<1>6. RequestFollows(m)'
  BY <1>1, <1>2, <1>5 DEF RequestFollows, Item
<1> QED BY <1>3, <1>4, <1>6 DEF CallInv

(* An item is named only after its write.                                  *)
LEMMA WriteItemStep ==
  ASSUME TypeOK, CallsShaped, BulkInv, RowsKept, NEW m \in Manager, WriteItem(m)
  PROVE  CallInv(m)'
<1>1. m \in Request
  BY ManagementAssumption
<1>2. /\ IsBulk(m) /\ BulkTyped(m) /\ BulkDone(m) /\ calls[m].step = "item"
      /\ calls[m].op # "create" => Item(m) \in Invitation
  BY BulkItem DEF WriteItem
<1>3. RequestFollows(m)
  BY DEF BulkInv
<1>4. ASSUME NEW i \in Invitation, InsertInvitation(m, i), Succeed(m, i)
      PROVE  CallInv(m)'
  <2>1. calls[m].op = "create" /\ i.email = Item(m)
    BY <1>2, <1>3, <1>4 DEF RequestFollows, InsertInvitation, At, Idle
  <2>2. /\ AdvancedTo(calls[m], calls'[m])
        /\ calls'[m].successful = Append(calls[m].successful, i)
        /\ calls'[m].failed = calls[m].failed
    BY <1>2, <1>4, Succeeding DEF BulkTyped
  <2>3. IsBulk(m)' /\ BulkTyped(m)' /\ calls'[m].step # "reading"
    BY <1>2, <2>2, TypedAdvances
  <2>4. Known(i)'
    BY <1>4, RowConstants DEF InsertInvitation, Known, Status, TypeOK
  <2>5. \A j \in 1 .. calls[m].at - 1 : calls[m].items[j] # Item(m)
    BY <1>2, <2>1 DEF BulkTyped, BulkState, Item, Answered
  <2>6. BulkDone(m)'
    BY <1>2, <2>1, <2>2, <2>4, <2>5, DoneGrows
  <2>7. Finish(m)
    BY <1>4 DEF InsertInvitation
  <2> QED BY <2>3, <2>6, <2>7, MovedOn
<1>5. ASSUME WriteCancelled(m), Update(m, [calls[m] EXCEPT !.step = "reading"])
      PROVE  CallInv(m)'
  <2>1. /\ calls[m].op = "cancel" /\ requests[m].inv = Item(m)
        /\ \A k \in DOMAIN calls[m].successful : calls[m].successful[k] # Item(m)
    BY <1>2, <1>3, <1>5 DEF RequestFollows, WriteCancelled, At, Idle
  <2> PICK i \in Invitation : i = Item(m)
    BY <1>2, <2>1
  <2>2. Status(i)' = "CANCELLED"
    <3>1. SetStatus(i, "CANCELLED")
      BY <1>5, <2>1 DEF WriteCancelled
    <3> QED BY <3>1, SetStatusTypeOK DEF InvitationStatus, Closed
  <2>3. calls'[m] = [calls[m] EXCEPT !.step = "reading"]
    BY <1>5, UpdatesOne
  <2>4. Item(m)' = i
    BY <1>2, <2>3 DEF Item, BulkTyped, BulkState
  <2>5. ClosedForGood(Item(m))'
    BY <2>2, <2>4 DEF ClosedForGood, Status, Closed
  <2>6. Finish(m)
    BY <1>5 DEF WriteCancelled
  <2> QED BY <1>2, <1>5, <2>1, <2>5, <2>6, ReadingStep DEF Item
<1>6. ASSUME WriteResent(m), Update(m, [calls[m] EXCEPT !.step = "reading"])
      PROVE  CallInv(m)'
  <2>1. calls[m].op = "resend" /\ requests[m].inv = Item(m)
    BY <1>2, <1>3, <1>6 DEF RequestFollows, WriteResent, At, Idle
  <2> PICK i \in Invitation : i = Item(m)
    BY <1>2, <2>1
  <2>2. invitations'[i].token > 0 /\ Status(i)' = Status(i) /\ Stored(i)
    BY <1>6, <2>1 DEF WriteResent, TypeOK, InvitationRow, Status
  <2>3. calls'[m] = [calls[m] EXCEPT !.step = "reading"]
    BY <1>6, UpdatesOne
  <2>4. Item(m)' = i
    BY <1>2, <2>3 DEF Item, BulkTyped, BulkState
  <2>5. LinkReplaced(i)'
    BY <2>2 DEF LinkReplaced, Known, Stored, InvitationStatus, Closed
  <2>6. LinkReplaced(Item(m))'
    BY <2>4, <2>5 DEF LinkReplaced, Known, Stored, Status
  <2>7. Finish(m)
    BY <1>6 DEF WriteResent
  <2> QED BY <1>2, <1>6, <2>1, <2>6, <2>7, ReadingStep
<1> QED BY <1>4, <1>5, <1>6 DEF WriteItem

(* While a manager rests, nothing others do makes its call untrue.         *)
LEMMA RestsStep ==
  ASSUME TypeOK, CallsShaped, BulkInv, RowsKept, NEW m \in Manager, Rests(m)
  PROVE  CallInv(m)'
<1>1. RequestFollows(m) /\ (IsBulk(m) => BulkTyped(m) /\ BulkDone(m))
  BY DEF BulkInv
<1>2. calls'[m] = calls[m] /\ requests'[m] = requests[m] /\ Item(m)' = Item(m)
  BY DEF Rests, Item
<1>3. ASSUME IsBulk(m) PROVE BulkTyped(m)' /\ BulkDone(m)'
  <2>1. BulkTyped(m)'
    BY <1>1, <1>2, <1>3 DEF BulkTyped, Answered
  <2>2. calls[m].at \in Nat
    BY <1>1, <1>3 DEF BulkTyped, BulkState
  <2> QED BY <1>1, <1>2, <1>3, <2>1, <2>2, DoneStays
<1>4. RequestFollows(m)'
  <2>1. ASSUME IsBulk(m), calls[m].step \in {"item", "reading"}, calls[m].op # "create"
        PROVE  /\ Known(Item(m)) => Known(Item(m))'
               /\ ClosedForGood(Item(m)) => ClosedForGood(Item(m))'
               /\ LinkReplaced(Item(m)) => LinkReplaced(Item(m))'
    <3> PICK i \in Invitation : i = Item(m)
      BY <2>1, BulkItem
    <3>1. Item(m)' = i
      BY <1>2
    <3>2. /\ Known(i) => Known(i)'
          /\ ClosedForGood(i) => ClosedForGood(i)'
          /\ LinkReplaced(i) => LinkReplaced(i)'
      BY DEF RowsKept
    <3> QED BY <3>1, <3>2 DEF Known, ClosedForGood, LinkReplaced, Stored, Status
  <2>2. CASE IsBulk(m) /\ calls[m].step \in {"item", "reading"} /\ calls[m].op # "create"
    BY <1>1, <1>2, <2>1, <2>2 DEF RequestFollows, IsBulk, Ended
  <2>3. CASE ~(IsBulk(m) /\ calls[m].step \in {"item", "reading"} /\ calls[m].op # "create")
    BY <1>1, <1>2, <2>3 DEF RequestFollows, IsBulk, Ended
  <2> QED BY <2>2, <2>3
<1> QED BY <1>2, <1>3, <1>4 DEF CallInv, IsBulk, Ended


-----------------------------------------------------------------------------
(* Figures.  The rows of a tenant, counted by status or by age.            *)
LEMMA RowsFinite ==
  ASSUME FinitelyStored, NEW tenant
  PROVE  IsFiniteSet(Rows(tenant)) /\ Cardinality(Rows(tenant)) \in Nat
<1>1. Rows(tenant) \in SUBSET {i \in Invitation : Stored(i)}
  BY DEF Rows
<1> QED BY <1>1, FS_Subset, FS_CardinalityType DEF FinitelyStored

(* The four statuses add up to all rows.                                   *)
LEMMA TotalCounts ==
  ASSUME NEW rows, IsFiniteSet(rows), \A i \in rows : Stored(i)
  PROVE  Total(ByStatus(rows)) = Cardinality(rows)
<1> DEFINE Of(s) == {i \in rows : Status(i) = s}
<1>1. ASSUME NEW s PROVE IsFiniteSet(Of(s)) /\ Cardinality(Of(s)) \in Nat
  <2>1. Of(s) \in SUBSET rows
    OBVIOUS
  <2> QED BY <2>1, FS_Subset, FS_CardinalityType
<1>2. \A s \in InvitationStatus : ByStatus(rows)[s] = Cardinality(Of(s))
  BY DEF ByStatus
<1>3. Total(ByStatus(rows)) =
        Cardinality(Of("PENDING")) + Cardinality(Of("ACCEPTED"))
          + Cardinality(Of("CANCELLED")) + Cardinality(Of("EXPIRED"))
  BY <1>2 DEF Total, InvitationStatus, Closed
<1>4. rows = ((Of("PENDING") \cup Of("ACCEPTED")) \cup Of("CANCELLED")) \cup Of("EXPIRED")
  BY DEF Stored, InvitationStatus, Closed
<1>5. ASSUME NEW A, NEW B, IsFiniteSet(A), IsFiniteSet(B), A \cap B = {}
      PROVE  /\ IsFiniteSet(A \cup B)
             /\ Cardinality(A \cup B) = Cardinality(A) + Cardinality(B)
  <2>1. Cardinality(A \cap B) = 0
    BY <1>5, FS_EmptySet
  <2>2. /\ IsFiniteSet(A \cup B)
        /\ Cardinality(A \cup B) = Cardinality(A) + Cardinality(B) - Cardinality(A \cap B)
    BY <1>5, FS_Union
  <2>3. Cardinality(A) \in Nat /\ Cardinality(B) \in Nat
    BY <1>5, FS_CardinalityType
  <2> QED BY <2>1, <2>2, <2>3
<1>6. /\ Of("PENDING") \cap Of("ACCEPTED") = {}
      /\ (Of("PENDING") \cup Of("ACCEPTED")) \cap Of("CANCELLED") = {}
      /\ ((Of("PENDING") \cup Of("ACCEPTED")) \cup Of("CANCELLED")) \cap Of("EXPIRED") = {}
  OBVIOUS
<1> HIDE DEF Of
<1> DEFINE A == Of("PENDING") \cup Of("ACCEPTED")
           B == A \cup Of("CANCELLED")
<1>7. IsFiniteSet(A) /\ Cardinality(A) = Cardinality(Of("PENDING")) + Cardinality(Of("ACCEPTED"))
  BY <1>1, <1>5, <1>6
<1>8. IsFiniteSet(B) /\ Cardinality(B) = Cardinality(A) + Cardinality(Of("CANCELLED"))
  <2>1. A \cap Of("CANCELLED") = {}
    BY <1>6
  <2> HIDE DEF A
  <2> QED BY <2>1, <1>1, <1>5, <1>7
<1>9. Cardinality(B \cup Of("EXPIRED")) = Cardinality(B) + Cardinality(Of("EXPIRED"))
  <2>1. B \cap Of("EXPIRED") = {}
    BY <1>6
  <2> HIDE DEF A, B
  <2> QED BY <2>1, <1>1, <1>5, <1>8
<1> QED BY <1>1, <1>3, <1>4, <1>7, <1>8, <1>9

(* The rows are those in the window and those before it.                   *)
LEMMA SentCounts ==
  ASSUME NEW rows, IsFiniteSet(rows), NEW cutoff \in SUBSET rows
  PROVE  Cardinality(rows) = Cardinality(rows \ cutoff) + Cardinality(cutoff)
<1>1. Cardinality(rows \ cutoff) = Cardinality(rows) - Cardinality(rows \cap cutoff)
  BY FS_Difference
<1>2. rows \cap cutoff = cutoff
  OBVIOUS
<1>3. Cardinality(rows) \in Nat /\ Cardinality(cutoff) \in Nat
  BY FS_Subset, FS_CardinalityType
<1> QED BY <1>1, <1>2, <1>3

(* Whatever is marked accepted had its roles given.                        *)
LEMMA AcceptedAreSent ==
  ASSUME TypeOK, AcceptedWasProvisioned, FinitelyStored, NEW tenant,
         NEW cutoff, cutoff \cap provisioned = {}
  PROVE  Counted("accepted", tenant, cutoff) <= Cardinality(Rows(tenant) \ cutoff)
<1> DEFINE accepted == {i \in Rows(tenant) : Status(i) = "ACCEPTED"}
<1>1. Counted("accepted", tenant, cutoff) = Cardinality(accepted)
  BY DEF Counted
<1>2. accepted \in SUBSET (Rows(tenant) \ cutoff)
  BY DEF AcceptedWasProvisioned, Rows
<1>3. IsFiniteSet(Rows(tenant) \ cutoff)
  BY RowsFinite, FS_Difference
<1> QED BY <1>1, <1>2, <1>3, FS_Subset

(* The history of a call that counts remembers whether rows came or went   *)
(* and whether a status changed.                                           *)
LEMMA Watching ==
  ASSUME CallsShaped, WatchCalls, NEW m \in Manager, calls[m].step = "counting"
  PROVE  /\ disturbed[m] \subseteq disturbed'[m]
         /\ "rows" \notin disturbed'[m] => \A tenant : Rows(tenant)' = Rows(tenant)
         /\ "status" \notin disturbed'[m] => \A i \in Invitation : Status(i)' = Status(i)
<1>1. disturbed'[m] = disturbed[m] \cup Disturbances
  BY DEF WatchCalls
<1>2. "rows" \notin disturbed'[m] =>
        {i \in Invitation : Stored(i)'} = {i \in Invitation : Stored(i)}
  BY <1>1 DEF Disturbances
<1>3. "status" \notin disturbed'[m] => \A i \in Invitation : Status(i)' = Status(i)
  BY <1>1 DEF Disturbances
<1>4. ASSUME NEW tenant,
             {i \in Invitation : Stored(i)'} = {i \in Invitation : Stored(i)}
      PROVE  Rows(tenant)' = Rows(tenant)
  BY <1>4 DEF Rows
<1> QED BY <1>1, <1>2, <1>3, <1>4

(* As long as no status changes, a where clause finds the same rows.       *)
LEMMA MatchingKept ==
  ASSUME \A i \in Invitation : Status(i)' = Status(i), NEW tenant, NEW where
  PROVE  /\ Matching(tenant, where)' = Matching(tenant, where)
         /\ StatusList(Matching(tenant, where))' = StatusList(Matching(tenant, where))
<1>1. \A i \in Invitation : Stored(i)' <=> Stored(i)
  BY DEF Stored
<1>2. Rows(tenant)' = Rows(tenant)
  BY <1>1 DEF Rows
<1>3. Rows(tenant) \subseteq Invitation
  BY DEF Rows
<1>4. Matching(tenant, where)' = Matching(tenant, where)
  BY <1>2, <1>3 DEF Matching
<1>5. Matching(tenant, where) \subseteq Invitation
  BY <1>3 DEF Matching
<1> QED BY <1>4, <1>5 DEF StatusList


-----------------------------------------------------------------------------
(* What a step does to the figures of a call.                              *)
FigureInv(m) ==
  FiguresFit(m) /\ (Answered(m) /\ "rows" \notin disturbed[m] => FiguresFitTogether(m))

(* The shape of a bulk call ...                                            *)
BulkShaped(c) == c.step \in {"item", "reading", "answered"} /\ c.op \in BulkOp
CountShaped(c) ==
  c.step \in {"counting", "answered"} /\ c.op \in {"statistics", "report", "listing"}

(* A bulk step leaves a bulk call.                                         *)
LEMMA BulkStaysBulk ==
  ASSUME CallsShaped, BulkInv, NEW m \in Manager, Bulk(m)
  PROVE  BulkShaped(calls'[m])
<1>1. ASSUME calls[m].step \in {"item", "reading"}
      PROVE  calls[m] \in BulkState /\ (calls[m].op # "create" => Item(m) \in Invitation)
  BY <1>1, BulkItem DEF BulkTyped
<1>2. ASSUME AdvancedTo(calls[m], calls'[m]) PROVE BulkShaped(calls'[m])
  BY <1>2 DEF AdvancedTo, BulkState, BulkShaped
<1>3. ASSUME NEW op \in BulkOp, NEW tenant, NEW list, StartBulk(m, op, tenant, list)
      PROVE  BulkShaped(calls'[m])
  <2> DEFINE c == BulkCall(op, tenant, IF op = "create" THEN Distinct(list) ELSE list)
  <2>1. Update(m, c)
    BY <1>3 DEF StartBulk
  <2>2. BulkShaped(c)
    BY DEF BulkShaped, BulkCall
  <2> HIDE DEF c
  <2> QED BY <2>1, <2>2, UpdatesOne
<1>4. CASE ReadItem(m)
  BY <1>1, <1>4 DEF ReadItem, BulkState, BulkShaped
<1>5. CASE WriteItem(m)
  <2>1. calls[m] \in BulkState
    BY <1>1, <1>5 DEF WriteItem
  <2>2. ASSUME NEW i \in Invitation, Succeed(m, i) PROVE BulkShaped(calls'[m])
    BY <1>2, <2>1, <2>2, Succeeding
  <2>3. ASSUME Update(m, [calls[m] EXCEPT !.step = "reading"]) PROVE BulkShaped(calls'[m])
    BY <2>1, <2>3, UpdatesOne DEF BulkState, BulkShaped
  <2> QED BY <1>5, <2>2, <2>3 DEF WriteItem
<1>6. CASE ReadAddress(m)
  <2>1. calls[m] \in BulkState /\ Item(m) \in Invitation
    BY <1>6, BulkItem DEF ReadAddress, BulkTyped
  <2> QED BY <1>2, <1>6, <2>1, Succeeding DEF ReadAddress
<1>7. CASE ItemThrows(m)
  BY <1>1, <1>2, <1>7, Failing DEF ItemThrows
<1> QED BY <1>3, <1>4, <1>5, <1>6, <1>7 DEF Bulk, BulkOp

(* A bulk call shows no figures.                                           *)
LEMMA BulkFigures ==
  ASSUME NEW m, BulkShaped(calls'[m]), disturbed'[m] \in SUBSET {"rows", "status"}
  PROVE  FigureInv(m)'
  BY DEF FigureInv, FiguresFit, FiguresFitTogether, BulkShaped, BulkOp

(* What is recorded of others grows while a call counts.                   *)
LEMMA DisturbedTyped ==
  ASSUME CallsShaped, WatchCalls, NEW m \in Manager, FiguresFit(m)
  PROVE  /\ disturbed'[m] \in SUBSET {"rows", "status"}
         /\ calls[m].step = "counting" => disturbed[m] \subseteq disturbed'[m]
         /\ calls[m].step # "counting" =>
              disturbed'[m] = IF Answered(m)' THEN disturbed[m] ELSE {}
  BY DEF WatchCalls, FiguresFit, Disturbances

(* The first query fits the rows it saw.                                   *)
LEMMA StartFigures ==
  ASSUME CallsShaped, WatchCalls, FinitelyStored, NEW m \in Manager, FiguresFit(m), NEW tenant,
         \/ \E cutoff \in Cutoffs(tenant) : StartStatistics(m, tenant, cutoff)
         \/ \E where \in Where : StartReport(m, tenant, where) \/ StartListing(m, tenant, where)
  PROVE  FigureInv(m)' /\ CountShaped(calls'[m])
<1>1. disturbed'[m] \in SUBSET {"rows", "status"}
  BY DisturbedTyped
<1>2. ASSUME NEW cutoff \in Cutoffs(tenant), StartStatistics(m, tenant, cutoff)
      PROVE  FigureInv(m)' /\ CountShaped(calls'[m])
  <2> DEFINE c == [step |-> "counting", op |-> "statistics", tenant |-> tenant,
                   cutoff |-> cutoff, byStatus |-> ByStatus(Rows(tenant)), counts |-> Uncounted]
  <2>1. calls'[m] = c
    BY <1>2, UpdatesOne DEF StartStatistics
  <2>2. /\ cutoff \subseteq Rows(tenant)
        /\ Total(ByStatus(Rows(tenant))) = Cardinality(Rows(tenant))
    BY RowsFinite, TotalCounts DEF Cutoffs, Rows
  <2>3. DOMAIN c.counts = {} /\ Figure # {}
    BY DEF Uncounted, Figure
  <2>4. Rows(tenant)' = Rows(tenant)
    BY <1>2 DEF StartStatistics, vars, Rows, Stored, Status
  <2>5. StatisticsFit(m)'
    BY <2>1, <2>2, <2>3, <2>4 DEF StatisticsFit
  <2> QED BY <1>1, <2>1, <2>5 DEF FigureInv, FiguresFit, Answered, CountShaped
<1>3. ASSUME NEW where \in Where, StartReport(m, tenant, where)
      PROVE  FigureInv(m)' /\ CountShaped(calls'[m])
  <2>1. calls'[m] = [step |-> "counting", op |-> "report", tenant |-> tenant, where |-> where,
                     list |-> StatusList(Matching(tenant, where)), byStatus |-> Uncounted]
    BY <1>3, UpdatesOne DEF StartReport, StatusList
  <2>2. StatusList(Matching(tenant, where))' = StatusList(Matching(tenant, where))
    BY <1>3, MatchingKept DEF StartReport, vars, Status
  <2>3. ReportFits(m)'
    BY <2>1, <2>2 DEF ReportFits
  <2> QED BY <1>1, <2>1, <2>3 DEF FigureInv, FiguresFit, Answered, CountShaped
<1>4. ASSUME NEW where \in Where, StartListing(m, tenant, where)
      PROVE  FigureInv(m)' /\ CountShaped(calls'[m])
  <2>1. calls'[m] = [step |-> "counting", op |-> "listing", tenant |-> tenant, where |-> where,
                     total |-> Cardinality(Matching(tenant, where)), list |-> Uncounted]
    BY <1>4, UpdatesOne DEF StartListing
  <2>2. Matching(tenant, where)' = Matching(tenant, where)
    BY <1>4, MatchingKept DEF StartListing, vars, Status
  <2>3. ListingFits(m)'
    BY <2>1, <2>2 DEF ListingFits
  <2> QED BY <1>1, <2>1, <2>3 DEF FigureInv, FiguresFit, Answered, CountShaped
<1> QED BY <1>2, <1>3, <1>4


(* A further count fits if no row came or went meanwhile.                  *)
LEMMA CountFigureStep ==
  ASSUME TypeOK, CallsShaped, WatchCalls, FinitelyStored, AcceptedWasProvisioned,
         NEW m \in Manager, FiguresFit(m), NEW figure \in Figure, CountFigure(m, figure)
  PROVE  FigureInv(m)' /\ CountShaped(calls'[m])
<1> PICK t, cutoff, byStatus, old :
      calls[m] = [step |-> "counting", op |-> "statistics", tenant |-> t, cutoff |-> cutoff,
                  byStatus |-> byStatus, counts |-> old]
  BY DEF CountFigure, FiguresFit, StatisticsFit
<1>1. /\ DOMAIN old \subseteq Figure
      /\ "rows" \notin disturbed[m] =>
           /\ cutoff \subseteq Rows(t)
           /\ Total(byStatus) = Cardinality(Rows(t))
           /\ "sent" \in DOMAIN old => old["sent"] = Cardinality(Rows(t) \ cutoff)
           /\ "accepted" \in DOMAIN old /\ cutoff \cap provisioned = {} =>
                old["accepted"] <= Cardinality(Rows(t) \ cutoff)
  BY DEF FiguresFit, StatisticsFit, ReportFits, ListingFits
<1> DEFINE counts == [f \in DOMAIN old \cup {figure} |->
                        IF f = figure THEN Counted(f, t, cutoff) ELSE old[f]]
           step == IF DOMAIN counts = Figure THEN "answered" ELSE "counting"
           c == [step |-> step, op |-> "statistics", tenant |-> t, cutoff |-> cutoff,
                 byStatus |-> byStatus, counts |-> counts]
<1>2. calls'[m] = c
  <2>1. PICK before : before = calls[m]
    OBVIOUS
  <2>2. Update(m, [before EXCEPT !.counts = counts, !.step = step])
    BY <2>1 DEF CountFigure
  <2>3. before = [step |-> "counting", op |-> "statistics", tenant |-> t, cutoff |-> cutoff,
                  byStatus |-> byStatus, counts |-> old]
    BY <2>1
  <2> HIDE DEF counts, step
  <2>4. PICK call : call = [before EXCEPT !.counts = counts, !.step = step]
    OBVIOUS
  <2>5. call = c
    BY ONLY <2>3, <2>4
  <2> QED BY <2>2, <2>4, <2>5, UpdatesOne
<1>3. /\ DOMAIN counts \subseteq Figure
      /\ "rows" \notin disturbed[m] =>
           /\ "sent" \in DOMAIN counts => counts["sent"] = Cardinality(Rows(t) \ cutoff)
           /\ "accepted" \in DOMAIN counts /\ cutoff \cap provisioned = {} =>
                counts["accepted"] <= Cardinality(Rows(t) \ cutoff)
  <2>1. Counted("sent", t, cutoff) = Cardinality(Rows(t) \ cutoff)
    <3>1. {i \in Rows(t) : i \notin cutoff} = Rows(t) \ cutoff
      OBVIOUS
    <3> QED BY <3>1 DEF Counted
  <2>2. cutoff \cap provisioned = {} =>
          Counted("accepted", t, cutoff) <= Cardinality(Rows(t) \ cutoff)
    BY AcceptedAreSent
  <2> QED BY <1>1, <2>1, <2>2
<1>4. UNCHANGED vars /\ calls[m].step = "counting"
  BY DEF CountFigure
<1>5. /\ disturbed'[m] \in SUBSET {"rows", "status"}
      /\ "rows" \notin disturbed'[m] => "rows" \notin disturbed[m]
  BY <1>4, DisturbedTyped
<1>6. Rows(t)' = Rows(t) /\ provisioned' = provisioned
  BY <1>4 DEF vars, Rows, Stored, Status
<1> HIDE DEF counts
<1>7. CASE DOMAIN counts = Figure
  <2>1. "sent" \in DOMAIN counts /\ "accepted" \in DOMAIN counts
    BY <1>7 DEF Figure
  <2>2. ASSUME "rows" \notin disturbed[m]
        PROVE  /\ Total(byStatus) = counts["sent"] + Cardinality(cutoff)
               /\ cutoff \cap provisioned = {} => counts["accepted"] <= counts["sent"]
    BY <1>1, <1>3, <2>1, <2>2, RowsFinite, SentCounts
  <2>3. calls'[m].step = "answered" /\ calls'[m].op = "statistics"
        /\ calls'[m].byStatus = byStatus /\ calls'[m].counts = counts /\ calls'[m].cutoff = cutoff
    BY <1>2, <1>7
  <2> QED BY <1>5, <1>6, <2>2, <2>3
          DEF FigureInv, FiguresFit, FiguresFitTogether, Answered, CountShaped
<1>8. CASE DOMAIN counts # Figure
  <2>1. calls'[m] = [step |-> "counting", op |-> "statistics", tenant |-> t, cutoff |-> cutoff,
                     byStatus |-> byStatus, counts |-> counts]
    BY <1>2, <1>8
  <2>2. StatisticsFit(m)'
    BY <1>1, <1>3, <1>5, <1>6, <1>8, <2>1 DEF StatisticsFit
  <2> QED BY <1>5, <2>1, <2>2 DEF FigureInv, FiguresFit, Answered, CountShaped
<1> QED BY <1>7, <1>8

(* The summary is that of the list, if nothing changed meanwhile.          *)
LEMMA SummariseReportStep ==
  ASSUME CallsShaped, WatchCalls, NEW m \in Manager, FiguresFit(m), SummariseReport(m)
  PROVE  FigureInv(m)' /\ CountShaped(calls'[m])
<1> PICK t, where, list, byStatus :
      calls[m] = [step |-> "counting", op |-> "report", tenant |-> t, where |-> where,
                  list |-> list, byStatus |-> byStatus]
  BY DEF SummariseReport, FiguresFit, ReportFits
<1> DEFINE rows == Matching(t, where)
<1>1. disturbed[m] = {} => list = StatusList(rows)
  BY DEF FiguresFit, StatisticsFit, ReportFits, ListingFits
<1>2. calls'[m] = [step |-> "answered", op |-> "report", tenant |-> t, where |-> where,
                   list |-> list, byStatus |-> ByStatus(rows)]
  <2> DEFINE by == ByStatus(rows)
  <2>1. PICK before : before = calls[m]
    OBVIOUS
  <2>2. Update(m, [before EXCEPT !.step = "answered", !.byStatus = by])
    BY <2>1 DEF SummariseReport
  <2>3. before = [step |-> "counting", op |-> "report", tenant |-> t, where |-> where,
                  list |-> list, byStatus |-> byStatus]
    BY <2>1
  <2> HIDE DEF by
  <2>4. PICK call : call = [before EXCEPT !.step = "answered", !.byStatus = by]
    OBVIOUS
  <2>5. call = [step |-> "answered", op |-> "report", tenant |-> t, where |-> where,
                list |-> list, byStatus |-> by]
    BY ONLY <2>3, <2>4
  <2>6. calls'[m] = call
    BY <2>2, <2>4, UpdatesOne
  <2> QED BY <2>5, <2>6 DEF by
<1>3. /\ disturbed'[m] \in SUBSET {"rows", "status"}
      /\ disturbed'[m] = {} => disturbed[m] = {}
  BY DisturbedTyped DEF SummariseReport
<1>4. ASSUME disturbed[m] = {}, NEW s \in InvitationStatus
      PROVE  ByStatus(rows)[s] = Cardinality({i \in DOMAIN list : list[i] = s})
  <2>1. {i \in DOMAIN list : list[i] = s} = {i \in rows : Status(i) = s}
    BY <1>1, <1>4 DEF StatusList
  <2> QED BY <2>1 DEF ByStatus
<1> HIDE DEF rows
<1>5. /\ calls'[m].step = "answered" /\ calls'[m].op = "report"
      /\ calls'[m].list = list /\ calls'[m].byStatus = ByStatus(rows)
  BY <1>2
<1>6. FiguresFitTogether(m)'
  <2> PICK by : by = ByStatus(rows)
    OBVIOUS
  <2>1. disturbed[m] = {} =>
          \A s \in InvitationStatus : by[s] = Cardinality({i \in DOMAIN list : list[i] = s})
    BY <1>4
  <2>2. calls'[m].byStatus = by
    BY <1>5
  <2> QED BY <1>3, <1>5, <2>1, <2>2 DEF FiguresFitTogether
<1> QED BY <1>3, <1>5, <1>6 DEF FigureInv, FiguresFit, Answered, CountShaped

(* The rows are as many as the total, if nothing changed meanwhile.        *)
LEMMA ListRowsStep ==
  ASSUME CallsShaped, WatchCalls, NEW m \in Manager, FiguresFit(m), ListRows(m)
  PROVE  FigureInv(m)' /\ CountShaped(calls'[m])
<1> PICK t, where, total, old :
      calls[m] = [step |-> "counting", op |-> "listing", tenant |-> t, where |-> where,
                  total |-> total, list |-> old]
  BY DEF ListRows, FiguresFit, ListingFits
<1> PICK list : list = StatusList(Matching(t, where))
  OBVIOUS
<1>1. disturbed[m] = {} => total = Cardinality(DOMAIN list)
  BY DEF FiguresFit, StatisticsFit, ReportFits, ListingFits, StatusList
<1>2. calls'[m] = [step |-> "answered", op |-> "listing", tenant |-> t, where |-> where,
                   total |-> total, list |-> list]
  <2>1. PICK before : before = calls[m]
    OBVIOUS
  <2>2. Update(m, [before EXCEPT !.step = "answered", !.list = list])
    BY <2>1 DEF ListRows, StatusList
  <2>3. before = [step |-> "counting", op |-> "listing", tenant |-> t, where |-> where,
                  total |-> total, list |-> old]
    BY <2>1
  <2>4. PICK call : call = [before EXCEPT !.step = "answered", !.list = list]
    OBVIOUS
  <2>5. call = [step |-> "answered", op |-> "listing", tenant |-> t, where |-> where,
                total |-> total, list |-> list]
    BY ONLY <2>3, <2>4
  <2> QED BY <2>2, <2>4, <2>5, UpdatesOne
<1>3. /\ disturbed'[m] \in SUBSET {"rows", "status"}
      /\ disturbed'[m] = {} => disturbed[m] = {}
  BY DisturbedTyped DEF ListRows
<1> QED BY <1>1, <1>2, <1>3
        DEF FigureInv, FiguresFit, FiguresFitTogether, Answered, CountShaped

(* What others do is recorded, or leaves the figures fitting.              *)
LEMMA RestsFigures ==
  ASSUME CallsShaped, WatchCalls, provisioned \subseteq provisioned',
         NEW m \in Manager, FigureInv(m), Rests(m)
  PROVE  FigureInv(m)'
<1>1. /\ disturbed'[m] \in SUBSET {"rows", "status"}
      /\ calls[m].step = "counting" => disturbed[m] \subseteq disturbed'[m]
      /\ calls[m].step # "counting" =>
              disturbed'[m] = IF Answered(m)' THEN disturbed[m] ELSE {}
  BY DisturbedTyped DEF FigureInv
<1>2. calls'[m] = calls[m]
  BY DEF Rests
<1>3. CASE calls[m].step = "counting"
  <2> PICK c : c = calls[m]
    OBVIOUS
  <2> PICK t : t = c.tenant
    OBVIOUS
  <2> PICK where : where = c.where
    OBVIOUS
  <2>1. /\ "rows" \notin disturbed'[m] => "rows" \notin disturbed[m] /\ Rows(t)' = Rows(t)
        /\ disturbed'[m] = {} =>
             /\ disturbed[m] = {}
             /\ Matching(t, where)' = Matching(t, where)
             /\ StatusList(Matching(t, where))' = StatusList(Matching(t, where))
    BY <1>1, <1>3, Watching, MatchingKept
  <2>2. CASE c.op = "statistics" /\ StatisticsFit(m)
    <3>1. StatisticsFit(m)'
      BY <1>2, <2>1, <2>2 DEF StatisticsFit
    <3> QED BY <1>1, <1>2, <1>3, <2>2, <3>1 DEF FigureInv, FiguresFit, Answered
  <2>3. CASE c.op = "report" /\ ReportFits(m)
    <3>1. ReportFits(m)'
      BY <1>2, <2>1, <2>3 DEF ReportFits
    <3> QED BY <1>1, <1>2, <1>3, <2>3, <3>1 DEF FigureInv, FiguresFit, Answered
  <2>4. CASE c.op = "listing" /\ ListingFits(m)
    <3>1. ListingFits(m)'
      BY <1>2, <2>1, <2>4 DEF ListingFits
    <3> QED BY <1>1, <1>2, <1>3, <2>4, <3>1 DEF FigureInv, FiguresFit, Answered
  <2> QED BY <1>3, <2>2, <2>3, <2>4 DEF FigureInv, FiguresFit
<1>4. CASE calls[m].step # "counting"
  BY <1>1, <1>2, <1>4 DEF FigureInv, FiguresFit, FiguresFitTogether, Answered
<1> QED BY <1>3, <1>4

-----------------------------------------------------------------------------
(* The invariant of the management calls.                                  *)

(* A counting step keeps all of this.                                      *)
LEMMA CountStep ==
  ASSUME TypeOK, CallsShaped, BulkInv, WatchCalls, FinitelyStored, AcceptedWasProvisioned,
         NEW m \in Manager, FiguresFit(m), Count(m)
  PROVE  CallInv(m)' /\ FigureInv(m)' /\ CountShaped(calls'[m])
<1>1. FigureInv(m)' /\ CountShaped(calls'[m])
  BY StartFigures, CountFigureStep, SummariseReportStep, ListRowsStep DEF Count
<1>2. UNCHANGED vars /\ (calls[m] = NoCall \/ calls[m].step = "counting")
  BY DEF Count, StartStatistics, CountFigure, StartReport, SummariseReport, StartListing,
         ListRows
<1>3. requests[m] = Idle
  BY <1>2 DEF BulkInv, RequestFollows, NoCall
<1>4. requests'[m] = Idle
  BY <1>2, <1>3 DEF vars
<1>5. ~IsBulk(m)' /\ calls'[m].step # "item" /\ calls'[m].step # "reading"
  BY <1>1 DEF CountShaped, IsBulk, Ended, BulkOp
<1> QED BY <1>1, <1>4, <1>5 DEF CallInv, RequestFollows

(* The end of a call keeps all of this.                                    *)
LEMMA EndStep ==
  ASSUME TypeOK, CallsShaped, WatchCalls, NEW m \in Manager, FiguresFit(m), End(m)
  PROVE  CallInv(m)' /\ FigureInv(m)' /\ calls'[m] \in {NoCall, CutOff}
<1>1. calls'[m] \in {NoCall, CutOff}
  BY UpdatesOne DEF End
<1>2. requests'[m] = Idle
  BY ManagementAssumption DEF End, Finish, Go, TypeOK
<1>3. disturbed'[m] \in SUBSET {"rows", "status"}
  BY DisturbedTyped
<1>4. calls'[m].step \in {"none", "cut off"}
  BY <1>1, StepsOfResting
<1> QED BY <1>1, <1>2, <1>3, <1>4
        DEF CallInv, RequestFollows, IsBulk, Ended, FigureInv, FiguresFit, Answered

(* A bulk step keeps all of this.                                          *)
LEMMA BulkStep ==
  ASSUME TypeOK, CallsShaped, BulkInv, RowsKept, WatchCalls,
         NEW m \in Manager, FiguresFit(m), Bulk(m)
  PROVE  CallInv(m)' /\ FigureInv(m)' /\ BulkShaped(calls'[m])
<1>1. BulkShaped(calls'[m])
  BY BulkStaysBulk
<1>2. FigureInv(m)'
  BY <1>1, DisturbedTyped, BulkFigures
<1>3. CallInv(m)'
  BY StartBulkStep, ReadItemStep, WriteItemStep, ReadAddressStep, ItemThrowsStep
     DEF Bulk, BulkOp
<1> QED BY <1>1, <1>2, <1>3

(* No step adds more than one row.                                         *)
LEMMA FiniteStep ==
  ASSUME TypeOK, AcceptingWasProvisioned, FinitelyStored, [Next]_vars
  PROVE  FinitelyStored'
<1> DEFINE rows == {i \in Invitation : Stored(i)}
<1>1. IsFiniteSet(rows)
  BY DEF FinitelyStored
<1>2. ASSUME \A j \in Invitation : Stored(j)' => Stored(j) PROVE FinitelyStored'
  <2>1. {j \in Invitation : Stored(j)'} \in SUBSET rows
    BY <1>2
  <2>2. IsFiniteSet({j \in Invitation : Stored(j)'})
    BY <1>1, <2>1, FS_Subset
  <2> QED BY <2>2 DEF FinitelyStored
<1>3. CASE OneRowWritten
  <2> PICK i \in Invitation : \A j \in Invitation : Stored(j)' => Stored(j) \/ j = i
    BY <1>3 DEF OneRowWritten, Stored
  <2>1. IsFiniteSet(rows \cup {i})
    BY <1>1, FS_AddElement
  <2>2. {j \in Invitation : Stored(j)'} \in SUBSET (rows \cup {i})
    OBVIOUS
  <2>3. IsFiniteSet({j \in Invitation : Stored(j)'})
    BY <2>1, <2>2, FS_Subset
  <2> QED BY <2>3 DEF FinitelyStored
<1>4. CASE RowsDeletedOnly
  <2>1. \A j \in Invitation : Stored(j)' => Stored(j)
    BY <1>4 DEF RowsDeletedOnly, Stored, InvitationStatus, Closed
  <2> QED BY <2>1, <1>2
<1>5. CASE SweepUpdate
  <2>1. \A j \in Invitation : Stored(j)' => Stored(j)
    BY <1>5 DEF SweepUpdate, Stored, Status, TypeOK, InvitationRow
  <2> QED BY <2>1, <1>2
<1> QED BY <1>3, <1>4, <1>5, StatusChange

(* Every step of the composition keeps both invariants.                    *)
LEMMA MInvStep ==
  ASSUME IInv, FinitelyStored, MInv, [MNext]_allVars
  PROVE  IInv' /\ FinitelyStored' /\ MInv'
<1> USE DEF MInv
<1>1. TypeOK /\ AcceptingWasProvisioned /\ AcceptedWasProvisioned
  BY DEF IInv
<1>2. [Next]_vars
  BY <1>1, Composes
<1>3. IInv'
  BY <1>1, <1>2, TypeStep, IndexStep, AcceptedStep, AcceptingStep, MembersStep, AdmittedStep,
     UserIndexStep, PurgeStep DEF IInv
<1>4. FinitelyStored'
  BY <1>1, <1>2, FiniteStep
<1>5. RowsKept
  BY <1>1, <1>2, <1>3, RowsStep DEF IInv
<1>6. provisioned \subseteq provisioned'
  BY <1>1, <1>2, AcceptingStep
<1>7. CASE MNext
  <2>1. WatchCalls
    BY <1>7 DEF MNext
  <2>2. ASSUME NEW m \in Manager
        PROVE  /\ CallInv(m)' /\ FigureInv(m)'
               /\ calls'[m] \in {NoCall, CutOff} \/ BulkShaped(calls'[m]) \/ CountShaped(calls'[m])
    <3>1. FiguresFit(m)
      OBVIOUS
    <3>2. CASE Bulk(m)
      BY <1>1, <1>5, <2>1, <3>1, <3>2, BulkStep
    <3>3. CASE Count(m)
      BY <1>1, <1>4, <2>1, <3>1, <3>3, CountStep
    <3>4. CASE End(m)
      BY <1>1, <2>1, <3>1, <3>4, EndStep
    <3>5. CASE Rests(m)
      <4>1. CallInv(m)'
        BY <1>1, <1>5, <3>5, RestsStep
      <4>2. FigureInv(m)
        BY <3>1 DEF FigureInv, FiguresAgree
      <4>3. FigureInv(m)'
        BY <1>6, <2>1, <3>5, <4>2, RestsFigures
      <4>4. calls'[m] \in {NoCall, CutOff} \/ BulkShaped(calls'[m]) \/ CountShaped(calls'[m])
        BY <3>5 DEF Rests, CallsShaped, BulkShaped, CountShaped
      <4> QED BY <4>1, <4>3, <4>4
    <3> QED BY <1>1, <1>7, <3>2, <3>3, <3>4, <3>5, ActsOrRests DEF Acts
  <2>3. calls' = [m \in Manager |-> calls'[m]] /\ disturbed' = [m \in Manager |-> disturbed'[m]]
    <3>1. calls' = calls \/ \E n \in Manager : \E call : Update(n, call)
      BY <1>7, ActsUpdate DEF MNext, Acts, Others
    <3>2. calls' = [m \in Manager |-> calls'[m]]
      BY <3>1 DEF CallsShaped, Update
    <3> QED BY <2>1, <3>2 DEF WatchCalls
  <2>4. CallsShaped'
    BY <2>2, <2>3 DEF CallsShaped, BulkShaped, CountShaped
  <2>5. BulkInv'
    BY <2>2 DEF BulkInv, CallInv
  <2>6. (\A m \in Manager : FiguresFit(m))' /\ FiguresAgree'
    BY <2>2 DEF FigureInv, FiguresAgree
  <2> QED BY <1>3, <1>4, <2>4, <2>5, <2>6
<1>8. CASE UNCHANGED allVars
  <2>1. CallsShaped'
    BY <1>8 DEF allVars, callVars, CallsShaped
  <2>2. ASSUME NEW m \in Manager PROVE CallInv(m)'
    <3>1. Rests(m)
      BY <1>8 DEF allVars, callVars, vars, Rests
    <3> QED BY <1>1, <1>5, <3>1, RestsStep
  <2>3. ASSUME NEW m \in Manager PROVE FiguresFit(m)'
    <3> PICK t, where : t = calls[m].tenant /\ where = calls[m].where
      OBVIOUS
    <3>1. UNCHANGED <<calls, disturbed, invitations, provisioned>>
      BY <1>8 DEF allVars, callVars, vars
    <3>2. Rows(t)' = Rows(t) /\ \A i \in Invitation : Status(i)' = Status(i)
      BY <3>1 DEF Rows, Stored, Status
    <3>3. /\ Matching(t, where)' = Matching(t, where)
          /\ StatusList(Matching(t, where))' = StatusList(Matching(t, where))
      BY <3>2, MatchingKept
    <3>4. FiguresFit(m)
      OBVIOUS
    <3>5. StatisticsFit(m) => StatisticsFit(m)'
      BY <3>1, <3>2 DEF StatisticsFit
    <3>6. (ReportFits(m) => ReportFits(m)') /\ (ListingFits(m) => ListingFits(m)')
      BY <3>1, <3>3 DEF ReportFits, ListingFits
    <3> QED BY <3>1, <3>4, <3>5, <3>6 DEF FiguresFit
  <2>4. FiguresAgree'
    BY <1>8 DEF allVars, callVars, vars, FiguresAgree, FiguresFitTogether, Answered
  <2> QED BY <1>3, <1>4, <2>1, <2>2, <2>3, <2>4 DEF BulkInv, CallInv
<1> QED BY <1>7, <1>8

(* They hold when nothing has been called.                                 *)
LEMMA InitMInv == MInit => IInv /\ FinitelyStored /\ MInv
<1> SUFFICES ASSUME MInit PROVE IInv /\ FinitelyStored /\ MInv
  OBVIOUS
<1>1. IInv
  BY InitIInv DEF MInit
<1>2. FinitelyStored
  <2>1. {i \in Invitation : Stored(i)} = {}
    BY DEF MInit, Init, Stored, Status, NoRow, InvitationStatus, Closed
  <2> QED BY <2>1, FS_EmptySet DEF FinitelyStored
<1>3. \A m \in Manager : calls[m].step = "none" /\ calls[m] = NoCall /\ disturbed[m] = {}
  BY DEF MInit, NoCall
<1>4. CallsShaped
  BY <1>3 DEF MInit, CallsShaped
<1>5. BulkInv
  BY <1>3, ManagementAssumption DEF MInit, Init, BulkInv, RequestFollows, IsBulk, Ended
<1>6. FiguresAgree /\ \A m \in Manager : FiguresFit(m)
  BY <1>3 DEF FiguresAgree, FiguresFit, Answered
<1> QED BY <1>1, <1>2, <1>4, <1>5, <1>6 DEF MInv

(* The invariant of Invitations and that of the calls hold together: what  *)
(* a bulk answer names was done, and figures in progress fit the rows      *)
(* (invitation-management.service.ts).                                     *)
THEOREM MInvInvariant == MSpec => [](IInv /\ FinitelyStored /\ MInv)
<1>1. (IInv /\ FinitelyStored /\ MInv) /\ [MNext]_allVars => (IInv /\ FinitelyStored /\ MInv)'
  BY MInvStep
<1> QED BY InitMInv, <1>1, PTL DEF MSpec

(* Whatever its calls are doing, a management call takes only steps that   *)
(* a request of module Invitations may take: what is proved of requests    *)
(* there holds beside bulk calls (invitation-management.service.ts calls   *)
(* the operations of invitation.service.ts).                               *)
THEOREM ManagementComposes == MSpec => Spec
<1>1. MInit => Init
  BY DEF MInit
<1>2. (IInv /\ FinitelyStored /\ MInv) /\ [MNext]_allVars => [Next]_vars
  BY Composes DEF IInv, MInv
<1> QED BY <1>1, <1>2, MInvInvariant, PTL DEF MSpec, Spec

(* A bulk answer accounts for every item, and what it names it did.        *)
THEOREM AnswersAreTrueHolds == MSpec => []AnswersAreTrue
<1>1. IInv /\ MInv => AnswersAreTrue
  <2> SUFFICES ASSUME MInv, NEW m \in Manager, Answered(m), IsBulk(m)
               PROVE  LET c == calls[m]
                          done == c.successful
                          named == DOMAIN done IN
                      /\ Len(done) + c.failed = Len(c.items)
                      /\ c.op = "create" =>
                           /\ \A k \in named :
                                /\ Status(done[k]) # "NONE"
                                /\ \E j \in DOMAIN c.items : c.items[j] = done[k].email
                           /\ \A k, l \in named : k # l => done[k].email # done[l].email
                      /\ c.op = "cancel" =>
                           /\ \A k \in named : ~Pending(done[k])
                           /\ \A k, l \in named : k # l => done[k] # done[l]
                      /\ c.op = "resend" =>
                           \A k \in named : Stored(done[k]) => invitations[done[k]].token > 0
    BY DEF AnswersAreTrue
  <2> DEFINE c == calls[m]
             done == c.successful
             named == DOMAIN done
  <2>1. BulkTyped(m) /\ BulkDone(m)
    BY DEF MInv, BulkInv
  <2>2. c \in BulkState /\ c.at = Len(c.items) + 1 /\ Len(done) + c.failed = c.at - 1
    BY <2>1 DEF BulkTyped
  <2>3. Len(done) + c.failed = Len(c.items)
    BY <2>2 DEF BulkState
  <2>4. \A k \in named : Known(done[k])
    BY <2>1 DEF BulkDone
  <2>5. CASE c.op = "create"
    <3>1. /\ \A k \in named : \E j \in 1 .. c.at - 1 : c.items[j] = done[k].email
          /\ \A k, l \in named : k # l => done[k].email # done[l].email
      BY <2>1, <2>5 DEF BulkDone
    <3>2. 1 .. c.at - 1 = 1 .. Len(c.items)
      BY <2>2 DEF BulkState
    <3>3. \A k \in named : \E j \in DOMAIN c.items : c.items[j] = done[k].email
      BY <2>2, <3>1, <3>2 DEF BulkState
    <3> QED BY <2>3, <2>4, <2>5, <3>1, <3>3 DEF Known
  <2>6. CASE c.op = "cancel"
    <3>1. /\ \A k \in named : ClosedForGood(done[k])
          /\ \A k, l \in named : k # l => done[k] # done[l]
      BY <2>1, <2>6 DEF BulkDone
    <3> QED BY <2>3, <2>6, <3>1 DEF ClosedForGood, Pending, Closed
  <2>7. CASE c.op = "resend"
    <3>1. \A k \in named : LinkReplaced(done[k])
      BY <2>1, <2>7 DEF BulkDone
    <3> QED BY <2>3, <2>7, <3>1 DEF LinkReplaced
  <2> QED BY <2>2, <2>5, <2>6, <2>7 DEF BulkState, BulkOp
<1> QED BY <1>1, MInvInvariant, PTL

(* As long as the rows stay, figures of one answer fit together although   *)
(* each is a query of its own.                                             *)
THEOREM FiguresAgreeHolds == MSpec => []FiguresAgree
<1>1. MInv => FiguresAgree
  BY DEF MInv
<1> QED BY <1>1, MInvInvariant, PTL

=============================================================================
