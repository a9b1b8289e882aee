----------------------------- MODULE AccessProofs -----------------------------
(***************************************************************************)
(* The guarantees of Access hold for any tenants, users, roles,            *)
(* permissions and projects and any number of requests at once.            *)
(***************************************************************************)
EXTENDS Access, TLAPS

(* A request on its way to give a user a tenant.                           *)
Mover(r, u) ==
  \/ At(r, "tenantless") /\ requests[r].user = u
  \/ At(r, "founding") /\ requests[r].founder = u
  \/ At(r, "joining") /\ requests[r].user = u

(* Two requests that hold one user or slot have left their mark.           *)
ContentionSeen == HeldByTwo \subseteq contended

(* A user some request is about to move has no tenant yet, unless two      *)
(* requests were about to move it.                                         *)
MoversHaveNoTenant ==
  \A r \in Request, u \in User :
    Mover(r, u) => u \in contended \/ members[u] \in {Tenantless, Gone}

(* Nothing belongs to a tenant that is still to be founded.                *)
UnfoundedIsEmpty == \A x \in Item : tenants[x.tenant] = NoTenant => items[x] = "unborn"

(* The roles a join brings are of the tenant joined.                       *)
OfferedByTenant ==
  \A r \in Request : At(r, "joining") =>
    \A role \in requests[r].roles : role.tenant = requests[r].tenant

(* Requests that replace what is assigned to a slot.                       *)
ReplaceStep == {"checking", "replacing", "inserting"}

(* A join table holds roles or permissions, as its name says.              *)
KindsKept ==
  /\ \A s \in Slot : grants[s] \subseteq KindOf(s)
  /\ \A r \in Request :
       requests[r].step \in ReplaceStep => requests[r].items \subseteq KindOf(requests[r].slot)

(* The owner of a slot that is being replaced was there once.              *)
OwnersKnown ==
  \A r \in Request : requests[r].step \in ReplaceStep =>
    LET s == requests[r].slot IN
    IF s[1] = "role permissions" THEN items[s[2]] # "unborn"
                                 ELSE members[s[2]] \in Tenant \cup {Gone}

(* The owner is of this tenant, if it still exists.                        *)
OfTenant(s, t) ==
  IF s[1] = "role permissions" THEN s[2].tenant = t ELSE members[s[2]] \in {t, Gone}

(* What was checked against the owner's tenant still belongs to it.        *)
ChecksHold ==
  \A r \in Request : LET q == requests[r] IN
    /\ At(r, "checking") /\ ~OwnerContended(q.slot) => OfTenant(q.slot, q.tenant)
    /\ q.step \in {"replacing", "inserting"} /\ ~OwnerContended(q.slot) =>
         \A x \in q.items : OfTenant(q.slot, x.tenant)

(* A replacement nobody interfered with deletes all there is.              *)
SeenIsAll ==
  \A r \in Request : LET q == requests[r] IN
    At(r, "inserting") /\ q.slot \notin contended /\ ~OwnerContended(q.slot)
      => grants[q.slot] \subseteq q.seen

(* The witness of a guard bounds what it read.                             *)
GuardReads ==
  \A r \in Request : At(r, "guarding") =>
    LET q == requests[r]
        w == witnessed[r] IN
    /\ q.keys \subseteq w.ever
    /\ Effective(q.user) \subseteq w.ever
    /\ w.always \subseteq Effective(q.user)
    /\ w.steady => RoleKeys(q.user) = q.keys

(* Requests in the guard chain of an endpoint.                             *)
GuardStep == {"authenticated", "guarding", "admitted"}

(* A user without a tenant reads no key and is not admitted; one with      *)
(* another tenant than the guard's was moved meanwhile.                    *)
ActorsKnown ==
  \A r \in Request : LET q == requests[r] IN
    q.step \in GuardStep =>
      /\ members[q.user] # Unborn
      /\ members[q.user] \in Tenant \ {q.tenant} => q.user \in contended
      /\ members[q.user] = Tenantless /\ q.user \notin contended =>
           /\ q.step # "admitted"
           /\ At(r, "guarding") => q.keys = {}

(* The inductive invariant: what is granted and assigned, and what         *)
(* requests on their way know about it.                                    *)
IInv ==
  /\ TypeOK
  /\ KindsKept
  /\ ContentionSeen
  /\ MoversHaveNoTenant
  /\ UnfoundedIsEmpty
  /\ OfferedByTenant
  /\ OwnersKnown
  /\ ChecksHold
  /\ SeenIsAll
  /\ GuardReads
  /\ ActorsKnown
  /\ GrantsOfOwnTenant
  /\ AssignmentsHold
  /\ GuardJudgesRight
  /\ ProjectsOfOwnTenant

-----------------------------------------------------------------------------
(* Slots, defaults and requests.                                           *)
LEMMA PairShape ==
  ASSUME NEW A, NEW B, NEW p \in A \X B
  PROVE  p = <<p[1], p[2]>>
OBVIOUS

(* A slot is the roles or permissions of a user, or the permissions of a   *)
(* role.                                                                   *)
LEMMA SlotShapes ==
  ASSUME NEW s \in Slot
  PROVE  /\ s[1] \in {"user roles", "user permissions", "role permissions"}
         /\ s[1] = "role permissions" => s[2] \in Role
         /\ s[1] # "role permissions" => s[2] \in User
         /\ s = <<s[1], s[2]>>
<1>1. s = <<s[1], s[2]>>
  <2>1. s \in ({"user roles", "user permissions"} \X User) \cup ({"role permissions"} \X Role)
    BY DEF Slot
  <2>2. CASE s \in {"user roles", "user permissions"} \X User
    BY <2>2, PairShape
  <2>3. CASE s \in {"role permissions"} \X Role
    BY <2>3, PairShape
  <2> QED BY <2>1, <2>2, <2>3
<1>2. s[1] \in {"user roles", "user permissions", "role permissions"}
  BY DEF Slot
<1>3. s[1] = "role permissions" => s[2] \in Role
  BY DEF Slot
<1>4. s[1] # "role permissions" => s[2] \in User
  BY DEF Slot
<1> QED BY <1>1, <1>2, <1>3, <1>4

(* What users and roles own are slots.                                     *)
LEMMA SlotsOf ==
  /\ \A u \in User : UserRoles(u) \in Slot /\ UserPermissions(u) \in Slot
  /\ \A role \in Role : RolePermissions(role) \in Slot
BY DEF Slot, UserRoles, UserPermissions, RolePermissions

(* Every role and permission is of a tenant.                               *)
LEMMA ItemTenants == \A x \in Item : x.tenant \in Tenant
BY AccessAssumption DEF Item

(* The default roles, permissions and grants of a new tenant are its own.  *)
LEMMA Defaults ==
  ASSUME NEW t \in Tenant
  PROVE  /\ DefaultRoles(t) \subseteq Role
         /\ [tenant |-> t, name |-> "Admin"] \in DefaultRoles(t)
         /\ DefaultPermissions(t, DefaultKeys) \subseteq Permission
         /\ \A x \in DefaultRoles(t) \cup DefaultPermissions(t, DefaultKeys) : x.tenant = t
         /\ DOMAIN DefaultGrants(t) = {RolePermissions(role) : role \in DefaultRoles(t)}
         /\ \A s \in DOMAIN DefaultGrants(t) :
              DefaultGrants(t)[s] \subseteq DefaultPermissions(t, DefaultKeys)
<1>1. DefaultRoles(t) \subseteq Role /\ DefaultPermissions(t, DefaultKeys) \subseteq Permission
  BY AccessAssumption DEF DefaultRoles, DefaultPermissions
<1>2. [tenant |-> t, name |-> "Admin"] \in DefaultRoles(t)
  BY DEF DefaultRoles
<1>3. \A x \in DefaultRoles(t) \cup DefaultPermissions(t, DefaultKeys) : x.tenant = t
  BY DEF DefaultRoles, DefaultPermissions
<1>4. DOMAIN DefaultGrants(t) = {RolePermissions(role) : role \in DefaultRoles(t)}
  BY DEF DefaultGrants
<1>5. ASSUME NEW s \in DOMAIN DefaultGrants(t)
      PROVE  DefaultGrants(t)[s] \subseteq DefaultPermissions(t, DefaultKeys)
  <2>1. DefaultGrants(t)[s] =
          DefaultPermissions(t, IF s[2].name = "Admin" THEN DefaultKeys ELSE ReadKeys)
    BY <1>5 DEF DefaultGrants
  <2>2. DefaultPermissions(t, ReadKeys) \subseteq DefaultPermissions(t, DefaultKeys)
    BY AccessAssumption DEF DefaultPermissions
  <2> QED BY <2>1, <2>2
<1> QED BY <1>1, <1>2, <1>3, <1>4, <1>5

(* A new tenant grants to its default roles and to no other slot.          *)
LEMMA DefaultSlots ==
  ASSUME NEW t \in Tenant, NEW s \in Slot
  PROVE  s \in DOMAIN DefaultGrants(t) <=> s[1] = "role permissions" /\ s[2] \in DefaultRoles(t)
<1>1. DOMAIN DefaultGrants(t) = {<<"role permissions", role>> : role \in DefaultRoles(t)}
  BY Defaults DEF RolePermissions
<1>2. ASSUME s \in DOMAIN DefaultGrants(t)
      PROVE  s[1] = "role permissions" /\ s[2] \in DefaultRoles(t)
  <2> PICK role \in DefaultRoles(t) : s = <<"role permissions", role>>
    BY <1>1, <1>2
  <2> QED OBVIOUS
<1>3. ASSUME s[1] = "role permissions", s[2] \in DefaultRoles(t)
      PROVE  s \in DOMAIN DefaultGrants(t)
  <2>1. s = <<"role permissions", s[2]>>
    BY <1>3, SlotShapes
  <2> QED BY <1>1, <1>3, <2>1
<1> QED BY <1>2, <1>3

(* The step of a request at rest.                                          *)
LEMMA IdleAtRest == Idle.step = "idle"
BY DEF Idle

(* The states requests are put in are request states.                      *)
LEMMA RequestStates ==
  /\ Idle \in RequestState
  /\ \A u \in User : [step |-> "tenantless", user |-> u] \in RequestState
  /\ \A n \in Name, f \in User \cup {Unborn} :
       [step |-> "founding", name |-> n, founder |-> f] \in RequestState
  /\ \A u \in User, t \in Tenant, roles \in SUBSET Role :
       [step |-> "joining", user |-> u, tenant |-> t, roles |-> roles] \in RequestState
  /\ \A s \in Slot, t \in Tenant, xs \in SUBSET Item :
       [step |-> "checking", slot |-> s, tenant |-> t, items |-> xs] \in RequestState
  /\ \A s \in Slot, xs \in SUBSET Item :
       [step |-> "replacing", slot |-> s, items |-> xs] \in RequestState
  /\ \A s \in Slot, xs \in SUBSET Item, seen \in SUBSET Item :
       [step |-> "inserting", slot |-> s, items |-> xs, seen |-> seen] \in RequestState
  /\ \A row \in User \cup Item \cup Project : [step |-> "deleting", row |-> row] \in RequestState
  /\ \A u \in User, t \in Tenant :
       [step |-> "authenticated", user |-> u, tenant |-> t] \in RequestState
  /\ \A u \in User, t \in Tenant, ks \in SUBSET STRING :
       [step |-> "guarding", user |-> u, tenant |-> t, keys |-> ks] \in RequestState
  /\ \A u \in User, t \in Tenant, v \in {"admitted", "refused"} :
       [step |-> v, user |-> u, tenant |-> t] \in RequestState
BY DEF RequestState

(* What a request holds at each step.                                      *)
LEMMA RequestShapes ==
  ASSUME TypeOK, NEW r \in Request
  PROVE  /\ At(r, "tenantless") => requests[r].user \in User
         /\ At(r, "founding") =>
              requests[r].name \in Name /\ requests[r].founder \in User \cup {Unborn}
         /\ At(r, "joining") =>
              /\ requests[r].user \in User /\ requests[r].tenant \in Tenant
              /\ requests[r].roles \in SUBSET Role
         /\ requests[r].step \in ReplaceStep =>
              requests[r].slot \in Slot /\ requests[r].items \in SUBSET Item
         /\ At(r, "checking") => requests[r].tenant \in Tenant
         /\ At(r, "inserting") =>
              /\ requests[r].seen \in SUBSET Item
              /\ requests[r] = [step |-> "inserting", slot |-> requests[r].slot,
                                items |-> requests[r].items, seen |-> requests[r].seen]
         /\ requests[r].step \in GuardStep \cup {"refused"} =>
              requests[r].user \in User /\ requests[r].tenant \in Tenant
         /\ At(r, "guarding") => requests[r].keys \in SUBSET STRING
<1>1. requests[r] \in RequestState
  BY DEF TypeOK
<1> QED BY <1>1 DEF RequestState, At, ReplaceStep, GuardStep, Idle

(* A request that moves moves alone.                                       *)
LEMMA GoTypeOK ==
  ASSUME NEW r \in Request, NEW q, Go(r, q), requests \in [Request -> RequestState]
  PROVE  /\ q \in RequestState => requests' \in [Request -> RequestState]
         /\ requests'[r] = q
         /\ \A p \in Request : p # r => requests'[p] = requests[p]
BY DEF Go

(* The transaction that founds a tenant.                                   *)
LEMMA FoundEffect ==
  ASSUME TypeOK, NEW r \in Request, NEW t \in Tenant, NEW u \in User, Found(r, t, u)
  PROVE  /\ tenants[t] = NoTenant /\ members' = [members EXCEPT ![u] = t]
         /\ Go(r, Idle) /\ UNCHANGED projects
         /\ tenants' = [tenants EXCEPT ![t] = requests[r].name]
         /\ items' = [x \in Item |->
              IF x \in DefaultRoles(t) \cup DefaultPermissions(t, DefaultKeys)
              THEN "there" ELSE items[x]]
         /\ grants' \in [Slot -> SUBSET Item] /\ assigned' \in [Slot -> SUBSET Item]
         /\ \A s \in Slot :
              CASE s \in DOMAIN DefaultGrants(t) ->
                     /\ grants'[s] = DefaultGrants(t)[s]
                     /\ assigned'[s] = DefaultGrants(t)[s]
                [] s \notin DOMAIN DefaultGrants(t) /\ s = UserRoles(u) ->
                     /\ grants'[s] = grants[s] \cup {[tenant |-> t, name |-> "Admin"]}
                     /\ assigned'[s] = assigned[s] \cup {[tenant |-> t, name |-> "Admin"]}
                [] OTHER -> grants'[s] = grants[s] /\ assigned'[s] = assigned[s]
<1> DEFINE new == DefaultGrants(t)
           Admin == [tenant |-> t, name |-> "Admin"]
           Add(rows) == [s \in Slot |->
             IF s \in DOMAIN new THEN new[s]
             ELSE IF s = UserRoles(u) THEN rows[s] \cup {Admin} ELSE rows[s]]
<1>1. /\ grants' = Add(grants) /\ assigned' = Add(assigned)
  BY DEF Found
<1>2. /\ tenants[t] = NoTenant /\ members' = [members EXCEPT ![u] = t]
      /\ Go(r, Idle) /\ UNCHANGED projects
      /\ tenants' = [tenants EXCEPT ![t] = requests[r].name]
      /\ items' = [x \in Item |->
              IF x \in DefaultRoles(t) \cup DefaultPermissions(t, DefaultKeys)
              THEN "there" ELSE items[x]]
  BY DEF Found, Finish
<1>3. /\ \A s \in DOMAIN new : new[s] \in SUBSET Item
      /\ Admin \in Item
  BY Defaults DEF Item
<1> HIDE DEF new, Admin
<1>4. ASSUME NEW rows \in [Slot -> SUBSET Item] PROVE Add(rows) \in [Slot -> SUBSET Item]
  BY <1>3
<1>5. grants' \in [Slot -> SUBSET Item] /\ assigned' \in [Slot -> SUBSET Item]
  BY <1>1, <1>4 DEF TypeOK
<1>6. \A s \in Slot :
              CASE s \in DOMAIN new ->
                     /\ grants'[s] = new[s]
                     /\ assigned'[s] = new[s]
                [] s \notin DOMAIN new /\ s = UserRoles(u) ->
                     /\ grants'[s] = grants[s] \cup {Admin}
                     /\ assigned'[s] = assigned[s] \cup {Admin}
                [] OTHER -> grants'[s] = grants[s] /\ assigned'[s] = assigned[s]
  BY <1>1
<1> QED BY <1>2, <1>5, <1>6 DEF new, Admin

(* Founding a tenant touches the grants of its founder and of its default  *)
(* roles only.                                                             *)
LEMMA FoundElsewhere ==
  ASSUME TypeOK, NEW r \in Request, NEW t \in Tenant, NEW u \in User, Found(r, t, u),
         NEW s \in Slot, s \notin DOMAIN DefaultGrants(t), s # UserRoles(u)
  PROVE  grants'[s] = grants[s] /\ assigned'[s] = assigned[s]
BY FoundEffect

(* Deleting a row empties its slots and takes it out of the others.        *)
LEMMA WithoutType ==
  ASSUME NEW rows \in [Slot -> SUBSET Item], NEW row
  PROVE  /\ Without(rows, row) \in [Slot -> SUBSET Item]
         /\ \A s \in Slot : Without(rows, row)[s] = IF s[2] = row THEN {} ELSE rows[s] \ {row}
BY DEF Without

-----------------------------------------------------------------------------
(* The statements behind the routes.                                       *)
LEMMA HandleCases ==
  ASSUME NEW r \in Request, Handle(r)
  PROVE  \/ \E u \in User : ReadTenantless(r, u) \/ DeleteUser(r, u)
         \/ \E n \in Name : CheckName(r, n)
         \/ \E t \in Tenant, u \in User : FoundByRegistration(r, t, u) \/ FoundForUser(r, t, u)
         \/ \E t \in Tenant, roles \in Asked : CheckInvitation(r, t, roles)
         \/ JoinTenant(r)
         \/ \E row \in Deletable : FindForDeletion(r, row)
         \/ \E x \in Item : DeleteItem(r, x)
         \/ \E p \in Project : DeleteProject(r, p) \/ CreateProject(r, p)
         \/ \E s \in Slot, t \in Tenant, xs \in Asked : FindOwner(r, s, t, xs)
         \/ \E s \in Slot : CheckItems(r, s) \/ DeleteHeld(r, s) \/ InsertItems(r, s)
         \/ \E u \in User, t \in Tenant : Authenticate(r, u, t)
         \/ ReadRoleKeys(r) \/ Judge(r) \/ Fail(r)
<1>1. ASSUME NEW s \in Slot, Replace(r, s)
      PROVE  \/ \E t \in Tenant, xs \in Asked : FindOwner(r, s, t, xs)
             \/ CheckItems(r, s) \/ DeleteHeld(r, s) \/ InsertItems(r, s)
  BY <1>1 DEF Replace
<1>2. UserRoutes(r) => \/ \E u \in User : DeleteUser(r, u)
                       \/ \E s \in Slot : Replace(r, s)
  BY SlotsOf DEF UserRoutes, AssignRoles, AssignPermissions
<1>3. RoleRoutes(r) => \/ \E x \in Item : DeleteItem(r, x)
                       \/ \E s \in Slot : Replace(r, s)
  BY SlotsOf DEF RoleRoutes, UpdatePermissions, DeleteRole, Item
<1>4. PermissionRoutes(r) => \E x \in Item : DeleteItem(r, x)
  BY DEF PermissionRoutes, DeletePermission, Item
<1> QED BY <1>1, <1>2, <1>3, <1>4
        DEF Handle, TenantRoutes, TenantManagementRoutes, ProjectRoutes

(* A step that neither grants nor assigns.                                 *)
TablesKept == UNCHANGED <<tables, assigned>>

(* InsertItems ends one request and takes from the sight of the others.    *)
LEMMA InsertItemsRequests ==
  ASSUME TypeOK, NEW r \in Request, NEW s \in Slot, InsertItems(r, s)
  PROVE  /\ requests' \in [Request -> RequestState]
         /\ requests'[r] = Idle
         /\ \A p \in Request \ {r} :
              \/ requests'[p] = requests[p]
              \/ /\ At(p, "inserting") /\ At(p, "inserting")'
                 /\ requests[p].slot = s /\ requests'[p].slot = s
                 /\ requests'[p].items = requests[p].items
<1> DEFINE deleted == grants[s] \cap requests[r].seen
<1>1. requests' = [p \in Request |->
       IF p = r THEN Idle
       ELSE IF At(p, "inserting") /\ requests[p].slot = s
            THEN [requests[p] EXCEPT !.seen = @ \ deleted]
            ELSE requests[p]]
  BY DEF InsertItems
<1> HIDE DEF deleted
<1>2. ASSUME NEW p \in Request, At(p, "inserting"), requests[p].slot = s
      PROVE  /\ [requests[p] EXCEPT !.seen = @ \ deleted] \in RequestState
             /\ [requests[p] EXCEPT !.seen = @ \ deleted].step = "inserting"
             /\ [requests[p] EXCEPT !.seen = @ \ deleted].slot = s
             /\ [requests[p] EXCEPT !.seen = @ \ deleted].items = requests[p].items
  <2> DEFINE q == requests[p]
             n == [step |-> "inserting", slot |-> q.slot, items |-> q.items,
                   seen |-> q.seen \ deleted]
  <2>1. /\ q.slot \in Slot /\ q.items \in SUBSET Item /\ q.seen \in SUBSET Item
        /\ q = [step |-> "inserting", slot |-> q.slot, items |-> q.items, seen |-> q.seen]
    BY <1>2, RequestShapes DEF At, ReplaceStep
  <2>2. n \in RequestState
    BY <2>1, RequestStates
  <2>3. [q EXCEPT !.seen = @ \ deleted] = n
    BY <2>1
  <2> QED BY <2>2, <2>3, <1>2
<1>3. ASSUME NEW p \in Request PROVE requests'[p] \in RequestState
  BY <1>1, <1>2, <1>3, RequestStates DEF TypeOK
<1>4. requests' \in [Request -> RequestState]
  BY <1>1, <1>3
<1> QED BY <1>1, <1>2, <1>4 DEF At

(* Keys a user holds through roles or directly are strings.                *)
LEMMA KeysAreStrings ==
  ASSUME KindsKept, NEW u \in User
  PROVE  RoleKeys(u) \subseteq STRING /\ DirectKeys(u) \subseteq STRING
<1>1. \A ps \in SUBSET Permission : KeysOf(ps) \subseteq STRING
  BY AccessAssumption DEF KeysOf
<1>2. grants[UserPermissions(u)] \subseteq Permission
  BY SlotsOf DEF KindsKept, KindOf, UserPermissions
<1>3. \A role \in grants[UserRoles(u)] : grants[RolePermissions(role)] \subseteq Permission
  <2>1. grants[UserRoles(u)] \subseteq Role
    BY SlotsOf DEF KindsKept, KindOf, UserRoles
  <2>2. \A role \in Role : grants[RolePermissions(role)] \subseteq Permission
    BY SlotsOf DEF KindsKept, KindOf, RolePermissions
  <2> QED BY <2>1, <2>2
<1> QED BY <1>1, <1>2, <1>3 DEF RoleKeys, DirectKeys

(* Keys are strings, for the comparison the guard makes.                   *)
KeysKnown == \A u \in User : Effective(u) \subseteq STRING

(* Keys of users are known as long as rows keep their kinds.               *)
LEMMA KeysOfUsers == KindsKept => KeysKnown
BY KeysAreStrings DEF Effective, KeysKnown

(* What each request is sent to.                                           *)
LEMMA RequestsTyped ==
  ASSUME TypeOK, KindsKept, Step
  PROVE  requests' \in [Request -> RequestState]
<1> USE RequestStates
<1>1. ASSUME NEW r \in Request, NEW q \in RequestState, Go(r, q)
      PROVE  requests' \in [Request -> RequestState]
  BY <1>1, GoTypeOK DEF TypeOK
<1>2. ASSUME NEW r \in Request, Handle(r) PROVE requests' \in [Request -> RequestState]
  <2>1. ASSUME NEW u \in User, ReadTenantless(r, u) \/ DeleteUser(r, u)
        PROVE  requests' \in [Request -> RequestState]
    BY <2>1, <1>1 DEF ReadTenantless, DeleteUser, Finish
  <2>2. ASSUME NEW n \in Name, CheckName(r, n) PROVE requests' \in [Request -> RequestState]
    <3>1. requests[r] # Idle => requests[r].user \in User
      BY <2>2, RequestShapes DEF CheckName
    <3>2. (IF requests[r] = Idle THEN Unborn ELSE requests[r].user) \in User \cup {Unborn}
      BY <3>1
    <3> QED BY <2>2, <3>2, <1>1 DEF CheckName
  <2>3. ASSUME NEW t \in Tenant, NEW u \in User,
               FoundByRegistration(r, t, u) \/ FoundForUser(r, t, u)
        PROVE  requests' \in [Request -> RequestState]
    BY <2>3, <1>1 DEF FoundByRegistration, FoundForUser, Found, Finish
  <2>4. ASSUME NEW t \in Tenant, NEW roles \in Asked, CheckInvitation(r, t, roles)
        PROVE  requests' \in [Request -> RequestState]
    BY <2>4, <1>1, RequestShapes DEF CheckInvitation, ItemsOf
  <2>5. CASE JoinTenant(r) \/ Fail(r)
    BY <2>5, <1>1 DEF JoinTenant, Fail, Finish
  <2>6. ASSUME NEW row \in Deletable, FindForDeletion(r, row)
        PROVE  requests' \in [Request -> RequestState]
    <3>1. row \in User \cup Item \cup Project
      BY AccessAssumption DEF Item
    <3> QED BY <2>6, <3>1, <1>1 DEF FindForDeletion
  <2>7. ASSUME NEW x \in Item, DeleteItem(r, x) PROVE requests' \in [Request -> RequestState]
    BY <2>7, <1>1 DEF DeleteItem, Finish
  <2>8. ASSUME NEW p \in Project, DeleteProject(r, p) \/ CreateProject(r, p)
        PROVE  requests' \in [Request -> RequestState]
    BY <2>8, <1>1 DEF DeleteProject, CreateProject, Finish
  <2>9. ASSUME NEW s \in Slot, NEW t \in Tenant, NEW xs \in Asked, FindOwner(r, s, t, xs)
        PROVE  requests' \in [Request -> RequestState]
    <3>1. xs \in SUBSET Item
      BY AccessAssumption DEF Item
    <3> QED BY <2>9, <3>1, <1>1 DEF FindOwner
  <2>10. ASSUME NEW s \in Slot, CheckItems(r, s) \/ DeleteHeld(r, s)
         PROVE  requests' \in [Request -> RequestState]
    <3>1. requests[r].slot \in Slot /\ requests[r].items \in SUBSET Item
      BY <2>10, RequestShapes DEF CheckItems, DeleteHeld, At, ReplaceStep
    <3>2. grants[requests[r].slot] \in SUBSET Item
      BY <3>1 DEF TypeOK
    <3> QED BY <2>10, <3>1, <3>2, <1>1 DEF CheckItems, DeleteHeld
  <2>11. ASSUME NEW s \in Slot, InsertItems(r, s) PROVE requests' \in [Request -> RequestState]
    BY <2>11, InsertItemsRequests
  <2>12. ASSUME NEW u \in User, NEW t \in Tenant, Authenticate(r, u, t)
         PROVE  requests' \in [Request -> RequestState]
    BY <2>12, <1>1 DEF Authenticate
  <2>13. CASE ReadRoleKeys(r)
    <3>1. requests[r].user \in User /\ requests[r].tenant \in Tenant
      BY <2>13, RequestShapes DEF ReadRoleKeys, At, GuardStep
    <3> QED BY <2>13, <3>1, <1>1, KeysAreStrings DEF ReadRoleKeys
  <2>14. CASE Judge(r)
    <3>1. requests[r].user \in User /\ requests[r].tenant \in Tenant
      BY <2>14, RequestShapes DEF Judge, At, GuardStep
    <3> DEFINE v == IF Required \subseteq requests[r].keys \cup DirectKeys(requests[r].user)
                    THEN "admitted" ELSE "refused"
    <3>2. v \in {"admitted", "refused"} /\ Go(r, [step |-> v, user |-> requests[r].user,
                                                  tenant |-> requests[r].tenant])
      BY <2>14 DEF Judge
    <3> HIDE DEF v
    <3> QED BY <3>1, <3>2, <1>1
  <2> QED BY <1>2, HandleCases, <2>1, <2>2, <2>3, <2>4, <2>5, <2>6, <2>7, <2>8, <2>9, <2>10,
             <2>11, <2>12, <2>13, <2>14
<1> QED BY <1>2 DEF Step, CreateUser, CreateRole, CreatePermission, CreateItem, TypeOK


(* Which steps change the tables that the guarantees compare.              *)
LEMMA TablesChange ==
  ASSUME Step
  PROVE  \/ UNCHANGED <<tenants, members, items, grants, assigned>>
         \/ \E r \in Request, t \in Tenant, u \in User :
              FoundByRegistration(r, t, u) \/ FoundForUser(r, t, u)
         \/ \E r \in Request : JoinTenant(r)
         \/ \E u \in User, t \in Tenant : CreateUser(u, t)
         \/ \E x \in Item : CreateItem(x)
         \/ \E r \in Request, u \in User : DeleteUser(r, u)
         \/ \E r \in Request, x \in Item : DeleteItem(r, x)
         \/ \E r \in Request, s \in Slot : InsertItems(r, s)
<1>1. ASSUME NEW r \in Request, Handle(r)
      PROVE  \/ UNCHANGED <<tenants, members, items, grants, assigned>>
             \/ \E t \in Tenant, u \in User :
                  FoundByRegistration(r, t, u) \/ FoundForUser(r, t, u)
             \/ JoinTenant(r)
             \/ \E u \in User : DeleteUser(r, u)
             \/ \E x \in Item : DeleteItem(r, x)
             \/ \E s \in Slot : InsertItems(r, s)
  BY <1>1, HandleCases
     DEF ReadTenantless, CheckName, CheckInvitation, FindForDeletion, DeleteProject,
         CreateProject, FindOwner, CheckItems, DeleteHeld, Authenticate, ReadRoleKeys,
         Judge, Fail, tables
<1> QED BY <1>1 DEF Step, CreateRole, CreatePermission

(* A transaction of a user that comes to a tenant.                         *)
LEMMA JoinEffect ==
  ASSUME TypeOK, NEW r \in Request, JoinTenant(r)
  PROVE  \E u \in User, t \in Tenant :
           /\ Mover(r, u) /\ Exists(u) /\ requests[r].tenant = t
           /\ members' = [members EXCEPT ![u] = t]
           /\ requests[r].roles \in SUBSET Role
           /\ \A role \in requests[r].roles : There(role)
           /\ grants' = [grants EXCEPT ![UserRoles(u)] = @ \cup requests[r].roles]
           /\ assigned' = [assigned EXCEPT ![UserRoles(u)] = @ \cup requests[r].roles]
           /\ Go(r, Idle) /\ UNCHANGED <<tenants, items, projects>>
<1>1. /\ requests[r].user \in User /\ requests[r].tenant \in Tenant
      /\ requests[r].roles \in SUBSET Role
  BY RequestShapes DEF JoinTenant
<1> QED BY <1>1 DEF JoinTenant, Mover, Finish

(* The part of the type invariant about the tables.                        *)
TablesTyped ==
  /\ tenants \in [Tenant -> Name \cup {NoTenant}]
  /\ members \in [User -> Tenant \cup {Tenantless, Unborn, Gone}]
  /\ items \in [Item -> {"unborn", "there", "gone"}]
  /\ grants \in [Slot -> SUBSET Item]
  /\ assigned \in [Slot -> SUBSET Item]

(* Every step keeps the types of the tables.                               *)
LEMMA TablesTypedStep ==
  ASSUME TypeOK, KindsKept, Step
  PROVE  TablesTyped'
<1> USE DEF TablesTyped
<1>1. TablesTyped
  BY DEF TypeOK
<1>2. CASE UNCHANGED <<tenants, members, items, grants, assigned>>
  BY <1>1, <1>2
<1>3. ASSUME NEW r \in Request, NEW t \in Tenant, NEW u \in User,
             FoundByRegistration(r, t, u) \/ FoundForUser(r, t, u)
      PROVE  TablesTyped'
  <2>1. Found(r, t, u) /\ At(r, "founding")
    BY <1>3 DEF FoundByRegistration, FoundForUser
  <2>2. requests[r].name \in Name
    BY <2>1, RequestShapes
  <2>3. /\ members' = [members EXCEPT ![u] = t]
        /\ tenants' = [tenants EXCEPT ![t] = requests[r].name]
        /\ items' = [x \in Item |->
              IF x \in DefaultRoles(t) \cup DefaultPermissions(t, DefaultKeys)
              THEN "there" ELSE items[x]]
        /\ grants' \in [Slot -> SUBSET Item] /\ assigned' \in [Slot -> SUBSET Item]
    BY <2>1, FoundEffect
  <2> QED BY <1>1, <2>2, <2>3
<1>4. ASSUME NEW r \in Request, JoinTenant(r) PROVE TablesTyped'
  <2>1. requests[r].roles \in SUBSET Role => requests[r].roles \in SUBSET Item
    BY DEF Item
  <2> QED BY <1>1, <1>4, <2>1, JoinEffect
<1>5. ASSUME NEW u \in User, NEW t \in Tenant, CreateUser(u, t) PROVE TablesTyped'
  BY <1>1, <1>5 DEF CreateUser
<1>6. ASSUME NEW x \in Item, CreateItem(x) PROVE TablesTyped'
  BY <1>1, <1>6 DEF CreateItem
<1>7. ASSUME NEW r \in Request, NEW u \in User, DeleteUser(r, u) PROVE TablesTyped'
  BY <1>1, <1>7, WithoutType DEF DeleteUser
<1>8. ASSUME NEW r \in Request, NEW x \in Item, DeleteItem(r, x) PROVE TablesTyped'
  BY <1>1, <1>8, WithoutType DEF DeleteItem
<1>9. ASSUME NEW r \in Request, NEW s \in Slot, InsertItems(r, s) PROVE TablesTyped'
  <2>1. requests[r].items \in SUBSET Item
    BY <1>9, RequestShapes DEF InsertItems, At, ReplaceStep
  <2> QED BY <1>1, <1>9, <2>1 DEF InsertItems
<1> QED BY <1>2, <1>3, <1>4, <1>5, <1>6, <1>7, <1>8, <1>9, TablesChange

(* Every step keeps the type of the projects.                              *)
LEMMA ProjectsTyped ==
  ASSUME TypeOK, Step
  PROVE  projects' \in [Project -> [tenant : Tenant, owner : User] \cup {Unborn, Gone}]
<1>1. ASSUME NEW r \in Request, Handle(r)
      PROVE  projects' \in [Project -> [tenant : Tenant, owner : User] \cup {Unborn, Gone}]
  <2>1. ASSUME NEW u \in User, DeleteUser(r, u)
        PROVE  projects' \in [Project -> [tenant : Tenant, owner : User] \cup {Unborn, Gone}]
    BY <2>1 DEF DeleteUser, TypeOK
  <2>2. ASSUME NEW p \in Project, DeleteProject(r, p)
        PROVE  projects' \in [Project -> [tenant : Tenant, owner : User] \cup {Unborn, Gone}]
    BY <2>2 DEF DeleteProject, TypeOK
  <2>3. ASSUME NEW p \in Project, CreateProject(r, p)
        PROVE  projects' \in [Project -> [tenant : Tenant, owner : User] \cup {Unborn, Gone}]
    <3>1. requests[r].user \in User /\ requests[r].tenant \in Tenant
      BY <2>3, RequestShapes DEF CreateProject, At, GuardStep
    <3> QED BY <2>3, <3>1 DEF CreateProject, TypeOK
  <2>4. CASE UNCHANGED projects
    BY <2>4 DEF TypeOK
  <2> QED BY <1>1, HandleCases, <2>1, <2>2, <2>3, <2>4
      DEF ReadTenantless, CheckName, FoundByRegistration, FoundForUser, Found,
          CheckInvitation, JoinTenant, FindForDeletion, DeleteItem, FindOwner, CheckItems,
          DeleteHeld, InsertItems, Authenticate, ReadRoleKeys, Judge, Fail, tables
<1>2. UNCHANGED projects => projects' \in [Project -> [tenant : Tenant, owner : User] \cup {Unborn, Gone}]
  BY DEF TypeOK
<1> QED BY <1>1, <1>2 DEF Step, CreateUser, CreateRole, CreatePermission, CreateItem


-----------------------------------------------------------------------------
(* How a request comes to the step it is at: what it read, and from which  *)
(* step it came.                                                           *)
Entered(r) ==
  LET q == requests[r]
      n == requests'[r] IN
  \/ n.step = "tenantless" /\ members[n.user] = Tenantless
  \/ /\ n.step = "founding"
     /\ n.founder = Unborn \/ (At(r, "tenantless") /\ n.founder = q.user)
  \/ /\ n.step = "joining" /\ At(r, "tenantless") /\ n.user = q.user
     /\ n.roles \subseteq ItemsOf(n.tenant)
  \/ /\ n.step = "checking" /\ n.slot \in Slot /\ n.tenant \in Tenant
     /\ OwnedIn(n.slot, n.tenant) /\ n.items \subseteq KindOf(n.slot)
  \/ /\ n.step = "replacing" /\ At(r, "checking") /\ n.slot = q.slot /\ n.items = q.items
     /\ n.items \subseteq ItemsOf(q.tenant)
  \/ /\ n.step = "inserting" /\ At(r, "replacing") /\ n.slot = q.slot /\ n.items = q.items
     /\ n.seen = grants[q.slot]
  \/ n.step = "deleting"
  \/ /\ n.step = "authenticated" /\ n.tenant \in Tenant
     /\ members[n.user] \in {Tenantless, n.tenant}
  \/ ReadRoleKeys(r)
  \/ Judge(r)

(* Another replacement of the slot succeeds in the middle of this one.     *)
Impeded(r) ==
  /\ At(r, "inserting") /\ At(r, "inserting")'
  /\ requests'[r].slot = requests[r].slot /\ requests'[r].items = requests[r].items
  /\ \E p \in Request \ {r} : At(p, "inserting") /\ requests[p].slot = requests[r].slot

(* How a request may move in one step.                                     *)
Went(r) ==
  \/ requests'[r] = requests[r]
  \/ requests'[r] = Idle
  \/ Impeded(r)
  \/ TablesKept /\ Entered(r)

(* Every step moves a request in one of these ways.                        *)
LEMMA RequestsChange ==
  ASSUME TypeOK, Step, NEW p \in Request
  PROVE  Went(p)
<1> USE DEF Went
<1>1. ASSUME NEW r \in Request, NEW q, Go(r, q),
             q = Idle \/ (TablesKept /\ (p = r => Entered(r)))
      PROVE  Went(p)
  BY <1>1, GoTypeOK DEF TypeOK
<1>2. ASSUME NEW r \in Request, Handle(r) PROVE Went(p)
  <2>1. ASSUME NEW u \in User, ReadTenantless(r, u) \/ DeleteUser(r, u) PROVE Went(p)
    <3>1. CASE ReadTenantless(r, u)
      <4>1. Entered(r)
        BY <3>1, GoTypeOK DEF ReadTenantless, Entered, TypeOK, HasNoTenant
      <4> QED BY <3>1, <4>1, <1>1 DEF ReadTenantless, TablesKept
    <3>2. CASE DeleteUser(r, u)
      BY <3>2, <1>1 DEF DeleteUser, Finish
    <3> QED BY <2>1, <3>1, <3>2
  <2>2. ASSUME NEW n \in Name, CheckName(r, n) PROVE Went(p)
    <3>1. Entered(r)
      BY <2>2, GoTypeOK DEF CheckName, Entered, TypeOK
    <3> QED BY <2>2, <3>1, <1>1 DEF CheckName, TablesKept
  <2>3. ASSUME NEW t \in Tenant, NEW u \in User,
               FoundByRegistration(r, t, u) \/ FoundForUser(r, t, u)
        PROVE  Went(p)
    BY <2>3, <1>1 DEF FoundByRegistration, FoundForUser, Found, Finish
  <2>4. ASSUME NEW t \in Tenant, NEW roles \in Asked, CheckInvitation(r, t, roles)
        PROVE  Went(p)
    <3>1. Entered(r)
      BY <2>4, GoTypeOK DEF CheckInvitation, Entered, TypeOK
    <3> QED BY <2>4, <3>1, <1>1 DEF CheckInvitation, TablesKept
  <2>5. CASE JoinTenant(r) \/ Fail(r)
    BY <2>5, <1>1 DEF JoinTenant, Fail, Finish
  <2>6. ASSUME NEW row \in Deletable, FindForDeletion(r, row) PROVE Went(p)
    <3>1. Entered(r)
      BY <2>6, GoTypeOK DEF FindForDeletion, Entered, TypeOK
    <3> QED BY <2>6, <3>1, <1>1 DEF FindForDeletion, TablesKept
  <2>7. ASSUME NEW x \in Item, DeleteItem(r, x) PROVE Went(p)
    BY <2>7, <1>1 DEF DeleteItem, Finish
  <2>8. ASSUME NEW x \in Project, DeleteProject(r, x) \/ CreateProject(r, x) PROVE Went(p)
    BY <2>8, <1>1 DEF DeleteProject, CreateProject, Finish
  <2>9. ASSUME NEW s \in Slot, NEW t \in Tenant, NEW xs \in Asked, FindOwner(r, s, t, xs)
        PROVE  Went(p)
    <3>1. Entered(r)
      BY <2>9, GoTypeOK DEF FindOwner, Entered, TypeOK
    <3> QED BY <2>9, <3>1, <1>1 DEF FindOwner, TablesKept
  <2>10. ASSUME NEW s \in Slot, CheckItems(r, s) \/ DeleteHeld(r, s) PROVE Went(p)
    <3>1. Entered(r)
      BY <2>10, GoTypeOK DEF CheckItems, DeleteHeld, Entered, TypeOK
    <3> QED BY <2>10, <3>1, <1>1 DEF CheckItems, DeleteHeld, TablesKept
  <2>11. ASSUME NEW s \in Slot, InsertItems(r, s) PROVE Went(p)
    <3>1. At(r, "inserting") /\ requests[r].slot = s
      BY <2>11 DEF InsertItems
    <3> QED BY <2>11, <3>1, InsertItemsRequests DEF Impeded
  <2>12. ASSUME NEW u \in User, NEW t \in Tenant, Authenticate(r, u, t) PROVE Went(p)
    <3>1. Entered(r)
      BY <2>12, GoTypeOK DEF Authenticate, Entered, TypeOK
    <3> QED BY <2>12, <3>1, <1>1 DEF Authenticate, TablesKept
  <2>13. CASE ReadRoleKeys(r)
    <3>1. Entered(r)
      BY <2>13 DEF Entered
    <3> QED BY <2>13, <3>1, <1>1 DEF ReadRoleKeys, TablesKept
  <2>14. CASE Judge(r)
    <3>1. Entered(r)
      BY <2>14 DEF Entered
    <3> QED BY <2>14, <3>1, <1>1 DEF Judge, TablesKept
  <2> QED BY <1>2, HandleCases, <2>1, <2>2, <2>3, <2>4, <2>5, <2>6, <2>7, <2>8, <2>9, <2>10,
             <2>11, <2>12, <2>13, <2>14
<1> QED BY <1>2 DEF Step, CreateUser, CreateRole, CreatePermission, CreateItem

(* The two steps of a guard, seen from the request.                        *)
LEMMA GuardSteps ==
  ASSUME TypeOK, NEW r \in Request
  PROVE  /\ ReadRoleKeys(r) =>
              /\ At(r, "authenticated") /\ At(r, "guarding")'
              /\ requests'[r].user = requests[r].user
              /\ requests'[r].tenant = requests[r].tenant
              /\ requests'[r].keys = RoleKeys(requests[r].user)
         /\ Judge(r) =>
              /\ At(r, "guarding") /\ requests'[r].step \in {"admitted", "refused"}
              /\ requests'[r].user = requests[r].user
              /\ requests'[r].tenant = requests[r].tenant
              /\ At(r, "admitted")' <=>
                   Required \subseteq requests[r].keys \cup DirectKeys(requests[r].user)
<1>1. ReadRoleKeys(r) => At(r, "authenticated") /\ requests'[r] =
        [step |-> "guarding", user |-> requests[r].user, tenant |-> requests[r].tenant,
         keys |-> RoleKeys(requests[r].user)]
  BY GoTypeOK DEF ReadRoleKeys, TypeOK
<1>2. Judge(r) => At(r, "guarding") /\ requests'[r] =
        [step |-> IF Required \subseteq requests[r].keys \cup DirectKeys(requests[r].user)
                  THEN "admitted" ELSE "refused",
         user |-> requests[r].user, tenant |-> requests[r].tenant]
  BY GoTypeOK DEF Judge, TypeOK
<1> QED BY <1>1, <1>2 DEF At


(* Slots of roles keep holding roles, the others permissions.              *)
LEMMA KindsStep ==
  ASSUME TypeOK, KindsKept, Step
  PROVE  KindsKept'
<1>1. \A s \in Slot : grants'[s] \subseteq KindOf(s)
  <2> SUFFICES ASSUME NEW s \in Slot PROVE grants'[s] \subseteq KindOf(s)
    OBVIOUS
  <2>0. grants[s] \subseteq KindOf(s)
    BY DEF KindsKept
  <2>1. ASSUME NEW r \in Request, NEW t \in Tenant, NEW u \in User, Found(r, t, u)
        PROVE  grants'[s] \subseteq KindOf(s)
    <3>1. CASE s \in DOMAIN DefaultGrants(t)
      <4>1. KindOf(s) = Permission
        BY <3>1, DefaultSlots DEF KindOf
      <4> QED BY <2>1, <3>1, <4>1, FoundEffect, Defaults
    <3>2. CASE s \notin DOMAIN DefaultGrants(t) /\ s = UserRoles(u)
      <4>1. KindOf(s) = Role /\ [tenant |-> t, name |-> "Admin"] \in Role
        BY <3>2, Defaults DEF KindOf, UserRoles
      <4> QED BY <2>0, <2>1, <3>2, <4>1, FoundEffect
    <3> QED BY <2>0, <2>1, <3>1, <3>2, FoundEffect
  <2>2. ASSUME NEW r \in Request, JoinTenant(r) PROVE grants'[s] \subseteq KindOf(s)
    <3> PICK u \in User :
          /\ requests[r].roles \in SUBSET Role
          /\ grants' = [grants EXCEPT ![UserRoles(u)] = @ \cup requests[r].roles]
      BY <2>2, JoinEffect
    <3>1. KindOf(UserRoles(u)) = Role
      BY DEF KindOf, UserRoles
    <3> QED BY <2>0, <3>1 DEF TypeOK
  <2>3. ASSUME NEW r \in Request, NEW u \in User, DeleteUser(r, u)
        PROVE  grants'[s] \subseteq KindOf(s)
    <3>1. grants \in [Slot -> SUBSET Item] /\ grants' = Without(grants, u)
      BY <2>3 DEF DeleteUser, TypeOK
    <3>2. grants'[s] = IF s[2] = u THEN {} ELSE grants[s] \ {u}
      BY <3>1, WithoutType
    <3> QED BY <2>0, <3>2
  <2>4. ASSUME NEW r \in Request, NEW x \in Item, DeleteItem(r, x)
        PROVE  grants'[s] \subseteq KindOf(s)
    <3>1. grants \in [Slot -> SUBSET Item] /\ grants' = Without(grants, x)
      BY <2>4 DEF DeleteItem, TypeOK
    <3>2. grants'[s] = IF s[2] = x THEN {} ELSE grants[s] \ {x}
      BY <3>1, WithoutType
    <3> QED BY <2>0, <3>2
  <2>5. ASSUME NEW r \in Request, NEW w \in Slot, InsertItems(r, w)
        PROVE  grants'[s] \subseteq KindOf(s)
    <3>1. requests[r].items \subseteq KindOf(w)
      BY <2>5 DEF InsertItems, At, KindsKept, ReplaceStep
    <3>2. grants' = [grants EXCEPT ![w] = (grants[w] \ requests[r].seen) \cup requests[r].items]
      BY <2>5 DEF InsertItems
    <3> QED BY <2>0, <3>1, <3>2 DEF TypeOK
  <2> QED BY <2>0, <2>1, <2>2, <2>3, <2>4, <2>5, TablesChange
          DEF FoundByRegistration, FoundForUser, CreateUser, CreateItem
<1>2. ASSUME NEW r \in Request, requests'[r].step \in ReplaceStep
      PROVE  requests'[r].items \subseteq KindOf(requests'[r].slot)
  <2> USE DEF ReplaceStep, At
  <2>1. requests[r].step \in ReplaceStep => requests[r].items \subseteq KindOf(requests[r].slot)
    BY DEF KindsKept
  <2>2. Went(r)
    BY RequestsChange
  <2>3. CASE Impeded(r)
    BY <2>1, <2>3 DEF Impeded
  <2>4. CASE Entered(r)
    BY <1>2, <2>1, <2>4, GuardSteps DEF Entered
  <2> QED BY <1>2, <2>1, <2>2, <2>3, <2>4 DEF Went, Idle
<1> QED BY <1>1, <1>2 DEF KindsKept, KindOf

-----------------------------------------------------------------------------
(* Type correctness.                                                       *)
WitnessType == [always : SUBSET STRING, ever : SUBSET STRING, steady : BOOLEAN]

(* What the witness of one request becomes.                                *)
LEMMA Witnessed ==
  ASSUME Witness, NEW r \in Request
  PROVE  LET u == requests[r].user IN
         /\ At(r, "authenticated") /\ At(r, "guarding")' =>
              witnessed'[r] = [always |-> Effective(u)', ever |-> Effective(u)', steady |-> TRUE]
         /\ At(r, "guarding") /\ At(r, "guarding")' =>
              witnessed'[r] =
                [always |-> witnessed[r].always \cap Effective(u)',
                 ever |-> witnessed[r].ever \cup Effective(u)',
                 steady |-> witnessed[r].steady /\ RoleKeys(u)' = RoleKeys(u)]
         /\ requests'[r].step \in {"admitted", "refused"} => witnessed'[r] = witnessed[r]
         /\ \/ At(r, "guarding")' /\ (At(r, "authenticated") \/ At(r, "guarding"))
            \/ requests'[r].step \in {"admitted", "refused"}
            \/ witnessed'[r] = [always |-> {}, ever |-> {}, steady |-> TRUE]
<1> DEFINE u == requests[r].user
<1>1. witnessed'[r] =
    CASE At(r, "authenticated") /\ At(r, "guarding")' ->
           [always |-> Effective(u)', ever |-> Effective(u)', steady |-> TRUE]
      [] At(r, "guarding") /\ At(r, "guarding")' ->
           [always |-> witnessed[r].always \cap Effective(u)',
            ever |-> witnessed[r].ever \cup Effective(u)',
            steady |-> witnessed[r].steady /\ RoleKeys(u)' = RoleKeys(u)]
      [] requests'[r].step \in {"admitted", "refused"} -> witnessed[r]
      [] OTHER -> [always |-> {}, ever |-> {}, steady |-> TRUE]
  BY DEF Witness
<1> QED BY <1>1 DEF At


(* Every step keeps the types.                                             *)
LEMMA TypeStep ==
  ASSUME TypeOK, KindsKept, [Next]_vars
  PROVE  TypeOK' /\ KindsKept'
<1>1. CASE Next
  <2>1. Step /\ Witness /\ contended' = contended \cup HeldByTwo' \cup Moved'
        /\ served' \in {served, served + 1} /\ served' <= MaxServed
    BY <1>1 DEF Next
  <2>2. KindsKept'
    BY <2>1, KindsStep
  <2>3. requests' \in [Request -> RequestState]
    BY <2>1, RequestsTyped
  <2>4. contended' \subseteq User \cup Slot
    BY <2>1 DEF HeldByTwo, Moved, TypeOK
  <2>5. served' \in 0 .. MaxServed
    BY <2>1, AccessAssumption DEF TypeOK
  <2>6. witnessed' \in [Request -> WitnessType]
    <3>1. ASSUME NEW r \in Request PROVE witnessed'[r] \in WitnessType
      <4> DEFINE u == requests[r].user
                 w == witnessed[r]
      <4>1. /\ w.always \in SUBSET STRING /\ w.ever \in SUBSET STRING /\ w.steady \in BOOLEAN
            /\ w \in WitnessType
        BY DEF TypeOK, WitnessType
      <4>2. At(r, "guarding")' => requests'[r].user \in User
        <5>1. requests'[r] \in RequestState
          BY <2>3
        <5> QED BY <5>1 DEF RequestState, At, Idle
      <4>3. At(r, "guarding")' => Effective(u)' \subseteq STRING
        <5>1. KeysKnown'
          BY <2>2, KeysOfUsers, PTL
        <5> QED BY <4>2, <5>1 DEF KeysKnown
      <4>4. CASE At(r, "authenticated") /\ At(r, "guarding")'
        <5>1. Effective(u)' \in SUBSET STRING
          BY <4>3, <4>4
        <5>2. witnessed'[r] =
                [always |-> Effective(u)', ever |-> Effective(u)', steady |-> TRUE]
          BY <2>1, <4>4, Witnessed
        <5> QED BY <5>1, <5>2 DEF WitnessType
      <4>5. CASE At(r, "guarding") /\ At(r, "guarding")'
        <5> DEFINE always == w.always \cap Effective(u)'
                   ever == w.ever \cup Effective(u)'
                   steady == w.steady /\ RoleKeys(u)' = RoleKeys(u)
        <5>1. always \in SUBSET STRING /\ ever \in SUBSET STRING
          BY <4>1, <4>3, <4>5
        <5>2. steady \in BOOLEAN
          BY <4>1
        <5>3. witnessed'[r] = [always |-> always, ever |-> ever, steady |-> steady]
          BY <2>1, <4>5, Witnessed
        <5> HIDE DEF always, ever, steady
        <5> QED BY <5>1, <5>2, <5>3 DEF WitnessType
      <4>6. CASE requests'[r].step \in {"admitted", "refused"}
        BY <2>1, <4>1, <4>6, Witnessed
      <4>7. CASE witnessed'[r] = [always |-> {}, ever |-> {}, steady |-> TRUE]
        BY <4>7 DEF WitnessType
      <4> QED BY <2>1, <4>4, <4>5, <4>6, <4>7, Witnessed
    <3>2. witnessed' = [r \in Request |-> witnessed'[r]]
      BY <2>1 DEF Witness
    <3> QED BY <3>1, <3>2
  <2>7. TablesTyped'
    BY <2>1, TablesTypedStep
  <2>8. projects' \in [Project -> [tenant : Tenant, owner : User] \cup {Unborn, Gone}]
    BY <2>1, ProjectsTyped
  <2> QED BY <2>2, <2>3, <2>4, <2>5, <2>6, <2>7, <2>8 DEF TypeOK, TablesTyped, WitnessType
<1>2. CASE UNCHANGED vars
  BY <1>2 DEF vars, tables, TypeOK, KindsKept
<1> QED BY <1>1, <1>2


-----------------------------------------------------------------------------
(* How users, items and slots change.                                      *)
LEMMA Founders ==
  ASSUME TypeOK, NEW r \in Request, NEW t \in Tenant, NEW u \in User,
         FoundByRegistration(r, t, u) \/ FoundForUser(r, t, u)
  PROVE  /\ Found(r, t, u)
         /\ members[u] = Unborn \/ (Exists(u) /\ Mover(r, u))
         /\ requests'[r] = Idle
BY FoundEffect, GoTypeOK DEF FoundByRegistration, FoundForUser, Mover, TypeOK

(* A user changes tenant only by being born, deleted, or moved by the      *)
(* request that found it without one, unless contended.                    *)
LEMMA MembersChange ==
  ASSUME TypeOK, MoversHaveNoTenant, Step, NEW u \in User
  PROVE  \/ members'[u] = members[u]
         \/ members[u] = Unborn /\ members'[u] \in Tenant
         \/ /\ members[u] # Unborn /\ members'[u] = Gone
            /\ \E r \in Request : DeleteUser(r, u)
         \/ /\ Exists(u) /\ members'[u] \in Tenant
            /\ u \in contended \/ members[u] = Tenantless
            /\ \E r \in Request : Mover(r, u) /\ requests'[r] = Idle
<1> DEFINE Goal ==
         \/ members'[u] = members[u]
         \/ members[u] = Unborn /\ members'[u] \in Tenant
         \/ /\ members[u] # Unborn /\ members'[u] = Gone
            /\ \E r \in Request : DeleteUser(r, u)
         \/ /\ Exists(u) /\ members'[u] \in Tenant
            /\ u \in contended \/ members[u] = Tenantless
            /\ \E r \in Request : Mover(r, u) /\ requests'[r] = Idle
<1>1. ASSUME NEW r \in Request, Mover(r, u), Exists(u)
      PROVE  u \in contended \/ members[u] = Tenantless
  BY <1>1 DEF MoversHaveNoTenant, Exists
<1>2. ASSUME NEW r \in Request, NEW t \in Tenant, NEW w \in User,
             FoundByRegistration(r, t, w) \/ FoundForUser(r, t, w)
      PROVE  Goal
  <2>1. members' = [members EXCEPT ![w] = t]
    BY <1>2, Founders, FoundEffect
  <2>2. CASE w = u
    BY <1>1, <1>2, <2>1, <2>2, Founders DEF TypeOK
  <2> QED BY <2>1, <2>2 DEF TypeOK
<1>3. ASSUME NEW r \in Request, JoinTenant(r) PROVE Goal
  <2> PICK w \in User, t \in Tenant :
        Mover(r, w) /\ Exists(w) /\ members' = [members EXCEPT ![w] = t] /\ Go(r, Idle)
    BY <1>3, JoinEffect
  <2>1. requests'[r] = Idle
    BY GoTypeOK DEF TypeOK
  <2> QED BY <1>1, <2>1 DEF TypeOK
<1>4. ASSUME NEW w \in User, NEW t \in Tenant, CreateUser(w, t) PROVE Goal
  BY <1>4 DEF CreateUser, TypeOK
<1>5. ASSUME NEW r \in Request, NEW w \in User, DeleteUser(r, w) PROVE Goal
  BY <1>5 DEF DeleteUser, TypeOK, Exists
<1> QED BY <1>2, <1>3, <1>4, <1>5, TablesChange DEF CreateItem, DeleteItem, InsertItems

(* A role or permission that was created is never unborn again.            *)
LEMMA ItemsChange ==
  ASSUME TypeOK, Step, NEW x \in Item
  PROVE  items[x] # "unborn" => items'[x] # "unborn"
<1>1. ASSUME NEW r \in Request, NEW t \in Tenant, NEW u \in User, Found(r, t, u)
      PROVE  items[x] # "unborn" => items'[x] # "unborn"
  BY <1>1, FoundEffect
<1>2. UNCHANGED items => (items[x] # "unborn" => items'[x] # "unborn")
  OBVIOUS
<1> QED BY <1>1, <1>2, TablesChange
        DEF FoundByRegistration, FoundForUser, JoinTenant, CreateUser, CreateItem,
            DeleteUser, DeleteItem, InsertItems, TypeOK

(* A slot that is nobody's yet.                                            *)
Unowned(s) ==
  IF s[1] = "role permissions" THEN items[s[2]] = "unborn"
                               ELSE members[s[2]] \in {Unborn, Tenantless}

(* What a slot grants shrinks, is inserted by a replacement, or changes    *)
(* with its founding, a join or a birth.                                   *)
LEMMA GrantsChange ==
  ASSUME TypeOK, MoversHaveNoTenant, UnfoundedIsEmpty, Step, NEW s \in Slot
  PROVE  \/ \E gone : /\ grants'[s] = grants[s] \ gone
                      /\ assigned'[s] = assigned[s] \ gone
         \/ \E r \in Request : InsertItems(r, s)
         \/ /\ Unowned(s) \/ OwnerContended(s)
            /\ \/ grants'[s] = assigned'[s]
               \/ \E new : /\ grants'[s] = grants[s] \cup new
                           /\ assigned'[s] = assigned[s] \cup new
<1> DEFINE Removed == \E gone : /\ grants'[s] = grants[s] \ gone
                                /\ assigned'[s] = assigned[s] \ gone
           Added == \/ grants'[s] = assigned'[s]
                    \/ \E new : /\ grants'[s] = grants[s] \cup new
                                /\ assigned'[s] = assigned[s] \cup new
<1>1. ASSUME grants'[s] = grants[s], assigned'[s] = assigned[s] PROVE Removed
  BY <1>1
<1>2. ASSUME NEW u \in User, s = UserRoles(u),
             members[u] = Unborn \/ \E r \in Request : Mover(r, u) /\ Exists(u)
      PROVE  Unowned(s) \/ OwnerContended(s)
  <2>1. s[1] # "role permissions" /\ s[2] = u
    BY <1>2 DEF UserRoles
  <2> QED BY <1>2, <2>1 DEF MoversHaveNoTenant, Unowned, OwnerContended, Exists
<1>3. ASSUME NEW r \in Request, NEW t \in Tenant, NEW u \in User,
             FoundByRegistration(r, t, u) \/ FoundForUser(r, t, u)
      PROVE  Removed \/ ((Unowned(s) \/ OwnerContended(s)) /\ Added)
  <2>1. Found(r, t, u)
    BY <1>3, Founders
  <2>2. CASE s \in DOMAIN DefaultGrants(t)
    <3>1. s[1] = "role permissions" /\ s[2] \in Item /\ s[2].tenant = t
      BY <2>2, DefaultSlots, Defaults DEF Item
    <3>2. tenants[t] = NoTenant
      BY <2>1, FoundEffect
    <3>3. Unowned(s)
      BY <3>1, <3>2 DEF UnfoundedIsEmpty, Unowned
    <3>4. grants'[s] = assigned'[s]
      BY <2>1, <2>2, FoundEffect
    <3> QED BY <3>3, <3>4
  <2>3. CASE s \notin DOMAIN DefaultGrants(t) /\ s = UserRoles(u)
    <3>1. Unowned(s) \/ OwnerContended(s)
      BY <1>2, <1>3, <2>3, Founders
    <3> DEFINE new == {[tenant |-> t, name |-> "Admin"]}
    <3>2. grants'[s] = grants[s] \cup new /\ assigned'[s] = assigned[s] \cup new
      BY <2>1, <2>3, FoundEffect
    <3> QED BY <3>1, <3>2
  <2>4. CASE s \notin DOMAIN DefaultGrants(t) /\ s # UserRoles(u)
    <3>1. grants'[s] = grants[s] /\ assigned'[s] = assigned[s]
      BY <2>1, <2>4, FoundElsewhere
    <3> QED BY <1>1, <3>1
  <2> QED BY <2>2, <2>3, <2>4
<1>4. ASSUME NEW r \in Request, JoinTenant(r)
      PROVE  Removed \/ ((Unowned(s) \/ OwnerContended(s)) /\ Added)
  <2> PICK u \in User :
        /\ Mover(r, u) /\ Exists(u)
        /\ grants' = [grants EXCEPT ![UserRoles(u)] = @ \cup requests[r].roles]
        /\ assigned' = [assigned EXCEPT ![UserRoles(u)] = @ \cup requests[r].roles]
    BY <1>4, JoinEffect
  <2>1. CASE s = UserRoles(u)
    <3>1. /\ grants'[s] = grants[s] \cup requests[r].roles
          /\ assigned'[s] = assigned[s] \cup requests[r].roles
      BY <2>1 DEF TypeOK
    <3> QED BY <1>2, <2>1, <3>1
  <2>2. CASE s # UserRoles(u)
    BY <1>1, <2>2 DEF TypeOK
  <2> QED BY <2>1, <2>2
<1>5. ASSUME NEW row, grants' = Without(grants, row), assigned' = Without(assigned, row)
      PROVE  Removed
  <2>1. /\ grants \in [Slot -> SUBSET Item] /\ assigned \in [Slot -> SUBSET Item]
        /\ grants[s] \in SUBSET Item /\ assigned[s] \in SUBSET Item
    BY DEF TypeOK
  <2>2. grants'[s] = IF s[2] = row THEN {} ELSE grants[s] \ {row}
    BY <1>5, <2>1, WithoutType
  <2>3. assigned'[s] = IF s[2] = row THEN {} ELSE assigned[s] \ {row}
    BY <1>5, <2>1, WithoutType
  <2> DEFINE gone == IF s[2] = row THEN Item ELSE {row}
  <2>4. grants'[s] = grants[s] \ gone /\ assigned'[s] = assigned[s] \ gone
    BY <2>1, <2>2, <2>3
  <2> QED BY <2>4
<1>6. ASSUME NEW r \in Request, NEW w \in Slot, InsertItems(r, w), w # s PROVE Removed
  BY <1>1, <1>6 DEF InsertItems, TypeOK
<1>7. ASSUME UNCHANGED <<grants, assigned>> PROVE Removed
  BY <1>1, <1>7
<1> HIDE DEF Removed, Added
<1>8. \/ Removed
      \/ \E r \in Request : InsertItems(r, s)
      \/ (Unowned(s) \/ OwnerContended(s)) /\ Added
  BY <1>3, <1>4, <1>5, <1>6, <1>7, TablesChange
     DEF CreateUser, CreateItem, DeleteUser, DeleteItem
<1> QED BY <1>8 DEF Removed, Added


-----------------------------------------------------------------------------
(* One lemma for each part of the invariant.                               *)
Contend == contended' = contended \cup HeldByTwo' \cup Moved'

(* Two requests that hold one user or slot have left their mark on it.     *)
LEMMA TwoHolders ==
  ASSUME ContentionSeen, NEW r \in Request, NEW p \in Request, r # p,
         NEW x \in User \cup Slot, r \in Holders(x), p \in Holders(x)
  PROVE  x \in contended
BY DEF ContentionSeen, HeldByTwo

(* Contention is recorded and never forgotten.                             *)
LEMMA ContentionStep == Contend => ContentionSeen' /\ contended \subseteq contended'
BY DEF Contend, ContentionSeen

(* The user of a founding or joining request has no tenant unless          *)
(* contended.                                                              *)
LEMMA MoversStep ==
  ASSUME TypeOK, ContentionSeen, MoversHaveNoTenant, Step, Contend
  PROVE  MoversHaveNoTenant'
<1> SUFFICES ASSUME NEW r \in Request, NEW u \in User, Mover(r, u)', u \notin contended'
             PROVE  members'[u] \in {Tenantless, Gone}
  BY DEF MoversHaveNoTenant
<1> USE AccessAssumption
<1>1. u \notin contended
  BY ContentionStep
<1>2. Went(r)
  BY RequestsChange
<1>3. CASE requests'[r] = requests[r]
  <2>1. Mover(r, u) /\ members[u] \in {Tenantless, Gone}
    BY <1>1, <1>3 DEF Mover, At, MoversHaveNoTenant
  <2>2. ASSUME NEW p \in Request, Mover(p, u), requests'[p] = Idle PROVE FALSE
    <3>1. p # r
      BY <1>3, <2>1, <2>2 DEF Mover, At, Idle
    <3>2. r \in Holders(u) /\ p \in Holders(u)
      BY <2>1, <2>2 DEF Holders, Mover
    <3> QED BY <1>1, <3>1, <3>2, TwoHolders
  <2> QED BY <2>1, <2>2, MembersChange
<1>4. CASE requests'[r] = Idle \/ Impeded(r)
  BY <1>4 DEF Mover, At, Idle, Impeded
<1>5. CASE TablesKept /\ Entered(r)
  <2>1. members'[u] = members[u]
    BY <1>5 DEF TablesKept, tables
  <2>2. CASE At(r, "tenantless")'
    BY <1>5, <2>1, <2>2, GuardSteps DEF Entered, Mover, At
  <2>3. CASE At(r, "founding")' \/ At(r, "joining")'
    <3>1. Mover(r, u)
      BY <1>5, <2>3, GuardSteps DEF Entered, Mover, At
    <3> QED BY <1>1, <2>1, <3>1 DEF MoversHaveNoTenant
  <2> QED BY <2>2, <2>3 DEF Mover
<1> QED BY <1>2, <1>3, <1>4, <1>5 DEF Went

(* A tenant not founded yet has no rows and grants nothing.                *)
LEMMA UnfoundedStep ==
  ASSUME TypeOK, UnfoundedIsEmpty, Step
  PROVE  UnfoundedIsEmpty'
<1> SUFFICES ASSUME NEW x \in Item, tenants'[x.tenant] = NoTenant
             PROVE  items'[x] = "unborn"
  BY DEF UnfoundedIsEmpty
<1> USE ItemTenants
<1>1. tenants[x.tenant] = NoTenant => items[x] = "unborn"
  BY DEF UnfoundedIsEmpty
<1>2. ASSUME NEW r \in Request, NEW t \in Tenant, NEW u \in User, Found(r, t, u)
      PROVE  items'[x] = "unborn"
  <2>1. requests[r].name \in Name /\ NoTenant \notin Name
    BY <1>2, RequestShapes, AccessAssumption DEF Found
  <2>2. tenants' = [tenants EXCEPT ![t] = requests[r].name]
    BY <1>2, FoundEffect
  <2>3. x.tenant # t /\ tenants[x.tenant] = NoTenant
    BY <2>1, <2>2 DEF TypeOK
  <2>4. x \notin DefaultRoles(t) \cup DefaultPermissions(t, DefaultKeys)
    BY <2>3, Defaults
  <2>5. items'[x] = items[x]
    BY <1>2, <2>4, FoundEffect
  <2> QED BY <1>1, <2>3, <2>5
<1>3. ASSUME NEW y \in Item, CreateItem(y) PROVE items'[x] = "unborn"
  BY <1>1, <1>3 DEF CreateItem, TypeOK
<1>4. ASSUME NEW r \in Request, NEW y \in Item, DeleteItem(r, y) PROVE items'[x] = "unborn"
  BY <1>1, <1>4 DEF DeleteItem, There, TypeOK
<1> QED BY <1>1, <1>2, <1>3, <1>4, TablesChange
        DEF FoundByRegistration, FoundForUser, JoinTenant, CreateUser, DeleteUser, InsertItems

(* What a joining user was offered is of the tenant joined.                *)
LEMMA OfferedStep ==
  ASSUME TypeOK, OfferedByTenant, Step
  PROVE  OfferedByTenant'
<1> SUFFICES ASSUME NEW r \in Request, At(r, "joining")', NEW role \in requests'[r].roles
             PROVE  role.tenant = requests'[r].tenant
  BY DEF OfferedByTenant
<1>1. Went(r)
  BY RequestsChange
<1>2. CASE Entered(r)
  BY <1>2, GuardSteps DEF Entered, At, ItemsOf
<1> QED BY <1>1, <1>2 DEF Went, OfferedByTenant, At, Idle, Impeded

(* The owner of a slot being replaced stays known.                         *)
LEMMA OwnersStep ==
  ASSUME TypeOK, MoversHaveNoTenant, OwnersKnown, Step
  PROVE  OwnersKnown'
<1> DEFINE Known(s) == IF s[1] = "role permissions" THEN items[s[2]] # "unborn"
                       ELSE members[s[2]] \in Tenant \cup {Gone}
<1> SUFFICES ASSUME NEW r \in Request, requests'[r].step \in ReplaceStep
             PROVE  LET s == requests'[r].slot IN
                    IF s[1] = "role permissions" THEN items'[s[2]] # "unborn"
                    ELSE members'[s[2]] \in Tenant \cup {Gone}
  BY DEF OwnersKnown
<1>1. ASSUME NEW s \in Slot, Known(s)
      PROVE  IF s[1] = "role permissions" THEN items'[s[2]] # "unborn"
             ELSE members'[s[2]] \in Tenant \cup {Gone}
  <2>1. CASE s[1] = "role permissions"
    <3>1. s[2] \in Item
      BY <2>1, SlotShapes DEF Item
    <3>2. items'[s[2]] # "unborn"
      BY <1>1, <2>1, <3>1, ItemsChange
    <3> QED BY <2>1, <3>2
  <2>2. CASE s[1] # "role permissions"
    <3>1. s[2] \in User
      BY <2>2, SlotShapes
    <3> QED BY <1>1, <2>2, <3>1, MembersChange, AccessAssumption
  <2> QED BY <2>1, <2>2
<1>2. requests[r].step \in ReplaceStep => Known(requests[r].slot) /\ requests[r].slot \in Slot
  BY RequestShapes DEF OwnersKnown
<1>3. requests'[r].slot \in Slot /\ Known(requests'[r].slot)
  <2>1. Went(r)
    BY RequestsChange
  <2>2. CASE Entered(r)
    <3>1. CASE At(r, "checking")'
      BY <2>2, <3>1, GuardSteps, AccessAssumption DEF Entered, At, OwnedIn, There
    <3>2. CASE At(r, "replacing")' \/ At(r, "inserting")'
      BY <1>2, <2>2, <3>2, GuardSteps DEF Entered, At, ReplaceStep
    <3> QED BY <3>1, <3>2 DEF At, ReplaceStep
  <2>3. CASE requests'[r] = requests[r] \/ Impeded(r)
    BY <1>2, <2>3 DEF Impeded, At, ReplaceStep
  <2>4. requests'[r] # Idle
    BY DEF Idle, ReplaceStep
  <2> HIDE DEF Known
  <2> QED BY <2>1, <2>2, <2>3, <2>4 DEF Went
<1> HIDE DEF Known
<1> QED BY <1>1, <1>3


(* An owner whom one request at most moves stays of its tenant.            *)
LEMMA OfTenantStays ==
  ASSUME TypeOK, MoversHaveNoTenant, Step,
         NEW s \in Slot, NEW t \in Tenant, OfTenant(s, t), ~OwnerContended(s)
  PROVE  IF s[1] = "role permissions" THEN s[2].tenant = t ELSE members'[s[2]] \in {t, Gone}
<1>1. CASE s[1] = "role permissions"
  BY <1>1 DEF OfTenant
<1>2. CASE s[1] # "role permissions"
  <2>1. s[2] \in User /\ s[2] \notin contended /\ members[s[2]] \in {t, Gone}
    BY <1>2, SlotShapes DEF OfTenant, OwnerContended
  <2>2. members'[s[2]] \in {t, Gone}
    BY <2>1, MembersChange, AccessAssumption DEF Exists
  <2> QED BY <1>2, <2>2
<1> QED BY <1>1, <1>2

(* What a replacement checked still holds when it inserts.                 *)
LEMMA ChecksStep ==
  ASSUME TypeOK, MoversHaveNoTenant, ChecksHold, Step, Contend
  PROVE  ChecksHold'
<1> DEFINE Stays(s, t) ==
      IF s[1] = "role permissions" THEN s[2].tenant = t ELSE members'[s[2]] \in {t, Gone}
<1> SUFFICES ASSUME NEW r \in Request, requests'[r].step \in ReplaceStep,
                    \/ requests'[r].slot[1] = "role permissions"
                    \/ requests'[r].slot[2] \notin contended'
             PROVE  /\ At(r, "checking")' => Stays(requests'[r].slot, requests'[r].tenant)
                    /\ requests'[r].step \in {"replacing", "inserting"} =>
                         \A x \in requests'[r].items : Stays(requests'[r].slot, x.tenant)
  BY DEF ChecksHold, OfTenant, OwnerContended, ReplaceStep, At
<1> DEFINE s == requests'[r].slot
<1>2. ~OwnerContended(s)
  BY ContentionStep DEF OwnerContended
<1>3. ASSUME NEW t \in Tenant, s \in Slot, OfTenant(s, t) PROVE Stays(s, t)
  BY <1>2, <1>3, OfTenantStays
<1>4. ASSUME requests[r].step \in ReplaceStep, requests[r].slot = s
      PROVE  /\ s \in Slot
             /\ At(r, "checking") => requests[r].tenant \in Tenant /\ OfTenant(s, requests[r].tenant)
             /\ requests[r].step \in {"replacing", "inserting"} =>
                  \A x \in requests[r].items : x.tenant \in Tenant /\ OfTenant(s, x.tenant)
  <2>1. /\ s \in Slot /\ requests[r].items \in SUBSET Item
        /\ At(r, "checking") => requests[r].tenant \in Tenant
    BY <1>4, RequestShapes
  <2> QED BY <1>2, <1>4, <2>1, ItemTenants DEF ChecksHold
<1> HIDE DEF s, Stays
<1>5. Went(r)
  BY RequestsChange
<1>6. requests'[r] # Idle
  BY IdleAtRest DEF ReplaceStep
<1>7. CASE requests'[r] = requests[r]
  BY <1>3, <1>4, <1>7 DEF At, s
<1>8. CASE Impeded(r)
  BY <1>3, <1>4, <1>8 DEF Impeded, At, ReplaceStep, s
<1>9. CASE Entered(r)
  <2>1. CASE At(r, "checking")'
    <3>1. s \in Slot /\ requests'[r].tenant \in Tenant /\ OwnedIn(s, requests'[r].tenant)
      BY <1>9, <2>1, GuardSteps DEF Entered, At, s
    <3>2. OfTenant(s, requests'[r].tenant)
      BY <3>1 DEF OwnedIn, OfTenant
    <3> QED BY <1>3, <2>1, <3>1, <3>2 DEF At, s
  <2>2. CASE At(r, "replacing")'
    <3>1. /\ At(r, "checking") /\ requests[r].slot = s
          /\ requests'[r].items \subseteq ItemsOf(requests[r].tenant)
      BY <1>9, <2>2, GuardSteps DEF Entered, At, s
    <3>2. \A x \in requests'[r].items : x.tenant = requests[r].tenant
      BY <3>1 DEF ItemsOf
    <3>3. s \in Slot /\ requests[r].tenant \in Tenant /\ OfTenant(s, requests[r].tenant)
      BY <1>4, <3>1 DEF At, ReplaceStep
    <3> QED BY <1>3, <2>2, <3>2, <3>3 DEF At, s
  <2>3. CASE At(r, "inserting")'
    <3>1. At(r, "replacing") /\ requests[r].slot = s /\ requests'[r].items = requests[r].items
      BY <1>9, <2>3, GuardSteps DEF Entered, At, s
    <3> QED BY <1>3, <1>4, <2>3, <3>1 DEF At, ReplaceStep, s
  <2> QED BY <2>1, <2>2, <2>3 DEF At, ReplaceStep
<1> QED BY <1>5, <1>6, <1>7, <1>8, <1>9 DEF Went, s

(* A replacement nobody interfered with still deletes all there is.        *)
LEMMA SeenStep ==
  ASSUME TypeOK, ContentionSeen, MoversHaveNoTenant, UnfoundedIsEmpty, OwnersKnown, SeenIsAll,
         Step, Contend
  PROVE  SeenIsAll'
<1> SUFFICES ASSUME NEW r \in Request, At(r, "inserting")',
                    requests'[r].slot \notin contended',
                    \/ requests'[r].slot[1] = "role permissions"
                    \/ requests'[r].slot[2] \notin contended'
             PROVE  grants'[requests'[r].slot] \subseteq requests'[r].seen
  BY DEF SeenIsAll, OwnerContended
<1> DEFINE s == requests'[r].slot
<1>1. s \notin contended /\ ~OwnerContended(s)
  BY ContentionStep DEF OwnerContended
<1>2. Went(r)
  BY RequestsChange
<1>3. CASE Impeded(r)
  <2> PICK p \in Request \ {r} : At(p, "inserting") /\ requests[p].slot = requests[r].slot
    BY <1>3 DEF Impeded
  <2>1. At(r, "inserting") /\ requests[r].slot = s /\ s \in Slot
    BY <1>3, RequestShapes DEF Impeded, At, ReplaceStep
  <2>2. r \in Holders(s) /\ p \in Holders(s)
    BY <2>1 DEF Holders
  <2> QED BY <1>1, <2>1, <2>2, TwoHolders
<1>4. CASE requests'[r] = requests[r]
  <2>1. At(r, "inserting") /\ requests[r].slot = s /\ s \in Slot
    BY <1>4, RequestShapes DEF At, ReplaceStep
  <2>2. grants[s] \subseteq requests[r].seen
    BY <1>1, <2>1 DEF SeenIsAll
  <2>3. ~Unowned(s)
    BY <2>1, AccessAssumption DEF OwnersKnown, Unowned, ReplaceStep, At
  <2>4. ASSUME NEW p \in Request, InsertItems(p, s) PROVE FALSE
    <3>1. At(p, "inserting") /\ requests[p].slot = s /\ requests'[p] = Idle
      BY <2>1, <2>4, InsertItemsRequests DEF InsertItems
    <3>2. p # r
      BY <3>1, IdleAtRest DEF At
    <3>3. r \in Holders(s) /\ p \in Holders(s)
      BY <2>1, <3>1 DEF Holders
    <3> QED BY <1>1, <2>1, <3>2, <3>3, TwoHolders
  <2> HIDE DEF s
  <2>5. \E gone : grants'[s] = grants[s] \ gone
    BY <1>1, <2>1, <2>3, <2>4, GrantsChange
  <2> QED BY <1>4, <2>2, <2>5 DEF s
<1>5. CASE TablesKept /\ Entered(r)
  <2>1. requests'[r].seen = grants[requests[r].slot] /\ s = requests[r].slot
    BY <1>5, GuardSteps DEF Entered, At
  <2> QED BY <1>5, <2>1 DEF TablesKept, tables
<1>6. requests'[r] # Idle
  BY IdleAtRest DEF At
<1> QED BY <1>2, <1>3, <1>4, <1>5, <1>6 DEF Went

(* Every step keeps grants and assignments equal, unless contended.        *)
LEMMA AssignmentsStep ==
  ASSUME TypeOK, MoversHaveNoTenant, UnfoundedIsEmpty, SeenIsAll, AssignmentsHold,
         Step, Contend
  PROVE  AssignmentsHold'
<1> SUFFICES ASSUME NEW s \in Slot
             PROVE  /\ assigned'[s] \subseteq grants'[s]
                    /\ s \notin contended' /\ ~OwnerContended(s)' => grants'[s] = assigned'[s]
  BY DEF AssignmentsHold
<1>1. /\ assigned[s] \subseteq grants[s]
      /\ s \notin contended' /\ ~OwnerContended(s)' =>
           /\ s \notin contended /\ ~OwnerContended(s)
           /\ grants[s] = assigned[s]
  BY ContentionStep DEF AssignmentsHold, OwnerContended
<1>2. ASSUME NEW r \in Request, InsertItems(r, s)
      PROVE  /\ assigned'[s] \subseteq grants'[s]
             /\ s \notin contended' /\ ~OwnerContended(s)' => grants'[s] = assigned'[s]
  <2>1. /\ At(r, "inserting") /\ requests[r].slot = s
        /\ grants'[s] = (grants[s] \ requests[r].seen) \cup requests[r].items
        /\ assigned'[s] = requests[r].items
    BY <1>2 DEF InsertItems, TypeOK
  <2>2. s \notin contended /\ ~OwnerContended(s) => grants[s] \subseteq requests[r].seen
    BY <2>1 DEF SeenIsAll
  <2> QED BY <1>1, <2>1, <2>2
<1>3. ASSUME NEW gone, grants'[s] = grants[s] \ gone, assigned'[s] = assigned[s] \ gone
      PROVE  /\ assigned'[s] \subseteq grants'[s]
             /\ s \notin contended' /\ ~OwnerContended(s)' => grants'[s] = assigned'[s]
  BY <1>1, <1>3
<1>4. ASSUME NEW new, grants'[s] = grants[s] \cup new, assigned'[s] = assigned[s] \cup new
      PROVE  /\ assigned'[s] \subseteq grants'[s]
             /\ s \notin contended' /\ ~OwnerContended(s)' => grants'[s] = assigned'[s]
  BY <1>1, <1>4
<1> QED BY <1>2, <1>3, <1>4, GrantsChange


(* A user without a tenant holds nothing.                                  *)
LEMMA HomelessHoldNothing ==
  ASSUME TypeOK, GrantsOfOwnTenant, NEW s \in Slot, s[1] # "role permissions",
         s[2] \notin contended, members[s[2]] \in {Unborn, Tenantless}
  PROVE  grants[s] = {}
<1> SUFFICES ASSUME NEW x \in grants[s] PROVE FALSE
  OBVIOUS
<1>1. x \in Item
  BY DEF TypeOK
<1>2. OwnedIn(s, x.tenant)
  BY DEF GrantsOfOwnTenant, OwnerContended
<1> QED BY <1>1, <1>2, ItemTenants, AccessAssumption DEF OwnedIn

(* No step grants what belongs to another tenant.                          *)
LEMMA GrantsStep ==
  ASSUME TypeOK, MoversHaveNoTenant, OfferedByTenant, ChecksHold, GrantsOfOwnTenant,
         Step, Contend
  PROVE  GrantsOfOwnTenant'
<1> DEFINE Own(s, x) ==
      /\ items'[x] = "there"
      /\ IF s[1] = "role permissions" THEN items'[s[2]] = "there" /\ s[2].tenant = x.tenant
                                      ELSE members'[s[2]] = x.tenant
<1> SUFFICES ASSUME NEW s \in Slot, s[1] = "role permissions" \/ s[2] \notin contended',
                    NEW x \in grants'[s]
             PROVE  Own(s, x)
  BY DEF GrantsOfOwnTenant, OwnerContended, There, OwnedIn
<1>1. s[1] = "role permissions" \/ s[2] \notin contended
  BY ContentionStep
<1>2. /\ s[1] = "role permissions" => s[2] \in Role /\ s[2] \in Item
      /\ s[1] # "role permissions" => s[2] \in User
  BY SlotShapes DEF Item
<1>3. x \in grants[s] =>
        /\ x \in Item /\ items[x] = "there"
        /\ IF s[1] = "role permissions" THEN items[s[2]] = "there" /\ s[2].tenant = x.tenant
                                        ELSE members[s[2]] = x.tenant
  BY <1>1 DEF GrantsOfOwnTenant, OwnerContended, There, OwnedIn, TypeOK
<1>4. ASSUME UNCHANGED <<members, items>>, x \in grants[s] PROVE Own(s, x)
  BY <1>3, <1>4
(* Whoever comes to a tenant held nothing before.                          *)
<1>5. ASSUME NEW u \in User, s[1] # "role permissions", s[2] = u,
             members[u] = Unborn \/ \E r \in Request : Exists(u) /\ Mover(r, u)
      PROVE  x \notin grants[s]
  <2>1. members[u] \in {Unborn, Tenantless}
    BY <1>1, <1>5 DEF MoversHaveNoTenant, Exists
  <2> QED BY <1>1, <1>5, <2>1, HomelessHoldNothing
<1>6. ASSUME NEW r \in Request, NEW t \in Tenant, NEW u \in User,
             FoundByRegistration(r, t, u) \/ FoundForUser(r, t, u)
      PROVE  Own(s, x)
  <2>1. /\ Found(r, t, u)
        /\ members[u] = Unborn \/ (Exists(u) /\ Mover(r, u))
    BY <1>6, Founders
  <2>2. /\ members' = [members EXCEPT ![u] = t]
        /\ \A y \in Item : items'[y] =
             IF y \in DefaultRoles(t) \cup DefaultPermissions(t, DefaultKeys)
             THEN "there" ELSE items[y]
    <3>1. /\ members' = [members EXCEPT ![u] = t]
          /\ items' = [y \in Item |->
               IF y \in DefaultRoles(t) \cup DefaultPermissions(t, DefaultKeys)
               THEN "there" ELSE items[y]]
      BY <2>1, FoundEffect
    <3> QED BY <3>1
  <2>3. CASE s \in DOMAIN DefaultGrants(t)
    <3>1. grants'[s] = DefaultGrants(t)[s]
      BY <2>1, <2>3, FoundEffect
    <3>2. x \in DefaultPermissions(t, DefaultKeys) /\ x \in Item /\ x.tenant = t
      BY <2>3, <3>1, Defaults DEF Item
    <3>3. s[1] = "role permissions" /\ s[2] \in DefaultRoles(t) /\ s[2] \in Item
          /\ s[2].tenant = t
      BY <2>3, DefaultSlots, Defaults DEF Item
    <3> QED BY <2>2, <3>2, <3>3
  <2>4. CASE s \notin DOMAIN DefaultGrants(t) /\ s = UserRoles(u)
    <3> DEFINE admin == [tenant |-> t, name |-> "Admin"]
    <3>1. s[1] # "role permissions" /\ s[2] = u
      BY <2>4 DEF UserRoles
    <3>2. x \notin grants[s]
      BY <1>5, <2>1, <3>1
    <3>3. grants'[s] = grants[s] \cup {admin}
      BY <2>1, <2>4, FoundEffect
    <3>4. x = admin /\ x \in DefaultRoles(t) /\ x \in Item /\ x.tenant = t
      <4>1. x = admin
        BY <3>2, <3>3
      <4>2. admin \in DefaultRoles(t) /\ admin \in Item
        BY Defaults DEF Item
      <4> QED BY <4>1, <4>2
    <3>5. members'[u] = t
      BY <2>2 DEF TypeOK
    <3> QED BY <2>2, <3>1, <3>4, <3>5
  <2>5. CASE s \notin DOMAIN DefaultGrants(t) /\ s # UserRoles(u)
    <3>1. grants'[s] = grants[s]
      BY <2>1, <2>5, FoundElsewhere
    <3>2. s[1] # "role permissions" => s[2] # u
      BY <1>5, <2>1, <3>1
    <3>3. s[1] # "role permissions" => members'[s[2]] = members[s[2]]
      BY <1>2, <2>2, <3>2 DEF TypeOK
    <3> QED BY <1>2, <1>3, <2>2, <3>1, <3>3
  <2> QED BY <2>3, <2>4, <2>5
<1>7. ASSUME NEW r \in Request, JoinTenant(r) PROVE Own(s, x)
  <2> PICK u \in User, t \in Tenant :
        /\ Mover(r, u) /\ Exists(u) /\ requests[r].tenant = t
        /\ members' = [members EXCEPT ![u] = t]
        /\ requests[r].roles \in SUBSET Role
        /\ \A role \in requests[r].roles : There(role)
        /\ grants' = [grants EXCEPT ![UserRoles(u)] = @ \cup requests[r].roles]
        /\ UNCHANGED items
    BY <1>7, JoinEffect
  <2>1. s[1] # "role permissions" /\ s[2] = u => x \notin grants[s]
    BY <1>5
  <2>2. CASE s = UserRoles(u)
    <3>1. s[1] # "role permissions" /\ s[2] = u
      BY <2>2 DEF UserRoles
    <3>2. x \in requests[r].roles
      BY <2>1, <2>2, <3>1 DEF TypeOK
    <3>3. x.tenant = t /\ items[x] = "there"
      BY <1>7, <3>2 DEF OfferedByTenant, JoinTenant, There
    <3> QED BY <3>1, <3>3 DEF TypeOK
  <2>3. CASE s # UserRoles(u)
    <3>1. grants'[s] = grants[s]
      BY <2>3 DEF TypeOK
    <3>2. s[1] # "role permissions" => members'[s[2]] = members[s[2]]
      BY <1>2, <2>1, <3>1 DEF TypeOK
    <3> QED BY <1>3, <3>1, <3>2
  <2> QED BY <2>2, <2>3
<1>8. ASSUME NEW u \in User, NEW t \in Tenant, CreateUser(u, t) PROVE Own(s, x)
  <2>1. members[u] = Unborn /\ grants' = grants /\ items' = items
        /\ members' = [members EXCEPT ![u] = t]
    BY <1>8 DEF CreateUser
  <2>2. s[1] # "role permissions" => s[2] # u
    BY <1>5, <2>1
  <2>3. s[1] # "role permissions" => members'[s[2]] = members[s[2]]
    BY <1>2, <2>1, <2>2 DEF TypeOK
  <2> QED BY <1>3, <2>1, <2>3
<1>9. ASSUME NEW y \in Item, CreateItem(y) PROVE Own(s, x)
  <2>1. grants' = grants /\ members' = members /\ items' = [items EXCEPT ![y] = "there"]
    BY <1>9 DEF CreateItem
  <2>2. \A z \in Item : items[z] = "there" => items'[z] = "there"
    BY <2>1 DEF TypeOK
  <2> QED BY <1>2, <1>3, <2>1, <2>2
<1>10. ASSUME NEW r \in Request, NEW u \in User, DeleteUser(r, u) PROVE Own(s, x)
  <2>1. /\ grants' = Without(grants, u) /\ items' = items
        /\ members' = [members EXCEPT ![u] = Gone]
    BY <1>10 DEF DeleteUser
  <2>2. grants'[s] = IF s[2] = u THEN {} ELSE grants[s] \ {u}
    BY <2>1, WithoutType DEF TypeOK
  <2>3. x \in grants[s] /\ s[2] # u
    BY <2>2
  <2>4. s[1] # "role permissions" => members'[s[2]] = members[s[2]]
    BY <1>2, <2>1, <2>3 DEF TypeOK
  <2> QED BY <1>3, <2>1, <2>3, <2>4
<1>11. ASSUME NEW r \in Request, NEW y \in Item, DeleteItem(r, y) PROVE Own(s, x)
  <2>1. /\ grants' = Without(grants, y) /\ members' = members
        /\ items' = [items EXCEPT ![y] = "gone"]
    BY <1>11 DEF DeleteItem
  <2>2. grants'[s] = IF s[2] = y THEN {} ELSE grants[s] \ {y}
    BY <2>1, WithoutType DEF TypeOK
  <2>3. x \in grants[s] /\ x # y /\ s[2] # y
    BY <2>2
  <2>4. \A z \in Item : z # y => items'[z] = items[z]
    BY <2>1 DEF TypeOK
  <2> QED BY <1>2, <1>3, <2>1, <2>3, <2>4
<1>12. ASSUME NEW r \in Request, NEW w \in Slot, InsertItems(r, w) PROVE Own(s, x)
  <2>1. /\ At(r, "inserting") /\ requests[r].slot = w
        /\ \A y \in requests[r].items : There(y)
        /\ OwnerExists(w)
        /\ grants' = [grants EXCEPT ![w] = (grants[w] \ requests[r].seen) \cup requests[r].items]
        /\ members' = members /\ items' = items
    BY <1>12 DEF InsertItems
  <2>2. CASE x \in grants[s]
    BY <1>4, <2>1, <2>2
  <2>3. CASE x \notin grants[s]
    <3>1. s = w /\ x \in requests[r].items
      BY <2>1, <2>3 DEF TypeOK
    <3>2. items[x] = "there" /\ OfTenant(s, x.tenant)
      BY <1>1, <2>1, <3>1 DEF ChecksHold, OwnerContended, At, There
    <3> QED BY <2>1, <3>1, <3>2 DEF OfTenant, OwnerExists, There, Exists
  <2> QED BY <2>2, <2>3
<1> HIDE DEF Own
<1> QED BY <1>4, <1>6, <1>7, <1>8, <1>9, <1>10, <1>11, <1>12, TablesChange


(* What a guard read, and what its user held meanwhile.                    *)
LEMMA GuardReadsStep ==
  ASSUME TypeOK, GuardReads, Step, Witness
  PROVE  GuardReads'
<1> SUFFICES ASSUME NEW r \in Request, At(r, "guarding")'
             PROVE  LET u == requests[r].user IN
                    /\ requests'[r].keys \subseteq witnessed'[r].ever
                    /\ Effective(u)' \subseteq witnessed'[r].ever
                    /\ witnessed'[r].always \subseteq Effective(u)'
                    /\ witnessed'[r].steady => RoleKeys(u)' = requests'[r].keys
  BY DEF GuardReads
<1> DEFINE u == requests[r].user
<1>1. CASE requests'[r] = requests[r]
  <2>1. /\ At(r, "guarding")
        /\ requests[r].keys \subseteq witnessed[r].ever
        /\ Effective(u) \subseteq witnessed[r].ever
        /\ witnessed[r].always \subseteq Effective(u)
        /\ witnessed[r].steady => RoleKeys(u) = requests[r].keys
    BY <1>1 DEF At, GuardReads
  <2> DEFINE e == Effective(u)'
             k == RoleKeys(u)'
  <2>2. witnessed'[r] = [always |-> witnessed[r].always \cap e,
                         ever |-> witnessed[r].ever \cup e,
                         steady |-> witnessed[r].steady /\ k = RoleKeys(u)]
    BY <2>1, Witnessed
  <2>3. /\ witnessed'[r].always = witnessed[r].always \cap e
        /\ witnessed'[r].ever = witnessed[r].ever \cup e
        /\ witnessed'[r].steady = (witnessed[r].steady /\ k = RoleKeys(u))
    BY <2>2
  <2> HIDE DEF e, k
  <2>4. /\ requests'[r].keys \subseteq witnessed'[r].ever
        /\ e \subseteq witnessed'[r].ever
        /\ witnessed'[r].always \subseteq e
        /\ witnessed'[r].steady => k = requests'[r].keys
    BY <1>1, <2>1, <2>3
  <2> QED BY <2>4 DEF e, k
<1>2. CASE TablesKept /\ Entered(r)
  <2>1. ReadRoleKeys(r)
    BY <1>2, GuardSteps DEF Entered, At
  <2>2. /\ At(r, "authenticated") /\ requests'[r].user = requests[r].user
        /\ requests'[r].keys = RoleKeys(requests[r].user)
    BY <2>1, GuardSteps
  <2> DEFINE e == Effective(u)'
             k == RoleKeys(u)'
  <2>3. k = requests'[r].keys /\ k \subseteq e
    BY <1>2, <2>2 DEF TablesKept, tables, RoleKeys, Effective
  <2>4. witnessed'[r] = [always |-> e, ever |-> e, steady |-> TRUE]
    BY <2>2, Witnessed
  <2> HIDE DEF e, k
  <2>5. /\ requests'[r].keys \subseteq witnessed'[r].ever
        /\ e \subseteq witnessed'[r].ever
        /\ witnessed'[r].always \subseteq e
        /\ witnessed'[r].steady => k = requests'[r].keys
    BY <2>3, <2>4
  <2> QED BY <2>5 DEF e, k
<1>3. requests'[r] # Idle /\ ~Impeded(r)
  BY IdleAtRest DEF At, Impeded
<1> QED BY <1>1, <1>2, <1>3, RequestsChange DEF Went

(* No step makes a judgement of the guard wrong.                           *)
LEMMA JudgmentStep ==
  ASSUME TypeOK, GuardReads, GuardJudgesRight, Step, Witness
  PROVE  GuardJudgesRight'
<1> SUFFICES ASSUME NEW r \in Request, requests'[r].step \in {"admitted", "refused"}
             PROVE  /\ At(r, "admitted")' => Required \subseteq witnessed'[r].ever
                    /\ At(r, "refused")' /\ witnessed'[r].steady =>
                         ~ Required \subseteq witnessed'[r].always
  BY DEF GuardJudgesRight, At
<1>1. witnessed'[r] = witnessed[r]
  BY Witnessed
<1>2. CASE requests'[r] = requests[r]
  BY <1>1, <1>2 DEF GuardJudgesRight, At
<1>3. CASE Entered(r)
  <2> DEFINE u == requests[r].user
  <2>1. Judge(r)
    BY <1>3, GuardSteps DEF Entered, At
  <2>2. /\ At(r, "guarding")
        /\ At(r, "admitted")' <=> Required \subseteq requests[r].keys \cup DirectKeys(u)
    BY <2>1, GuardSteps
  <2>3. /\ requests[r].keys \subseteq witnessed[r].ever
        /\ Effective(u) \subseteq witnessed[r].ever
        /\ witnessed[r].always \subseteq Effective(u)
        /\ witnessed[r].steady => RoleKeys(u) = requests[r].keys
    BY <2>2 DEF GuardReads
  <2>4. Effective(u) = RoleKeys(u) \cup DirectKeys(u)
    BY DEF Effective
  <2>5. At(r, "refused")' => ~At(r, "admitted")'
    BY DEF At
  <2> QED BY <1>1, <2>2, <2>3, <2>4, <2>5
<1>4. requests'[r] # Idle /\ ~Impeded(r)
  BY IdleAtRest DEF At, Impeded
<1> QED BY <1>2, <1>3, <1>4, RequestsChange DEF Went

(* Who passes a guard is a member of the tenant the request names.         *)
LEMMA ActorsStep ==
  ASSUME TypeOK, MoversHaveNoTenant, GrantsOfOwnTenant, ActorsKnown, Step, Contend,
         requests' \in [Request -> RequestState]
  PROVE  ActorsKnown'
<1> SUFFICES ASSUME NEW r \in Request, requests'[r].step \in GuardStep
             PROVE  LET n == requests'[r] IN
                    /\ members'[n.user] # Unborn
                    /\ members'[n.user] \in Tenant \ {n.tenant} => n.user \in contended'
                    /\ members'[n.user] = Tenantless /\ n.user \notin contended' =>
                         /\ n.step # "admitted"
                         /\ At(r, "guarding")' => n.keys = {}
  BY DEF ActorsKnown
<1> DEFINE u == requests'[r].user
           t == requests'[r].tenant
<1>1. u \in User
  <2>1. requests'[r] \in RequestState
    OBVIOUS
  <2> QED BY <2>1, IdleAtRest DEF RequestState, GuardStep
<1>2. members'[u] \in Tenant \ {t} => u \in contended'
  <2>1. members'[u] \in Tenant \ {t} => u \in Moved'
    BY <1>1 DEF Moved, GuardStep
  <2> QED BY <2>1 DEF Contend
<1>3. CASE requests'[r] = requests[r]
  <2>1. /\ members[u] # Unborn
        /\ members[u] = Tenantless /\ u \notin contended =>
             /\ requests[r].step # "admitted"
             /\ At(r, "guarding") => requests[r].keys = {}
    BY <1>3 DEF ActorsKnown
  <2>2. /\ members'[u] # Unborn
        /\ members'[u] = Tenantless => members[u] = Tenantless
    BY <1>1, <2>1, MembersChange, AccessAssumption DEF Exists
  <2>3. u \notin contended' => u \notin contended
    BY ContentionStep
  <2> HIDE DEF u, t
  <2>4. members'[u] = Tenantless /\ u \notin contended' =>
          /\ requests'[r].step # "admitted"
          /\ At(r, "guarding")' => requests'[r].keys = {}
    BY <1>3, <2>1, <2>2, <2>3 DEF At
  <2> QED BY <1>2, <2>2, <2>4 DEF u, t
<1>4. CASE TablesKept /\ Entered(r)
  <2>1. members' = members /\ grants' = grants
    BY <1>4 DEF TablesKept, tables
  <2>2. CASE At(r, "authenticated")'
    <3>1. members[u] \in {Tenantless, t} /\ t \in Tenant
      BY <1>4, <2>2, GuardSteps DEF Entered, At
    <3>2. members'[u] # Unborn
      BY <2>1, <3>1, AccessAssumption
    <3> QED BY <1>2, <2>2, <3>2 DEF At
  <2>3. ASSUME ReadRoleKeys(r) \/ Judge(r)
        PROVE  /\ requests[r].step \in GuardStep /\ requests[r].user = u
               /\ members'[u] # Unborn
               /\ members[u] = Tenantless /\ u \notin contended' =>
                    /\ u \notin contended
                    /\ grants[UserRoles(u)] = {} /\ grants[UserPermissions(u)] = {}
    <3>1. requests[r].step \in GuardStep /\ requests[r].user = u
      BY <2>3, GuardSteps DEF At, GuardStep
    <3>2. members[u] # Unborn
      BY <3>1 DEF ActorsKnown
    <3>3. u \notin contended' => u \notin contended
      BY ContentionStep
    <3>4. ASSUME members[u] = Tenantless, u \notin contended, NEW s \in Slot,
                 s[1] # "role permissions", s[2] = u
          PROVE  grants[s] = {}
      BY <3>4, HomelessHoldNothing
    <3>5. /\ UserRoles(u) \in Slot /\ UserPermissions(u) \in Slot
          /\ UserRoles(u)[1] # "role permissions" /\ UserRoles(u)[2] = u
          /\ UserPermissions(u)[1] # "role permissions" /\ UserPermissions(u)[2] = u
      BY <1>1, SlotsOf DEF UserRoles, UserPermissions
    <3> HIDE DEF u
    <3> QED BY <2>1, <3>1, <3>2, <3>3, <3>4, <3>5
  <2>4. \A ps : ps = {} => KeysOf(ps) = {}
    BY DEF KeysOf
  <2>5. CASE ReadRoleKeys(r)
    <3>1. requests'[r].step = "guarding" /\ requests'[r].keys = RoleKeys(u)
      BY <2>5, GuardSteps DEF At
    <3>2. grants[UserRoles(u)] = {} => RoleKeys(u) = {}
      BY <2>4 DEF RoleKeys
    <3> QED BY <1>2, <2>1, <2>3, <2>5, <3>1, <3>2 DEF At
  <2>6. CASE Judge(r)
    <3>1. /\ At(r, "guarding") /\ requests'[r].step \in {"admitted", "refused"}
          /\ At(r, "admitted")' <=> Required \subseteq requests[r].keys \cup DirectKeys(u)
      BY <2>6, GuardSteps
    <3>2. grants[UserPermissions(u)] = {} => DirectKeys(u) = {}
      BY <2>4 DEF DirectKeys
    <3>3. members[u] = Tenantless /\ u \notin contended => requests[r].keys = {}
      BY <2>3, <2>6, <3>1 DEF ActorsKnown
    <3>4. members[u] = Tenantless /\ u \notin contended' => ~At(r, "admitted")'
      BY <2>3, <2>6, <3>1, <3>2, <3>3, AccessAssumption
    <3> QED BY <1>2, <2>1, <2>3, <2>6, <3>1, <3>4 DEF At
  <2> QED BY <1>4, <2>2, <2>5, <2>6 DEF Entered, At, GuardStep
<1>5. requests'[r] # Idle /\ ~Impeded(r)
  BY IdleAtRest DEF At, Impeded, GuardStep
<1> QED BY <1>3, <1>4, <1>5, RequestsChange DEF Went


(* A project changes only by being created or deleted.                     *)
LEMMA ProjectsChange ==
  ASSUME TypeOK, Step, NEW p \in Project
  PROVE  \/ /\ projects'[p] = projects[p]
            /\ \A r \in Request, u \in User : DeleteUser(r, u) =>
                 projects[p] \in {Unborn, Gone} \/ projects[p].owner # u
         \/ projects'[p] = Gone
         \/ \E r \in Request : CreateProject(r, p)
<1> DEFINE Goal ==
         \/ /\ projects'[p] = projects[p]
            /\ \A r \in Request, u \in User : DeleteUser(r, u) =>
                 projects[p] \in {Unborn, Gone} \/ projects[p].owner # u
         \/ projects'[p] = Gone
         \/ \E r \in Request : CreateProject(r, p)
<1>1. CASE \E r \in Request, u \in User : DeleteUser(r, u)
  <2> PICK r \in Request, u \in User : DeleteUser(r, u)
    BY <1>1
  <2>1. \A w \in User, q \in Request : DeleteUser(q, w) =>
          projects'[p] = IF projects[p] \notin {Unborn, Gone} /\ projects[p].owner = w
                         THEN Gone ELSE projects[p]
    BY DEF DeleteUser
  <2> QED BY <2>1
<1>2. CASE ~ \E r \in Request, u \in User : DeleteUser(r, u)
  <2>1. ASSUME UNCHANGED projects PROVE Goal
    BY <1>2, <2>1
  <2>2. ASSUME NEW r \in Request, NEW x \in Project, DeleteProject(r, x) PROVE Goal
    BY <1>2, <2>2 DEF DeleteProject, TypeOK
  <2>3. ASSUME NEW r \in Request, NEW x \in Project, CreateProject(r, x) PROVE Goal
    <3>1. CASE x = p
      BY <2>3, <3>1
    <3>2. CASE x # p
      BY <1>2, <2>3, <3>2 DEF CreateProject, TypeOK
    <3> QED BY <3>1, <3>2
  <2> HIDE DEF Goal
  <2>4. ASSUME NEW r \in Request, Handle(r) PROVE Goal
    BY <1>2, <2>1, <2>2, <2>3, <2>4, HandleCases
       DEF ReadTenantless, CheckName, FoundByRegistration, FoundForUser, Found,
           CheckInvitation, JoinTenant, FindForDeletion, DeleteItem, FindOwner, CheckItems,
           DeleteHeld, InsertItems, Authenticate, ReadRoleKeys, Judge, Fail, tables
  <2>5. Goal
    BY <2>1, <2>4 DEF Step, CreateUser, CreateRole, CreatePermission, CreateItem
  <2> QED BY <2>5 DEF Goal
<1> QED BY <1>1, <1>2

(* A project stays in its owner's tenant.                                  *)
LEMMA ProjectsStep ==
  ASSUME TypeOK, MoversHaveNoTenant, ActorsKnown, ProjectsOfOwnTenant, Step, Contend
  PROVE  ProjectsOfOwnTenant'
<1> SUFFICES ASSUME NEW p \in Project, projects'[p] \notin {Unborn, Gone}
             PROVE  \/ projects'[p].owner \in contended'
                    \/ members'[projects'[p].owner] = projects'[p].tenant
  BY DEF ProjectsOfOwnTenant
<1>1. CASE /\ projects'[p] = projects[p]
           /\ \A r \in Request, u \in User : DeleteUser(r, u) =>
                projects[p] \in {Unborn, Gone} \/ projects[p].owner # u
  <2> DEFINE u == projects[p].owner
             t == projects[p].tenant
  <2>1. u \in User /\ t \in Tenant
    BY <1>1 DEF TypeOK
  <2>2. u \in contended \/ members[u] = t
    BY <1>1 DEF ProjectsOfOwnTenant
  <2>3. ~ \E r \in Request : DeleteUser(r, u)
    BY <1>1, <2>1
  <2>4. contended \subseteq contended'
    BY ContentionStep
  <2> HIDE DEF u, t
  <2>5. u \in contended' \/ members'[u] = t
    BY <2>1, <2>2, <2>3, <2>4, MembersChange, AccessAssumption
  <2> QED BY <1>1, <2>5 DEF u, t
<1>2. ASSUME NEW r \in Request, CreateProject(r, p)
      PROVE  \/ projects'[p].owner \in contended'
             \/ members'[projects'[p].owner] = projects'[p].tenant
  <2> DEFINE u == requests[r].user
             t == requests[r].tenant
  <2>1. /\ At(r, "admitted") /\ Exists(u) /\ members' = members
        /\ projects'[p] = [tenant |-> t, owner |-> u]
    BY <1>2 DEF CreateProject, TypeOK
  <2>2. u \in User /\ t \in Tenant
    BY <2>1, RequestShapes DEF At, GuardStep
  <2>3. /\ members[u] # Unborn
        /\ members[u] \in Tenant \ {t} => u \in contended
        /\ members[u] = Tenantless => u \in contended
    BY <2>1 DEF ActorsKnown, At, GuardStep
  <2>4. members[u] \in Tenant \cup {Tenantless}
    BY <2>1, <2>2 DEF TypeOK, Exists
  <2> HIDE DEF u, t
  <2> QED BY <2>1, <2>3, <2>4, ContentionStep
<1> QED BY <1>1, <1>2, ProjectsChange

-----------------------------------------------------------------------------
(* The inductive invariant.                                                *)
LEMMA InitIInv == Init => IInv
<1> SUFFICES ASSUME Init PROVE IInv
  OBVIOUS
<1>1. \A t \in Tenant : tenants[t] = IF t \in Founded THEN t ELSE NoTenant
  BY DEF Init
<1>2. \A x \in Item : items[x] =
        IF \E t \in Founded : x \in DefaultRoles(t) \cup DefaultPermissions(t, DefaultKeys)
        THEN "there" ELSE "unborn"
  BY DEF Init
<1>3. \A s \in Slot : grants[s] =
        IF \E t \in Founded : s \in DOMAIN DefaultGrants(t)
        THEN DefaultGrants(s[2].tenant)[s] ELSE {}
  BY DEF Init
<1>4. grants = assigned /\ contended = {} /\ \A r \in Request : requests[r] = Idle
  BY DEF Init
<1>5. ASSUME NEW s \in Slot, NEW x \in grants[s]
      PROVE  \E t \in Founded :
               /\ t \in Tenant /\ s[1] = "role permissions" /\ s[2] \in DefaultRoles(t)
               /\ s[2].tenant = t
               /\ x \in DefaultPermissions(t, DefaultKeys) /\ x \in Permission /\ x.tenant = t
  <2> PICK t \in Founded : s \in DOMAIN DefaultGrants(t)
    BY <1>3, <1>5
  <2>1. t \in Tenant
    BY AccessAssumption
  <2>2. s[1] = "role permissions" /\ s[2] \in DefaultRoles(t) /\ s[2].tenant = t
    BY <2>1, DefaultSlots, Defaults
  <2>3. grants[s] = DefaultGrants(t)[s]
    BY <1>3, <2>2
  <2>4. x \in DefaultPermissions(t, DefaultKeys)
    BY <2>1, <2>3, <1>5, Defaults
  <2> QED BY <2>1, <2>2, <2>4, Defaults
<1>6. \A s \in Slot : grants[s] \subseteq KindOf(s)
  BY <1>5 DEF KindOf
<1>7. TypeOK
  <2>1. grants \in [Slot -> SUBSET Item] /\ assigned \in [Slot -> SUBSET Item]
    <3>1. DOMAIN grants = Slot /\ grants = [s \in Slot |-> grants[s]]
      BY DEF Init
    <3> QED BY <1>4, <1>6, <3>1 DEF KindOf, Item
  <2>2. witnessed \in [Request -> WitnessType]
    BY DEF Init, WitnessType
  <2>3. tenants \in [Tenant -> Name \cup {NoTenant}]
    BY AccessAssumption DEF Init
  <2>4. members \in [User -> Tenant \cup {Tenantless, Unborn, Gone}]
    BY AccessAssumption DEF Init
  <2>5. items \in [Item -> {"unborn", "there", "gone"}]
    BY DEF Init
  <2>6. projects \in [Project -> [tenant : Tenant, owner : User] \cup {Unborn, Gone}]
    BY DEF Init
  <2>7. requests \in [Request -> RequestState]
    BY RequestStates DEF Init
  <2>8. contended \subseteq User \cup Slot /\ served \in 0 .. MaxServed
    BY AccessAssumption DEF Init
  <2> QED BY <2>1, <2>2, <2>3, <2>4, <2>5, <2>6, <2>7, <2>8 DEF TypeOK, WitnessType
<1>8. \A r \in Request : requests[r].step = "idle"
  BY <1>4, IdleAtRest
<1>9. KindsKept
  BY <1>6, <1>8 DEF KindsKept, ReplaceStep
<1>10. ContentionSeen /\ MoversHaveNoTenant /\ OfferedByTenant /\ OwnersKnown /\ ChecksHold
       /\ SeenIsAll /\ GuardReads /\ ActorsKnown /\ GuardJudgesRight
  BY <1>8 DEF ContentionSeen, HeldByTwo, Holders, MoversHaveNoTenant, Mover, OfferedByTenant,
     OwnersKnown, ChecksHold, SeenIsAll, GuardReads, ActorsKnown, GuardJudgesRight,
     At, ReplaceStep, GuardStep
<1>11. UnfoundedIsEmpty
  <2> SUFFICES ASSUME NEW x \in Item, tenants[x.tenant] = NoTenant, items[x] # "unborn"
               PROVE  FALSE
    BY DEF UnfoundedIsEmpty
  <2> PICK t \in Founded : x \in DefaultRoles(t) \cup DefaultPermissions(t, DefaultKeys)
    BY <1>2
  <2>1. t \in Tenant /\ t \in Name /\ x.tenant = t
    BY AccessAssumption, Defaults
  <2> QED BY <1>1, <2>1, AccessAssumption
<1>12. GrantsOfOwnTenant
  <2> SUFFICES ASSUME NEW s \in Slot, NEW x \in grants[s]
               PROVE  There(x) /\ OwnedIn(s, x.tenant)
    BY DEF GrantsOfOwnTenant
  <2> PICK t \in Founded :
        /\ t \in Tenant /\ s[1] = "role permissions" /\ s[2] \in DefaultRoles(t)
        /\ s[2].tenant = t
        /\ x \in DefaultPermissions(t, DefaultKeys) /\ x \in Permission /\ x.tenant = t
    BY <1>5
  <2>1. s[2] \in Item /\ x \in Item
    BY Defaults DEF Item
  <2> QED BY <1>2, <2>1 DEF There, OwnedIn
<1>13. AssignmentsHold
  BY <1>4 DEF AssignmentsHold
<1>14. ProjectsOfOwnTenant
  BY DEF Init, ProjectsOfOwnTenant
<1> QED BY <1>7, <1>9, <1>10, <1>11, <1>12, <1>13, <1>14 DEF IInv

(* All of this holds in every reachable state (role.service.ts,            *)
(* user.service.ts, tenant-management.service.ts, permissions.guard.ts).   *)
THEOREM IInvInvariant == Spec => []IInv
<1>1. IInv /\ [Next]_vars => IInv'
  <2> SUFFICES ASSUME IInv, [Next]_vars PROVE IInv'
    OBVIOUS
  <2> USE DEF IInv
  <2>1. TypeOK' /\ KindsKept'
    BY TypeStep
  <2>2. CASE Next
    <3>1. Step /\ Witness /\ Contend
      BY <2>2 DEF Next, Contend
    <3>2. requests' \in [Request -> RequestState]
      BY <2>1 DEF TypeOK
    <3>3. ContentionSeen' /\ MoversHaveNoTenant'
      BY <3>1, ContentionStep, MoversStep
    <3>4. UnfoundedIsEmpty' /\ OfferedByTenant'
      BY <3>1, UnfoundedStep, OfferedStep
    <3>5. OwnersKnown' /\ ChecksHold'
      BY <3>1, OwnersStep, ChecksStep
    <3>6. SeenIsAll' /\ AssignmentsHold'
      BY <3>1, SeenStep, AssignmentsStep
    <3>7. GuardReads' /\ GuardJudgesRight'
      BY <3>1, GuardReadsStep, JudgmentStep
    <3>8. ActorsKnown'
      BY <3>1, <3>2, ActorsStep
    <3>9. GrantsOfOwnTenant'
      BY <3>1, GrantsStep
    <3>10. ProjectsOfOwnTenant'
      BY <3>1, ProjectsStep
    <3> QED BY <2>1, <3>3, <3>4, <3>5, <3>6, <3>7, <3>8, <3>9, <3>10
  <2>3. CASE UNCHANGED vars
    <3> USE <2>3 DEF vars, tables
    <3>1. ContentionSeen' /\ MoversHaveNoTenant'
      BY DEF ContentionSeen, HeldByTwo, Holders, MoversHaveNoTenant, Mover, At
    <3>2. UnfoundedIsEmpty' /\ OfferedByTenant'
      BY DEF UnfoundedIsEmpty, OfferedByTenant, At
    <3>3. OwnersKnown' /\ ChecksHold'
      BY DEF OwnersKnown, ChecksHold, OfTenant, OwnerContended, At
    <3>4. SeenIsAll' /\ AssignmentsHold'
      BY DEF SeenIsAll, AssignmentsHold, OwnerContended, At
    <3>5. GuardReads'
      BY DEF GuardReads, Effective, RoleKeys, DirectKeys, At
    <3>6. GuardJudgesRight' /\ ProjectsOfOwnTenant'
      BY DEF GuardJudgesRight, ProjectsOfOwnTenant, At
    <3>7. ActorsKnown'
      BY DEF ActorsKnown, At
    <3>8. GrantsOfOwnTenant'
      BY DEF GrantsOfOwnTenant, OwnerContended, OwnedIn, There
    <3> QED BY <2>1, <3>1, <3>2, <3>3, <3>4, <3>5, <3>6, <3>7, <3>8
  <2> QED BY <2>2, <2>3
<1> QED BY InitIInv, <1>1, PTL DEF Spec

(* Every reachable state is well typed.                                    *)
THEOREM TypeCorrect == Spec => []TypeOK
<1>1. IInv => TypeOK
  BY DEF IInv
<1> QED BY <1>1, IInvInvariant, PTL

(* What is checked before a transaction still holds in it: no member and   *)
(* no role gets rows of another tenant.                                    *)
THEOREM GrantsOfOwnTenantHolds == Spec => []GrantsOfOwnTenant
<1>1. IInv => GrantsOfOwnTenant
  BY DEF IInv
<1> QED BY <1>1, IInvInvariant, PTL

(* A successful assignment holds until the next one, and is all there is   *)
(* where no two met.                                                       *)
THEOREM AssignmentsHoldAlways == Spec => []AssignmentsHold
<1>1. IInv => AssignmentsHold
  BY DEF IInv
<1> QED BY <1>1, IInvInvariant, PTL

(* The guard's two readings admit and refuse as one reading would have.    *)
THEOREM GuardJudgesRightHolds == Spec => []GuardJudgesRight
<1>1. IInv => GuardJudgesRight
  BY DEF IInv
<1> QED BY <1>1, IInvInvariant, PTL

(* Projects stay in the tenant of their owner.                             *)
THEOREM ProjectsOfOwnTenantHolds == Spec => []ProjectsOfOwnTenant
<1>1. IInv => ProjectsOfOwnTenant
  BY DEF IInv
<1> QED BY <1>1, IInvInvariant, PTL

=============================================================================
