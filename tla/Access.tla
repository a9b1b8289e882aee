------------------------------- MODULE Access -------------------------------
(***************************************************************************)
(* Who may do what: tenants, their members, roles and permissions and the  *)
(* three join tables between them (src/src/tenant, user, role and          *)
(* permission), the guards that read them (jwt-auth.guard.ts and           *)
(* permissions.guard.ts) and the projects that admitted users create.      *)
(*                                                                         *)
(* Handlers check what they are given in statements of their own and write *)
(* in a transaction that does not check again.  Postgres runs it READ      *)
(* COMMITTED: the DELETE of a replacement removes the rows it saw when it  *)
(* started, whatever has been committed in between.                        *)
(***************************************************************************)
EXTENDS Naturals

CONSTANTS
  Tenant,       \* tenant ids
  User,         \* user ids
  Role,         \* role ids: [tenant, name]
  Permission,   \* permission ids: [tenant, key], a key being "action:subject"
  Project,      \* project ids
  Name,         \* names of tenants
  Request,      \* HTTP requests that may be in progress at once
  DefaultKeys,  \* the permissions of every new tenant
  ReadKeys,     \* the ones of its Member role
  Required,     \* what a route asks for
  Founded,      \* tenants there are at the start, their administrators outside User
  Asked,        \* the sets of ids a replacement may name
  Deletable,    \* the rows that may be deleted
  MaxServed,    \* how many requests are served
  NoTenant,     \* no such row in tenants
  Tenantless,   \* users.tenantId is null
  Unborn,       \* the id has not been given to a row
  Gone          \* the row was deleted

ASSUME AccessAssumption ==
  /\ Role \subseteq [tenant : Tenant, name : STRING]
  /\ Permission \subseteq [tenant : Tenant, key : STRING]
  /\ \A t \in Tenant :
       /\ {[tenant |-> t, name |-> n] : n \in {"Admin", "Member"}} \subseteq Role
       /\ {[tenant |-> t, key |-> k] : k \in DefaultKeys} \subseteq Permission
  /\ ReadKeys \subseteq DefaultKeys
  /\ Required # {}
  /\ MaxServed \in Nat
  /\ Founded \subseteq Tenant /\ Founded \subseteq Name
  /\ Asked \subseteq SUBSET (Role \cup Permission)
  /\ Deletable \subseteq User \cup Role \cup Permission \cup Project
  /\ NoTenant \notin Name
  /\ {Tenantless, Unborn, Gone} \cap Tenant = {}
  /\ Tenantless \notin {Unborn, Gone}
  /\ Unborn # Gone
  /\ Unborn \notin User
  /\ {Unborn, Gone} \cap [tenant : Tenant, owner : User] = {}

Item == Role \cup Permission

(* A row of a join table belongs to its owner: user_roles, user_permissions*)
(* and role_permissions.                                                   *)
UserRoles(u) == <<"user roles", u>>
UserPermissions(u) == <<"user permissions", u>>
RolePermissions(role) == <<"role permissions", role>>
Slot == ({"user roles", "user permissions"} \X User) \cup ({"role permissions"} \X Role)

VARIABLES
  tenants,    \* the name of each tenant
  members,    \* users.tenantId
  items,      \* which roles and permissions exist
  grants,     \* the rows of the three join tables, by owner
  projects,   \* the projects table
  requests,   \* what each request in progress has read so far
  assigned,   \* history: the rows last assigned, and not deleted since
  witnessed,  \* history: what the user of a guard held while it ran
  contended,  \* history: the users and slots two requests held at once
  served      \* history: how many requests have come

tables == <<tenants, members, items, grants, projects>>
vars == <<tables, requests, assigned, witnessed, contended, served>>

-----------------------------------------------------------------------------
Idle == [step |-> "idle"]

There(x) == items[x] = "there"
Exists(u) == members[u] \notin {Unborn, Gone}
ItemsOf(t) == {x \in Item : x.tenant = t /\ There(x)}

(* The tenant of the owner of a slot, by the row that a handler looks up.  *)
OwnedIn(s, t) ==
  IF s[1] = "role permissions" THEN There(s[2]) /\ s[2].tenant = t ELSE members[s[2]] = t

OwnerExists(s) == IF s[1] = "role permissions" THEN There(s[2]) ELSE Exists(s[2])

(* What a slot holds: roles or permissions.                                *)
KindOf(s) == IF s[1] = "user roles" THEN Role ELSE Permission

KeysOf(ps) == {p.key : p \in ps}
RoleKeys(u) ==
  KeysOf(UNION {grants[RolePermissions(role)] : role \in grants[UserRoles(u)]})
DirectKeys(u) == KeysOf(grants[UserPermissions(u)])
Effective(u) == RoleKeys(u) \cup DirectKeys(u)

RequestState ==
  {Idle}
    \cup [step : {"tenantless"}, user : User]
    \cup [step : {"founding"}, name : Name, founder : User \cup {Unborn}]
    \cup [step : {"joining"}, user : User, tenant : Tenant, roles : SUBSET Role]
    \cup [step : {"checking"}, slot : Slot, tenant : Tenant, items : SUBSET Item]
    \cup [step : {"replacing"}, slot : Slot, items : SUBSET Item]
    \cup [step : {"inserting"}, slot : Slot, items : SUBSET Item, seen : SUBSET Item]
    \cup [step : {"deleting"}, row : User \cup Item \cup Project]
    \cup [step : {"authenticated"}, user : User, tenant : Tenant]
    \cup [step : {"guarding"}, user : User, tenant : Tenant, keys : SUBSET STRING]
    \cup [step : {"admitted", "refused"}, user : User, tenant : Tenant]

At(r, step) == requests[r].step = step
Go(r, state) == requests' = [requests EXCEPT ![r] = state]
Finish(r) == Go(r, Idle)

TypeOK ==
  /\ tenants \in [Tenant -> Name \cup {NoTenant}]
  /\ members \in [User -> Tenant \cup {Tenantless, Unborn, Gone}]
  /\ items \in [Item -> {"unborn", "there", "gone"}]
  /\ grants \in [Slot -> SUBSET Item]
  /\ projects \in [Project -> [tenant : Tenant, owner : User] \cup {Unborn, Gone}]
  /\ requests \in [Request -> RequestState]
  /\ assigned \in [Slot -> SUBSET Item]
  /\ witnessed \in [Request -> [always : SUBSET STRING, ever : SUBSET STRING, steady : BOOLEAN]]
  /\ contended \subseteq User \cup Slot
  /\ served \in 0 .. MaxServed

DefaultRoles(t) == {[tenant |-> t, name |-> n] : n \in {"Admin", "Member"}}
DefaultPermissions(t, keys) == {[tenant |-> t, key |-> k] : k \in keys}

(* What the roles of a new tenant give.                                    *)
DefaultGrants(t) ==
  [s \in {RolePermissions(role) : role \in DefaultRoles(t)} |->
     DefaultPermissions(t, IF s[2].name = "Admin" THEN DefaultKeys ELSE ReadKeys)]

Init ==
  LET rows == [s \in Slot |->
        IF \E t \in Founded : s \in DOMAIN DefaultGrants(t)
        THEN DefaultGrants(s[2].tenant)[s] ELSE {}] IN
  /\ tenants = [t \in Tenant |-> IF t \in Founded THEN t ELSE NoTenant]
  /\ members \in [User -> {Unborn, Tenantless} \cup Founded]
  /\ items = [x \in Item |->
       IF \E t \in Founded : x \in DefaultRoles(t) \cup DefaultPermissions(t, DefaultKeys)
       THEN "there" ELSE "unborn"]
  /\ grants = rows
  /\ projects = [p \in Project |-> Unborn]
  /\ requests = [r \in Request |-> Idle]
  /\ assigned = rows
  /\ witnessed = [r \in Request |-> [always |-> {}, ever |-> {}, steady |-> TRUE]]
  /\ contended = {}
  /\ served = 0

-----------------------------------------------------------------------------
(* Plausible mistakes in the handlers below, for mutation checks.          *)

(* A replacement that trusts the ids it is given.                          *)
CheckItemsUnchecked(r, s) ==
  LET q == requests[r] IN
  /\ At(r, "checking") /\ q.slot = s
  /\ Go(r, [step |-> "replacing", slot |-> q.slot, items |-> q.items])
  /\ UNCHANGED <<tables, assigned>>

(* A replacement that adds without removing.                               *)
InsertItemsOnly(r, s) ==
  LET q == requests[r] IN
  /\ At(r, "inserting") /\ q.slot = s
  /\ \A x \in q.items : There(x)
  /\ q.items \cap grants[s] = {}
  /\ grants' = [grants EXCEPT ![s] = @ \cup q.items]
  /\ assigned' = [assigned EXCEPT ![s] = q.items]
  /\ Finish(r)
  /\ UNCHANGED <<tenants, members, items, projects>>

(* A guard that knows roles only.                                          *)
JudgeByRoles(r) ==
  LET q == requests[r] IN
  /\ At(r, "guarding")
  /\ Go(r, [step |-> IF Required \subseteq q.keys THEN "admitted" ELSE "refused",
            user |-> q.user, tenant |-> q.tenant])
  /\ UNCHANGED <<tables, assigned>>

(* A guard that lets anybody pass who is signed in.                        *)
JudgeNobody(r) ==
  /\ At(r, "guarding")
  /\ Go(r, [step |-> "admitted", user |-> requests[r].user, tenant |-> requests[r].tenant])
  /\ UNCHANGED <<tables, assigned>>

-----------------------------------------------------------------------------
(* Tenants: createTenant, a public registration with a new administrator,  *)
(* createTenantForUser and joinTenantForUser, for a user without a tenant. *)

(* TenantLessOnlyGuard, by the row that JwtAuthGuard loaded.               *)
HasNoTenant(u) == members[u] = Tenantless

(* The handler reads the user again.                                       *)
ReadTenantless(r, u) ==
  /\ requests[r] = Idle
  /\ HasNoTenant(u)
  /\ Go(r, [step |-> "tenantless", user |-> u])
  /\ UNCHANGED <<tables, assigned>>

(* tenants.name is not unique in the database.                             *)
NameTaken(n) == \E t \in Tenant : tenants[t] = n

CheckName(r, n) ==
  /\ requests[r] = Idle \/ At(r, "tenantless")
  /\ ~NameTaken(n)
  /\ Go(r, [step |-> "founding", name |-> n,
            founder |-> IF requests[r] = Idle THEN Unborn ELSE requests[r].user])
  /\ UNCHANGED <<tables, assigned>>

(* One transaction: the tenant, its permissions, its Admin role with all   *)
(* of them, its Member role with those to read, and its administrator.     *)
Found(r, t, u) ==
  LET new == DefaultGrants(t)
      Add(rows) == [s \in Slot |->
        IF s \in DOMAIN new THEN new[s]
        ELSE IF s = UserRoles(u) THEN rows[s] \cup {[tenant |-> t, name |-> "Admin"]}
        ELSE rows[s]] IN
  /\ At(r, "founding")
  /\ tenants[t] = NoTenant
  /\ tenants' = [tenants EXCEPT ![t] = requests[r].name]
  /\ members' = [members EXCEPT ![u] = t]
  /\ items' = [x \in Item |->
       IF x \in DefaultRoles(t) \cup DefaultPermissions(t, DefaultKeys) THEN "there" ELSE items[x]]
  /\ grants' = Add(grants)
  /\ assigned' = Add(assigned)
  /\ Finish(r)
  /\ UNCHANGED projects

(* createTenant inserts the administrator, too.                            *)
FoundByRegistration(r, t, u) ==
  /\ At(r, "founding") /\ requests[r].founder = Unborn
  /\ members[u] = Unborn
  /\ Found(r, t, u)

(* createTenantForUser updates the user by id, whatever the tenant is now. *)
FoundForUser(r, t, u) ==
  /\ At(r, "founding") /\ requests[r].founder = u
  /\ Exists(u)
  /\ Found(r, t, u)

(* The invitation, with the roles it offers (external: see Invitations).   *)
CheckInvitation(r, t, roles) ==
  /\ At(r, "tenantless")
  /\ tenants[t] # NoTenant
  /\ roles \in Asked /\ roles \subseteq ItemsOf(t) \cap Role
  /\ Go(r, [step |-> "joining", user |-> requests[r].user, tenant |-> t, roles |-> roles])
  /\ UNCHANGED <<tables, assigned>>

(* The foreign key wants the roles, the primary key wants them to be new.  *)
JoinTenant(r) ==
  LET q == requests[r]
      s == UserRoles(q.user) IN
  /\ At(r, "joining")
  /\ Exists(q.user)
  /\ \A role \in q.roles : There(role)
  /\ q.roles \cap grants[s] = {}
  /\ members' = [members EXCEPT ![q.user] = q.tenant]
  /\ grants' = [grants EXCEPT ![s] = @ \cup q.roles]
  /\ assigned' = [assigned EXCEPT ![s] = @ \cup q.roles]
  /\ Finish(r)
  /\ UNCHANGED <<tenants, items, projects>>

-----------------------------------------------------------------------------
(* Rows of their own: users, roles and permissions are created in one      *)
(* statement for the tenant of the request.  Emails, role names and        *)
(* actions are unique in a tenant; an id stands for one of them.           *)

CreateUser(u, t) ==
  /\ members[u] = Unborn
  /\ tenants[t] # NoTenant
  /\ members' = [members EXCEPT ![u] = t]
  /\ UNCHANGED <<tenants, items, grants, projects, requests, assigned>>

(* A role or a permission.                                                 *)
CreateItem(x) ==
  /\ tenants[x.tenant] # NoTenant
  /\ items[x] = "unborn"
  /\ items' = [items EXCEPT ![x] = "there"]
  /\ UNCHANGED <<tenants, members, grants, projects, requests, assigned>>

CreateRole(x) == x \in Role /\ CreateItem(x)
CreatePermission(x) == x \in Permission /\ CreateItem(x)

(* Each is looked up in the tenant first ...                               *)
FindForDeletion(r, row) ==
  /\ requests[r] = Idle
  /\ \/ row \in User /\ members[row] \in Tenant
     \/ row \in Item /\ There(row)
     \/ row \in Project /\ projects[row] \notin {Unborn, Gone}
  /\ Go(r, [step |-> "deleting", row |-> row])
  /\ UNCHANGED <<tables, assigned>>

(* What cascades: the rows of the join tables with the deleted row.        *)
Without(rows, row) ==
  [s \in Slot |-> IF s[2] = row THEN {} ELSE rows[s] \ {row}]

(* ... and deleted by id.                                                  *)
DeleteUser(r, u) ==
  /\ At(r, "deleting") /\ requests[r].row = u
  /\ Exists(u)
  /\ members' = [members EXCEPT ![u] = Gone]
  /\ grants' = Without(grants, u)
  /\ assigned' = Without(assigned, u)
  /\ projects' = [p \in Project |->
       IF projects[p] \notin {Unborn, Gone} /\ projects[p].owner = u THEN Gone ELSE projects[p]]
  /\ Finish(r)
  /\ UNCHANGED <<tenants, items>>

DeleteItem(r, x) ==
  /\ At(r, "deleting") /\ requests[r].row = x
  /\ There(x)
  /\ items' = [items EXCEPT ![x] = "gone"]
  /\ grants' = Without(grants, x)
  /\ assigned' = Without(assigned, x)
  /\ Finish(r)
  /\ UNCHANGED <<tenants, members, projects>>

DeleteRole(r, x) == x \in Role /\ DeleteItem(r, x)
DeletePermission(r, x) == x \in Permission /\ DeleteItem(r, x)

DeleteProject(r, p) ==
  /\ At(r, "deleting") /\ requests[r].row = p
  /\ projects[p] \notin {Unborn, Gone}
  /\ projects' = [projects EXCEPT ![p] = Gone]
  /\ Finish(r)
  /\ UNCHANGED <<tenants, members, items, grants, assigned>>

-----------------------------------------------------------------------------
(* Replacing what a slot holds: assignRoles, assignPermissions,            *)
(* updatePermissions                                                       *)

(* The owner is found in the request's tenant ...                          *)
FindOwner(r, s, t, xs) ==
  /\ requests[r] = Idle
  /\ OwnedIn(s, t)
  /\ xs \subseteq KindOf(s)
  /\ Go(r, [step |-> "checking", slot |-> s, tenant |-> t, items |-> xs])
  /\ UNCHANGED <<tables, assigned>>

(* ... and so are the roles or permissions, all of them.                   *)
CheckItems(r, s) ==
  LET q == requests[r] IN
  /\ At(r, "checking") /\ q.slot = s
  /\ q.items \subseteq ItemsOf(q.tenant)
  /\ Go(r, [step |-> "replacing", slot |-> q.slot, items |-> q.items])
  /\ UNCHANGED <<tables, assigned>>

(* The transaction's DELETE takes the rows there are when it starts; they  *)
(* are gone for the others when it commits.                                *)
DeleteHeld(r, s) ==
  LET q == requests[r] IN
  /\ At(r, "replacing") /\ q.slot = s
  /\ Go(r, [step |-> "inserting", slot |-> q.slot, items |-> q.items,
            seen |-> grants[q.slot]])
  /\ UNCHANGED <<tables, assigned>>

(* INSERT and commit.  A row that another one inserted since the DELETE    *)
(* stays, and one with the same key aborts the transaction; a row that two *)
(* have seen is deleted once, and is another row if it is inserted again.  *)
InsertItems(r, s) ==
  LET q == requests[r]
      kept == grants[s] \ q.seen
      deleted == grants[s] \cap q.seen IN
  /\ At(r, "inserting") /\ q.slot = s
  /\ \A x \in q.items : There(x)
  /\ OwnerExists(s)
  /\ q.items \cap kept = {}
  /\ grants' = [grants EXCEPT ![s] = kept \cup q.items]
  /\ assigned' = [assigned EXCEPT ![s] = q.items]
  /\ requests' = [p \in Request |->
       IF p = r THEN Idle
       ELSE IF At(p, "inserting") /\ requests[p].slot = s
            THEN [requests[p] EXCEPT !.seen = @ \ deleted]
            ELSE requests[p]]
  /\ UNCHANGED <<tenants, members, items, projects>>

Replace(r, s) ==
  \/ \E t \in Tenant, xs \in Asked : FindOwner(r, s, t, xs)
  \/ CheckItems(r, s)
  \/ DeleteHeld(r, s)
  \/ InsertItems(r, s)

AssignRoles(r, u) == Replace(r, UserRoles(u))
AssignPermissions(r, u) == Replace(r, UserPermissions(u))
UpdatePermissions(r, role) == Replace(r, RolePermissions(role))

-----------------------------------------------------------------------------
(* Guards and projects *)

(* JwtAuthGuard: a token of a tenant is good in that tenant, a token       *)
(* without one in any; the user is as the token says.                      *)
Authenticate(r, u, t) ==
  /\ requests[r] = Idle
  /\ members[u] \in {Tenantless, t}
  /\ Go(r, [step |-> "authenticated", user |-> u, tenant |-> t])
  /\ UNCHANGED <<tables, assigned>>

(* PermissionsGuard reads what the roles give ...                          *)
ReadRoleKeys(r) ==
  LET q == requests[r] IN
  /\ At(r, "authenticated")
  /\ Go(r, [step |-> "guarding", user |-> q.user, tenant |-> q.tenant,
            keys |-> RoleKeys(q.user)])
  /\ UNCHANGED <<tables, assigned>>

(* ... then what the user has directly, and decides.                       *)
Judge(r) ==
  LET q == requests[r] IN
  /\ At(r, "guarding")
  /\ Go(r, [step |-> IF Required \subseteq q.keys \cup DirectKeys(q.user)
                     THEN "admitted" ELSE "refused",
            user |-> q.user, tenant |-> q.tenant])
  /\ UNCHANGED <<tables, assigned>>

(* ProjectService.create, with the tenant of the request and its user.     *)
CreateProject(r, p) ==
  LET q == requests[r] IN
  /\ At(r, "admitted")
  /\ Exists(q.user)
  /\ tenants[q.tenant] # NoTenant
  /\ projects[p] = Unborn
  /\ projects' = [projects EXCEPT ![p] = [tenant |-> q.tenant, owner |-> q.user]]
  /\ Finish(r)
  /\ UNCHANGED <<tenants, members, items, grants, assigned>>

(* A check or a statement is refused, a transaction is aborted, the        *)
(* process dies, or the request was only to read.                          *)
Fail(r) ==
  /\ requests[r] # Idle
  /\ Finish(r)
  /\ UNCHANGED <<tables, assigned>>

-----------------------------------------------------------------------------
(* The controllers.                                                        *)
TenantRoutes(r) ==
  \/ \E n \in Name : CheckName(r, n)
  \/ \E t \in Tenant, u \in User : FoundByRegistration(r, t, u)

TenantManagementRoutes(r) ==
  \/ \E u \in User : ReadTenantless(r, u) \/ \E t \in Tenant : FoundForUser(r, t, u)
  \/ \E t \in Tenant, roles \in Asked : CheckInvitation(r, t, roles)
  \/ JoinTenant(r)

UserRoutes(r) ==
  \E u \in User : AssignRoles(r, u) \/ AssignPermissions(r, u) \/ DeleteUser(r, u)

RoleRoutes(r) == \E x \in Role : UpdatePermissions(r, x) \/ DeleteRole(r, x)

PermissionRoutes(r) == \E x \in Permission : DeletePermission(r, x)

ProjectRoutes(r) ==
  \/ \E u \in User, t \in Tenant : Authenticate(r, u, t)
  \/ ReadRoleKeys(r)
  \/ Judge(r)
  \/ \E p \in Project : CreateProject(r, p) \/ DeleteProject(r, p)

Handle(r) ==
  \/ TenantRoutes(r)
  \/ TenantManagementRoutes(r)
  \/ UserRoutes(r)
  \/ RoleRoutes(r)
  \/ PermissionRoutes(r)
  \/ ProjectRoutes(r)
  \/ \E row \in Deletable : FindForDeletion(r, row)
  \/ Fail(r)

Step ==
  \/ \E r \in Request : Handle(r)
  \/ \E u \in User, t \in Tenant : CreateUser(u, t)
  \/ \E x \in Item : CreateRole(x) \/ CreatePermission(x)

(* History.                                                                *)
Holders(x) ==
  {r \in Request :
     \/ At(r, "tenantless") /\ requests[r].user = x
     \/ At(r, "founding") /\ requests[r].founder = x
     \/ At(r, "joining") /\ requests[r].user = x
     \/ At(r, "inserting") /\ requests[r].slot = x}

HeldByTwo == {x \in User \cup Slot : \E r, p \in Holders(x) : r # p}

(* The users who got a tenant while a request of theirs was on its way to  *)
(* another one.                                                            *)
Moved ==
  {u \in User : \E r \in Request :
     /\ requests[r].step \in {"authenticated", "guarding", "admitted"}
     /\ requests[r].user = u
     /\ members[u] \in Tenant \ {requests[r].tenant}}

Witness ==
  witnessed' = [r \in Request |->
    LET u == requests[r].user IN
    CASE At(r, "authenticated") /\ At(r, "guarding")' ->
           [always |-> Effective(u)', ever |-> Effective(u)', steady |-> TRUE]
      [] At(r, "guarding") /\ At(r, "guarding")' ->
           [always |-> witnessed[r].always \cap Effective(u)',
            ever |-> witnessed[r].ever \cup Effective(u)',
            steady |-> witnessed[r].steady /\ RoleKeys(u)' = RoleKeys(u)]
      [] requests'[r].step \in {"admitted", "refused"} -> witnessed[r]
      [] OTHER -> [always |-> {}, ever |-> {}, steady |-> TRUE]]

Next ==
  /\ Step
  /\ Witness
  /\ contended' = contended \cup HeldByTwo' \cup Moved'
  /\ served' = IF requests' = requests \/ \E r \in Request : requests[r] = Idle /\ requests'[r] # Idle
               THEN served + 1 ELSE served
  /\ served' <= MaxServed

Spec == Init /\ [][Next]_vars

-----------------------------------------------------------------------------
(* What the component guarantees *)

(* The owner of a slot is a user whom two requests moved at once.          *)
OwnerContended(s) == s[1] # "role permissions" /\ s[2] \in contended

(* Roles and permissions do not cross tenants, although they are checked   *)
(* before the transaction that grants them: a member whose move into a     *)
(* tenant no second request attempted meanwhile holds what belongs to that *)
(* tenant, and a role holds permissions of its own.                        *)
GrantsOfOwnTenant ==
  \A s \in Slot : ~OwnerContended(s) =>
    \A x \in grants[s] : There(x) /\ OwnedIn(s, x.tenant)

(* An assignment that was answered with success holds until the next one   *)
(* succeeds, whatever runs beside it; where no two replacements met,       *)
(* nothing else is held.                                                   *)
AssignmentsHold ==
  \A s \in Slot :
    /\ assigned[s] \subseteq grants[s]
    /\ s \notin contended /\ ~OwnerContended(s) => grants[s] = assigned[s]

(* The guard's two readings are not of one state, yet whom it admits had   *)
(* each permission while it ran, and whom it refuses lacked one at some    *)
(* time, unless a role of the user changed in between.                     *)
GuardJudgesRight ==
  \A r \in Request :
    /\ At(r, "admitted") => Required \subseteq witnessed[r].ever
    /\ At(r, "refused") /\ witnessed[r].steady => ~ Required \subseteq witnessed[r].always

(* A project belongs to its owner's tenant.  The owner was admitted to the *)
(* tenant the request names: as its member, or as a user without a tenant, *)
(* who has no permission to create one.                                    *)
ProjectsOfOwnTenant ==
  \A p \in Project : projects[p] \notin {Unborn, Gone} =>
    \/ projects[p].owner \in contended
    \/ members[projects[p].owner] = projects[p].tenant

=============================================================================
