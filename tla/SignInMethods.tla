---------------------------- MODULE SignInMethods ----------------------------
(***************************************************************************)
(* How a user may sign in: the password, google_id and auth_methods of a   *)
(* users row, which Google sign-in, linking, unlinking and the two ways of *)
(* setting a password read and later write back (google-auth.service.ts    *)
(* and auth.service.ts of src/src/auth), and the OAuth states that guard   *)
(* the Google callbacks (oauth-state.service.ts).                          *)
(*                                                                         *)
(* Only the statements that create a user are transactions; everything     *)
(* else is one statement per round trip.                                   *)
(***************************************************************************)
EXTENDS Naturals

CONSTANTS
  User,      \* identities of user rows: [email, tenant]
  Account,   \* Google accounts: [email, nr]
  State,     \* the random states of OAuth flows
  Request,   \* HTTP requests that may be in progress at once
  NoUser,    \* no row yet; as the user of a state: a sign-in flow
  Gone,      \* the row was deleted
  NoState,   \* no such key in Redis
  Unlinked   \* google_id is null

Method == {"password", "google"}
UserRow == [password : BOOLEAN, google : Account \cup {Unlinked}, methods : SUBSET Method]
Context == {u.tenant : u \in User}
StateData == [user : User \cup {NoUser}, tenant : Context]

(* An address has one user per tenant and one without a tenant, by the two *)
(* partial unique indexes; "tenant" is either.                             *)
ASSUME SignInMethodsAssumption ==
  /\ User \subseteq [email : STRING, tenant : STRING]
  /\ Account \subseteq [email : STRING, nr : Nat]
  /\ NoUser \notin User \cup UserRow
  /\ Gone \notin {NoUser} \cup UserRow
  /\ NoState \notin StateData
  /\ Unlinked \notin Account

VARIABLES
  users,     \* the columns of the users table that decide who can sign in
  states,    \* the oauth_state keys in Redis
  requests,  \* what each request in progress has read so far
  accepted,  \* history: how often each state was accepted
  contended  \* history: the users and states that two requests held at once

vars == <<users, states, requests, accepted, contended>>

-----------------------------------------------------------------------------
Exists(u) == users[u] \notin {NoUser, Gone}
Owners(a) == {u \in User : Exists(u) /\ users[u].google = a}

Idle == [step |-> "idle"]

RequestState ==
  {Idle}
    \cup [step : {"accepting"}, state : State, data : StateData, account : Account]
    \cup [step : {"profiled", "unknown", "creating"}, tenant : Context, account : Account]
    \cup [step : {"claiming", "linking"}, user : User, account : Account]
    \cup [step : {"writing"}, user : User, account : Account, methods : SUBSET Method]
    \cup [step : {"unlinking", "hashing"}, user : User, methods : SUBSET Method]

At(r, step) == requests[r].step = step
Go(r, state) == requests' = [requests EXCEPT ![r] = state]
Finish(r) == Go(r, Idle)

(* The requests that have read a row or a state and will write it back.    *)
Holders(x) ==
  {r \in Request :
     \/ requests[r].step \in {"writing", "unlinking", "hashing"} /\ requests[r].user = x
     \/ At(r, "accepting") /\ requests[r].state = x}

HeldByTwo == {x \in User \cup State : \E r, p \in Holders(x) : r # p}

TypeOK ==
  /\ users \in [User -> UserRow \cup {NoUser, Gone}]
  /\ states \in [State -> StateData \cup {NoState}]
  /\ requests \in [Request -> RequestState]
  /\ accepted \in [State -> Nat]
  /\ contended \subseteq User \cup State

Init ==
  /\ users = [u \in User |-> NoUser]
  /\ states = [s \in State |-> NoState]
  /\ requests = [r \in Request |-> Idle]
  /\ accepted = [s \in State |-> 0]
  /\ contended = {}

-----------------------------------------------------------------------------
(* Plausible mistakes in the handlers below, for mutation checks.          *)

(* An unlink that does not ask for another method.                         *)
ReadForUnlinkUnchecked(r, u) ==
  /\ requests[r] = Idle
  /\ Exists(u)
  /\ users[u].google # Unlinked
  /\ Go(r, [step |-> "unlinking", user |-> u, methods |-> users[u].methods \ {"google"}])
  /\ UNCHANGED <<users, states, accepted>>

(* An unlink that leaves authMethods alone.                                *)
WriteUnlinkedOnly(r) ==
  LET u == requests[r].user IN
  /\ At(r, "unlinking")
  /\ Exists(u)
  /\ users' = [users EXCEPT ![u].google = Unlinked]
  /\ Finish(r)
  /\ UNCHANGED <<states, accepted>>

(* A state that is left to expire.                                         *)
AcceptStateKept(r) ==
  LET q == requests[r] IN
  /\ At(r, "accepting")
  /\ accepted' = [accepted EXCEPT ![q.state] = @ + 1]
  /\ Go(r, IF q.data.user = NoUser
           THEN [step |-> "profiled", tenant |-> q.data.tenant, account |-> q.account]
           ELSE [step |-> "claiming", user |-> q.data.user, account |-> q.account])
  /\ UNCHANGED <<users, states>>

-----------------------------------------------------------------------------
(* Users come and go *)

(* Registered, invited or created by an administrator with a password.     *)
CreateUserWithPassword(u) ==
  /\ users[u] = NoUser
  /\ users' = [users EXCEPT
       ![u] = [password |-> TRUE, google |-> Unlinked, methods |-> {"password"}]]
  /\ UNCHANGED <<states, requests, accepted>>

DeleteUser(u) ==
  /\ Exists(u)
  /\ users' = [users EXCEPT ![u] = Gone]
  /\ UNCHANGED <<states, requests, accepted>>

-----------------------------------------------------------------------------
(* OAuth states *)

(* generateState: a sign-in flow stores the tenant, a linking flow the     *)
(* user.  A state is 32 random bytes and never comes up again.             *)
GenerateState(s, data) ==
  /\ states[s] = NoState /\ accepted[s] = 0
  /\ \A r \in Request : At(r, "accepting") => requests[r].state # s
  /\ data.user # NoUser => Exists(data.user)
  /\ states' = [states EXCEPT ![s] = data]
  /\ UNCHANGED <<users, requests, accepted>>

(* Its ten minutes pass, or a callback of the wrong kind or user deletes it.*)
ExpireState(s) ==
  /\ states[s] # NoState
  /\ states' = [states EXCEPT ![s] = NoState]
  /\ UNCHANGED <<users, requests, accepted>>

(* validateState reads the state: what it holds decides the callback that  *)
(* accepts it ...                                                          *)
ReadState(r, s, a) ==
  /\ requests[r] = Idle
  /\ states[s] # NoState
  /\ Go(r, [step |-> "accepting", state |-> s, data |-> states[s], account |-> a])
  /\ UNCHANGED <<users, states, accepted>>

(* ... and deletes it.  Google then answers with the account's profile.    *)
AcceptState(r) ==
  LET q == requests[r] IN
  /\ At(r, "accepting")
  /\ states' = [states EXCEPT ![q.state] = NoState]
  /\ accepted' = [accepted EXCEPT ![q.state] = @ + 1]
  /\ Go(r, IF q.data.user = NoUser
           THEN [step |-> "profiled", tenant |-> q.data.tenant, account |-> q.account]
           ELSE [step |-> "claiming", user |-> q.data.user, account |-> q.account])
  /\ UNCHANGED users

-----------------------------------------------------------------------------
(* Google sign-in, in a tenant or without: authenticateWithGoogle and      *)
(* authenticateWithGoogleTenantless.  A tenant that has switched Google or *)
(* provisioning off, and an account of another tenant, end in Fail.        *)

SignInOwner(r) ==
  /\ At(r, "profiled")
  /\ \E u \in Owners(requests[r].account) : u.tenant = requests[r].tenant
  /\ Finish(r)
  /\ UNCHANGED <<users, states, accepted>>

FindNoOwner(r) ==
  LET q == requests[r] IN
  /\ At(r, "profiled")
  /\ Owners(q.account) = {}
  /\ Go(r, [step |-> "unknown", tenant |-> q.tenant, account |-> q.account])
  /\ UNCHANGED <<users, states, accepted>>

FindByEmail(r, u) ==
  LET q == requests[r] IN
  /\ At(r, "unknown")
  /\ Exists(u)
  /\ u.tenant = q.tenant /\ u.email = q.account.email
  /\ Go(r, [step |-> "linking", user |-> u, account |-> q.account])
  /\ UNCHANGED <<users, states, accepted>>

FindNobody(r) ==
  LET q == requests[r] IN
  /\ At(r, "unknown")
  /\ \A u \in User : u.tenant = q.tenant /\ u.email = q.account.email => ~Exists(u)
  /\ Go(r, [step |-> "creating", tenant |-> q.tenant, account |-> q.account])
  /\ UNCHANGED <<users, states, accepted>>

(* Under the unique indexes on the address and on google_id.               *)
CreateUserFromGoogle(r, u) ==
  LET q == requests[r] IN
  /\ At(r, "creating")
  /\ u.tenant = q.tenant /\ u.email = q.account.email
  /\ users[u] = NoUser
  /\ Owners(q.account) = {}
  /\ users' = [users EXCEPT
       ![u] = [password |-> FALSE, google |-> q.account, methods |-> {"google"}]]
  /\ Finish(r)
  /\ UNCHANGED <<states, accepted>>

(* linkGoogleAccount, for a user who is signed in: the addresses agree and *)
(* nobody else has the account.                                            *)
CheckUnclaimed(r) ==
  LET q == requests[r] IN
  /\ At(r, "claiming")
  /\ Exists(q.user)
  /\ q.user.email = q.account.email
  /\ Owners(q.account) \subseteq {q.user}
  /\ Go(r, [step |-> "linking", user |-> q.user, account |-> q.account])
  /\ UNCHANGED <<users, states, accepted>>

(* linkGoogleAccountInternal reads authMethods ...                         *)
ReadMethods(r) ==
  LET q == requests[r] IN
  /\ At(r, "linking")
  /\ Exists(q.user)
  /\ Go(r, [step |-> "writing", user |-> q.user, account |-> q.account,
            methods |-> users[q.user].methods \cup {"google"}])
  /\ UNCHANGED <<users, states, accepted>>

(* ... and writes them back with the account's id, which is unique.        *)
WriteLinked(r) ==
  LET q == requests[r] IN
  /\ At(r, "writing")
  /\ Exists(q.user)
  /\ Owners(q.account) \subseteq {q.user}
  /\ users' = [users EXCEPT
       ![q.user] = [@ EXCEPT !.google = q.account, !.methods = q.methods]]
  /\ Finish(r)
  /\ UNCHANGED <<states, accepted>>

-----------------------------------------------------------------------------
(* unlinkGoogleAccount *)

ReadForUnlink(r, u) ==
  /\ requests[r] = Idle
  /\ Exists(u)
  /\ users[u].google # Unlinked
  /\ users[u].methods \ {"google"} # {}
  /\ Go(r, [step |-> "unlinking", user |-> u, methods |-> users[u].methods \ {"google"}])
  /\ UNCHANGED <<users, states, accepted>>

WriteUnlinked(r) ==
  LET q == requests[r] IN
  /\ At(r, "unlinking")
  /\ Exists(q.user)
  /\ users' = [users EXCEPT ![q.user] = [@ EXCEPT !.google = Unlinked, !.methods = q.methods]]
  /\ Finish(r)
  /\ UNCHANGED <<states, accepted>>

-----------------------------------------------------------------------------
(* setPassword for a user without one, and resetPasswordWithOtp for anyone *)
(* (its OTP is the EmailOtp module's): both read authMethods, spend a while*)
(* on bcrypt or on the OTP, and write them back with the password.         *)

ReadForPassword(r, u) ==
  /\ requests[r] = Idle
  /\ Exists(u)
  /\ Go(r, [step |-> "hashing", user |-> u,
            methods |-> users[u].methods \cup {"password"}])
  /\ UNCHANGED <<users, states, accepted>>

WritePassword(r) ==
  LET q == requests[r] IN
  /\ At(r, "hashing")
  /\ Exists(q.user)
  /\ users' = [users EXCEPT ![q.user] =
       [password |-> TRUE, google |-> users[q.user].google, methods |-> q.methods]]
  /\ Finish(r)
  /\ UNCHANGED <<states, accepted>>

-----------------------------------------------------------------------------
(* A check or a statement is refused, or the process dies.                 *)
Fail(r) ==
  /\ requests[r] # Idle
  /\ Finish(r)
  /\ UNCHANGED <<users, states, accepted>>

Handle(r) ==
  \/ \E s \in State, a \in Account : ReadState(r, s, a)
  \/ AcceptState(r)
  \/ SignInOwner(r)
  \/ FindNoOwner(r)
  \/ FindNobody(r)
  \/ CheckUnclaimed(r)
  \/ ReadMethods(r)
  \/ WriteLinked(r)
  \/ WriteUnlinked(r)
  \/ WritePassword(r)
  \/ \E u \in User :
       \/ FindByEmail(r, u)
       \/ CreateUserFromGoogle(r, u)
       \/ ReadForUnlink(r, u)
       \/ ReadForPassword(r, u)
  \/ Fail(r)

Step ==
  \/ \E r \in Request : Handle(r)
  \/ \E u \in User : CreateUserWithPassword(u) \/ DeleteUser(u)
  \/ \E s \in State : ExpireState(s) \/ \E data \in StateData : GenerateState(s, data)

Next == Step /\ contended' = contended \cup HeldByTwo'

Spec == Init /\ [][Next]_vars

-----------------------------------------------------------------------------
(* What the component guarantees *)

(* Nobody is locked out: every user has a password or a Google account,    *)
(* although an unlink decides by the authMethods it read that another      *)
(* method remains, and these may be stale or wrong by the time it writes.  *)
NobodyLockedOut ==
  \A u \in User : Exists(u) => users[u].password \/ users[u].google # Unlinked

(* The row and its authMethods agree.                                      *)
Matches(row) ==
  /\ "password" \in row.methods <=> row.password
  /\ "google" \in row.methods <=> row.google # Unlinked

(* They do for every user of whom no two requests ever held a copy at      *)
(* once, however the handlers fail and whatever they do to other users.    *)
(* Of two that did, the later write of the whole array undoes the other's  *)
(* entry (google-auth.service.ts:402).                                     *)
UncontendedMethodsMatch ==
  \A u \in User \ contended : Exists(u) => Matches(users[u])

(* oauth-state.service.ts:118: "Clean up used state (one-time use)".  A    *)
(* state that no two callbacks read before either deleted it is accepted   *)
(* once.                                                                   *)
UncontendedStateUsedOnce == \A s \in State \ contended : accepted[s] <= 1

=============================================================================
