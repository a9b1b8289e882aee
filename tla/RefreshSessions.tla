--------------------------- MODULE RefreshSessions ---------------------------
(***************************************************************************)
(* Login, refresh and logout: auth.service.ts over                         *)
(* refresh-session.service.ts and the cookies of auth.controller.ts        *)
(* (src/src/auth).                                                         *)
(*                                                                         *)
(* A refresh token names its session, and the session row holds the hash   *)
(* of that token; so a token is modelled by the number of its session.     *)
(* Every statement is a round trip of its own: none of the operations runs *)
(* in a transaction.                                                       *)
(***************************************************************************)
EXTENDS Naturals, FiniteSets

CONSTANTS
  User,         \* users
  Client,       \* browsers, each with a cookie jar
  Request,      \* HTTP requests that may be in progress at once
  MaxSessions,  \* bound: how many session rows are ever created
  NoRow         \* the row does not exist

Session == 1 .. MaxSessions

VARIABLES
  sessions,   \* the table refresh_sessions
  users,      \* the users that exist
  expired,    \* families whose expiresAt has passed: heirs inherit it
  jar,        \* the refresh cookie of each client, 0 when there is none
  requests,   \* what each request in progress holds
  created,    \* how many rows were created: the next id
  loggedOut,  \* history: sessions a logout has revoked
  overlaps    \* history: rotations that found their session revoked already

vars == <<sessions, users, expired, jar, requests, created, loggedOut, overlaps>>

-----------------------------------------------------------------------------
Row == [user : User, family : Session, hash : {"provisional", "final"},
        revoked : BOOLEAN, heir : Session \cup {0}]

ASSUME RefreshSessionsAssumption == MaxSessions \in Nat /\ NoRow \notin Row

(* tokenHash is first the hash of a token that names no row, or the parent. *)
NewRow(u, family) ==
  [user |-> u, family |-> family, hash |-> "provisional", revoked |-> FALSE, heir |-> 0]

Exists(s) == sessions[s] # NoRow
Rows == {s \in Session : Exists(s)}

(* getValidSession; the hash of the token in hand is the final one.        *)
Valid(s) ==
  /\ Exists(s)
  /\ ~sessions[s].revoked
  /\ sessions[s].family \notin expired
  /\ sessions[s].hash = "final"

Idle == [step |-> "idle"]

RequestState ==
  {Idle}
    \cup [step : {"issuing"}, client : Client, user : User]
    \cup [step : {"presenting", "rotating", "hashing", "answering"},
          client : Client, session : Session]
    \cup [step : {"replacing"}, client : Client, session : Session, heir : Session]
    \cup [step : {"leaving"}, client : Client, session : Session \cup {0}]
    \cup [step : {"clearing"}, client : Client]

At(r, step) == requests[r].step = step
Go(r, state) == requests' = [requests EXCEPT ![r] = state]
Finish(r) == Go(r, Idle)

TypeOK ==
  /\ sessions \in [Session -> Row \cup {NoRow}]
  /\ users \subseteq User
  /\ expired \subseteq Session
  /\ jar \in [Client -> Session \cup {0}]
  /\ requests \in [Request -> RequestState]
  /\ created \in 0 .. MaxSessions
  /\ loggedOut \subseteq Session
  /\ overlaps \in [Session -> Nat]

Init ==
  /\ sessions = [s \in Session |-> NoRow]
  /\ users = User
  /\ expired = {}
  /\ jar = [c \in Client |-> 0]
  /\ requests = [r \in Request |-> Idle]
  /\ created = 0
  /\ loggedOut = {}
  /\ overlaps = [s \in Session |-> 0]

-----------------------------------------------------------------------------
(* Plausible mistakes in the handlers below, for mutation checks.          *)

(* A child in a family of its own.                                         *)
CreateHeirOrphaned(r) ==
  LET q == requests[r] IN
  /\ At(r, "rotating")
  /\ Exists(q.session)
  /\ created < MaxSessions
  /\ created' = created + 1
  /\ sessions' = [sessions EXCEPT ![created'] = NewRow(sessions[q.session].user, created')]
  /\ Go(r, [step |-> "replacing", client |-> q.client, session |-> q.session,
            heir |-> created'])
  /\ UNCHANGED <<users, expired, jar, loggedOut, overlaps>>

(* The parent named but not revoked.                                       *)
ReplaceSessionUnrevoked(r) ==
  LET q == requests[r] IN
  /\ At(r, "replacing")
  /\ Exists(q.session)
  /\ sessions' = [sessions EXCEPT ![q.session].heir = q.heir]
  /\ overlaps' = [overlaps EXCEPT
       ![sessions[q.session].family] = @ + (IF sessions[q.session].revoked THEN 1 ELSE 0)]
  /\ Go(r, [step |-> "hashing", client |-> q.client, session |-> q.heir])
  /\ UNCHANGED <<users, expired, jar, created, loggedOut>>

(* The answer sent before the hash of its token is stored.                 *)
CreateSessionUnhashed(r) ==
  LET q == requests[r] IN
  /\ At(r, "issuing")
  /\ q.user \in users
  /\ created < MaxSessions
  /\ created' = created + 1
  /\ sessions' = [sessions EXCEPT ![created'] = NewRow(q.user, created')]
  /\ Go(r, [step |-> "answering", client |-> q.client, session |-> created'])
  /\ UNCHANGED <<users, expired, jar, loggedOut, overlaps>>

-----------------------------------------------------------------------------
(* Login *)

(* The password matches.                                                   *)
Login(r, c, u) ==
  /\ requests[r] = Idle
  /\ u \in users
  /\ Go(r, [step |-> "issuing", client |-> c, user |-> u])
  /\ UNCHANGED <<sessions, users, expired, jar, created, loggedOut, overlaps>>

(* issueTokensForUser: a row of a new family.                              *)
CreateSession(r) ==
  LET q == requests[r] IN
  /\ At(r, "issuing")
  /\ q.user \in users
  /\ created < MaxSessions
  /\ created' = created + 1
  /\ sessions' = [sessions EXCEPT ![created'] = NewRow(q.user, created')]
  /\ Go(r, [step |-> "hashing", client |-> q.client, session |-> created'])
  /\ UNCHANGED <<users, expired, jar, loggedOut, overlaps>>

(* The token names its session, so its hash is known only now.             *)
WriteHash(r) ==
  LET q == requests[r] IN
  /\ At(r, "hashing")
  /\ Exists(q.session)
  /\ sessions' = [sessions EXCEPT ![q.session].hash = "final"]
  /\ Go(r, [step |-> "answering", client |-> q.client, session |-> q.session])
  /\ UNCHANGED <<users, expired, jar, created, loggedOut, overlaps>>

(* The answer arrives, in whatever order answers arrive.                   *)
SetAuthCookies(r) ==
  LET q == requests[r] IN
  /\ At(r, "answering")
  /\ jar' = [jar EXCEPT ![q.client] = q.session]
  /\ Finish(r)
  /\ UNCHANGED <<sessions, users, expired, created, loggedOut, overlaps>>

-----------------------------------------------------------------------------
(* Refresh *)

SendRefresh(r, c) ==
  /\ requests[r] = Idle
  /\ jar[c] # 0
  /\ Go(r, [step |-> "presenting", client |-> c, session |-> jar[c]])
  /\ UNCHANGED <<sessions, users, expired, jar, created, loggedOut, overlaps>>

GetValidSession(r) ==
  LET q == requests[r] IN
  /\ At(r, "presenting")
  /\ Valid(q.session)
  /\ Go(r, [step |-> "rotating", client |-> q.client, session |-> q.session])
  /\ UNCHANGED <<sessions, users, expired, jar, created, loggedOut, overlaps>>

(* rotateSession finds the row by its id and creates the heir ...          *)
CreateHeir(r) ==
  LET q == requests[r] IN
  /\ At(r, "rotating")
  /\ Exists(q.session)
  /\ created < MaxSessions
  /\ created' = created + 1
  /\ sessions' = [sessions EXCEPT
       ![created'] = NewRow(sessions[q.session].user, sessions[q.session].family)]
  /\ Go(r, [step |-> "replacing", client |-> q.client, session |-> q.session,
            heir |-> created'])
  /\ UNCHANGED <<users, expired, jar, loggedOut, overlaps>>

(* ... and revokes it by its id, revoked already or not.                   *)
ReplaceSession(r) ==
  LET q == requests[r] IN
  /\ At(r, "replacing")
  /\ Exists(q.session)
  /\ sessions' = [sessions EXCEPT ![q.session].revoked = TRUE, ![q.session].heir = q.heir]
  /\ overlaps' = [overlaps EXCEPT
       ![sessions[q.session].family] = @ + (IF sessions[q.session].revoked THEN 1 ELSE 0)]
  /\ Go(r, [step |-> "hashing", client |-> q.client, session |-> q.heir])
  /\ UNCHANGED <<users, expired, jar, created, loggedOut>>

-----------------------------------------------------------------------------
(* Logout *)

SendLogout(r, c) ==
  /\ requests[r] = Idle
  /\ Go(r, [step |-> "leaving", client |-> c, session |-> jar[c]])
  /\ UNCHANGED <<sessions, users, expired, jar, created, loggedOut, overlaps>>

(* revokeSessionById: updateMany where revokedAt is null.                  *)
RevokeSession(r) ==
  LET q == requests[r] IN
  /\ At(r, "leaving")
  /\ q.session \in Rows
  /\ ~sessions[q.session].revoked
  /\ sessions' = [sessions EXCEPT ![q.session].revoked = TRUE]
  /\ loggedOut' = loggedOut \cup {q.session}
  /\ Go(r, [step |-> "clearing", client |-> q.client])
  /\ UNCHANGED <<users, expired, jar, created, overlaps>>

(* No token, an expired one, no such row, or an outage: all the same.      *)
RevokeNothing(r) ==
  /\ At(r, "leaving")
  /\ Go(r, [step |-> "clearing", client |-> requests[r].client])
  /\ UNCHANGED <<sessions, users, expired, jar, created, loggedOut, overlaps>>

ClearAuthCookies(r) ==
  /\ At(r, "clearing")
  /\ jar' = [jar EXCEPT ![requests[r].client] = 0]
  /\ Finish(r)
  /\ UNCHANGED <<sessions, users, expired, created, loggedOut, overlaps>>

-----------------------------------------------------------------------------
(* A request is refused, a process dies or the answer is lost.             *)
Fail(r) ==
  /\ requests[r] # Idle
  /\ Finish(r)
  /\ UNCHANGED <<sessions, users, expired, jar, created, loggedOut, overlaps>>

Expire(family) ==
  /\ family \in Rows \ expired
  /\ sessions[family].family = family
  /\ expired' = expired \cup {family}
  /\ UNCHANGED <<sessions, users, jar, requests, created, loggedOut, overlaps>>

(* The cookie outlives its maxAge or is cleared by the user.               *)
DropCookie(c) ==
  /\ jar[c] # 0
  /\ jar' = [jar EXCEPT ![c] = 0]
  /\ UNCHANGED <<sessions, users, expired, requests, created, loggedOut, overlaps>>

(* ON DELETE CASCADE *)
DeleteUser(u) ==
  /\ u \in users
  /\ users' = users \ {u}
  /\ sessions' = [s \in Session |->
       IF Exists(s) /\ sessions[s].user = u THEN NoRow ELSE sessions[s]]
  /\ UNCHANGED <<expired, jar, requests, created, loggedOut, overlaps>>

-----------------------------------------------------------------------------
Handle(r) ==
  \/ CreateSession(r)
  \/ WriteHash(r)
  \/ SetAuthCookies(r)
  \/ GetValidSession(r)
  \/ CreateHeir(r)
  \/ ReplaceSession(r)
  \/ RevokeSession(r)
  \/ RevokeNothing(r)
  \/ ClearAuthCookies(r)
  \/ Fail(r)

Next ==
  \/ \E r \in Request :
       \/ Handle(r)
       \/ \E c \in Client :
            \/ \E u \in User : Login(r, c, u)
            \/ SendRefresh(r, c)
            \/ SendLogout(r, c)
  \/ \E family \in Session : Expire(family)
  \/ \E c \in Client : DropCookie(c)
  \/ \E u \in User : DeleteUser(u)

Spec == Init /\ [][Next]_vars

-----------------------------------------------------------------------------
(* What the component guarantees *)

(* No client holds a token the server does not know yet: the hash is       *)
(* stored before the cookie is set, whatever races and fails in between.   *)
CookiesAreKnown ==
  \A c \in Client : jar[c] \in Rows => sessions[jar[c]].hash = "final"

(* The heirs of a session form chains: of one family and user, each made   *)
(* after the session it replaces, which is revoked, and heir of no other.  *)
HeirsInLine ==
  \A s \in Rows : sessions[s].heir # 0 =>
    LET t == sessions[s].heir IN
      /\ sessions[s].revoked /\ s < t /\ t \in Rows
      /\ sessions[t].family = sessions[s].family
      /\ sessions[t].user = sessions[s].user
      /\ \A w \in Rows : sessions[w].heir = t => w = s

Family(f) == {s \in Rows : sessions[s].family = f}
Usable(f) == {s \in Family(f) : ~sessions[s].revoked /\ sessions[s].hash = "final"}

(* One login leaves one usable session, or one that was logged out; more   *)
(* come only of refreshes that overlap each other or a logout.  Refreshes  *)
(* that fail half-way leave none behind.                                   *)
SessionsAccounted ==
  \A f \in Session :
    Cardinality(Usable(f)) + Cardinality(Family(f) \cap loggedOut) <= 1 + overlaps[f]

=============================================================================
