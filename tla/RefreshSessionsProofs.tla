------------------------- MODULE RefreshSessionsProofs -------------------------
(***************************************************************************)
(* The guarantees of RefreshSessions hold for any users, browsers and      *)
(* concurrent requests and any number of sessions.                         *)
(***************************************************************************)
EXTENDS RefreshSessions, FiniteSetTheorems, TLAPS

(* A request that presents, revokes or is about to answer with a token.    *)
HoldsToken(r) ==
  requests[r].step \in {"presenting", "rotating", "replacing", "answering", "leaving"}

(* Ids are given out in order and none is known before its row was made.   *)
Numbered ==
  /\ Rows \cup loggedOut \subseteq 1 .. created
  /\ \A s \in Rows : sessions[s].heir <= created
  /\ \A c \in Client : jar[c] <= created
  /\ \A r \in Request :
       /\ HoldsToken(r) \/ At(r, "hashing") => requests[r].session <= created
       /\ At(r, "replacing") => requests[r].heir <= created

(* A family is named after a session created before.                       *)
FamiliesNumbered == \A s \in Rows : sessions[s].family <= created

(* Such a token was stored with its final hash, if its row is there at all.*)
TokensAreKnown ==
  \A r \in Request :
    HoldsToken(r) /\ requests[r].session \in Rows => sessions[requests[r].session].hash = "final"

(* Between its creation and the update of its parent an heir belongs to    *)
(* one request, and no row names it.                                       *)
HeirsReserved ==
  \A r \in Request : At(r, "replacing") /\ requests[r].session \in Rows =>
    LET s == requests[r].session
        t == requests[r].heir IN
      /\ s < t /\ t \in Rows
      /\ sessions[t].family = sessions[s].family
      /\ sessions[t].user = sessions[s].user
      /\ \A w \in Rows : sessions[w].heir # t
      /\ \A p \in Request : p # r /\ At(p, "replacing") => requests[p].heir # t

(* A session logged out is revoked.                                        *)
LoggedOutIsRevoked == \A s \in Rows \cap loggedOut : sessions[s].revoked

(* The sessions that are usable or will be without another rotation.       *)
Live(f) ==
  {s \in Family(f) : /\ ~sessions[s].revoked
                     /\ \/ sessions[s].hash = "final"
                        \/ \E r \in Request : At(r, "hashing") /\ requests[r].session = s}

(* Sessions of a family that are live or logged out are, beyond the        *)
(* first, overlaps on record.                                              *)
LiveAccounted ==
  \A f \in Session :
    Cardinality(Live(f)) + Cardinality(Family(f) \cap loggedOut) <= 1 + overlaps[f]

(* The inductive invariant: sessions are numbered, tokens are known,       *)
(* heirs are in line, and the live sessions of a family are accounted      *)
(* for.                                                                    *)
IInv ==
  /\ TypeOK
  /\ Numbered
  /\ FamiliesNumbered
  /\ CookiesAreKnown
  /\ TokensAreKnown
  /\ HeirsInLine
  /\ HeirsReserved
  /\ LoggedOutIsRevoked
  /\ LiveAccounted

-----------------------------------------------------------------------------
(* What a request at each step holds.                                      *)
LEMMA RequestShapes ==
  ASSUME TypeOK, NEW r \in Request
  PROVE  /\ At(r, "issuing") =>
              requests[r] \in [step : {"issuing"}, client : Client, user : User]
         /\ requests[r].step \in {"presenting", "rotating", "hashing", "answering"} =>
              requests[r].client \in Client /\ requests[r].session \in Session
         /\ At(r, "replacing") =>
              requests[r] \in [step : {"replacing"}, client : Client, session : Session,
                               heir : Session]
         /\ At(r, "leaving") =>
              requests[r] \in [step : {"leaving"}, client : Client, session : Session \cup {0}]
         /\ At(r, "clearing") => requests[r].client \in Client
         /\ requests[r] = Idle => requests[r].step = "idle"
  BY DEF TypeOK, RequestState, At, Idle

(* The states requests are put in are request states.                      *)
LEMMA RequestStates ==
  /\ Idle \in RequestState
  /\ \A c \in Client, u \in User : [step |-> "issuing", client |-> c, user |-> u] \in RequestState
  /\ \A x \in {"presenting", "rotating", "hashing", "answering"}, c \in Client, s \in Session :
       [step |-> x, client |-> c, session |-> s] \in RequestState
  /\ \A c \in Client, s \in Session, t \in Session :
       [step |-> "replacing", client |-> c, session |-> s, heir |-> t] \in RequestState
  /\ \A c \in Client, s \in Session \cup {0} :
       [step |-> "leaving", client |-> c, session |-> s] \in RequestState
  /\ \A c \in Client : [step |-> "clearing", client |-> c] \in RequestState
  BY DEF RequestState

(* A request that moves moves alone.                                       *)
LEMMA GoTypeOK ==
  ASSUME NEW r \in Request, NEW q \in RequestState,
         requests \in [Request -> RequestState], Go(r, q)
  PROVE  /\ requests' \in [Request -> RequestState]
         /\ requests'[r] = q
         /\ \A p \in Request : p # r => requests'[p] = requests[p]
  BY DEF Go

(* A row that exists has the columns of one.                               *)
LEMMA RowShape ==
  ASSUME TypeOK, NEW s \in Session, Exists(s)
  PROVE  sessions[s] \in Row
  BY DEF TypeOK, Exists

(* An INSERT uses the next id and touches no other row.                    *)
LEMMA Inserted ==
  ASSUME TypeOK, Numbered, NEW row \in Row,
         created < MaxSessions, created' = created + 1,
         sessions' = [sessions EXCEPT ![created'] = row]
  PROVE  /\ created' \in Session /\ created' \notin Rows /\ created < created'
         /\ sessions' \in [Session -> Row \cup {NoRow}]
         /\ sessions'[created'] = row
         /\ \A s \in Session : s # created' => sessions'[s] = sessions[s]
         /\ Rows' = Rows \cup {created'}
  <1>1. created' \in Session /\ created < created' /\ created' \notin Rows
    BY RefreshSessionsAssumption DEF TypeOK, Session, Numbered
  <1>2. sessions'[created'] = row /\ \A s \in Session : s # created' => sessions'[s] = sessions[s]
    BY <1>1 DEF TypeOK
  <1>3. row # NoRow
    BY RefreshSessionsAssumption
  <1> QED BY <1>1, <1>2, <1>3 DEF TypeOK, Rows, Exists

(* An UPDATE of columns touches one row, which stays.                      *)
LEMMA Updated ==
  ASSUME TypeOK, NEW s \in Session, NEW row \in Row, Exists(s),
         sessions' = [sessions EXCEPT ![s] = row]
  PROVE  /\ sessions' \in [Session -> Row \cup {NoRow}]
         /\ sessions'[s] = row
         /\ \A t \in Session : t # s => sessions'[t] = sessions[t]
         /\ Rows' = Rows
  BY RefreshSessionsAssumption DEF TypeOK, Rows, Exists

(* Writing the hash of a token changes nothing else.                       *)
LEMMA HashWritten ==
  ASSUME TypeOK, NEW r \in Request, WriteHash(r), NEW s, s = requests[r].session
  PROVE  /\ s \in Rows /\ Rows' = Rows
         /\ sessions'[s].hash = "final"
         /\ sessions'[s].user = sessions[s].user
         /\ sessions'[s].family = sessions[s].family
         /\ sessions'[s].revoked = sessions[s].revoked
         /\ sessions'[s].heir = sessions[s].heir
         /\ \A t \in Session : t # s => sessions'[t] = sessions[t]
  <1>1. s \in Rows
    BY RequestShapes DEF WriteHash, At, Rows
  <1> DEFINE row == [sessions[s] EXCEPT !.hash = "final"]
  <1>2. sessions[s] \in Row
    BY <1>1, RowShape DEF Rows
  <1>3. /\ row \in Row
        /\ row.hash = "final"
        /\ row.user = sessions[s].user
        /\ row.family = sessions[s].family
        /\ row.revoked = sessions[s].revoked
        /\ row.heir = sessions[s].heir
    BY <1>2 DEF Row
  <1>4. sessions' = [sessions EXCEPT ![s] = row]
    BY DEF WriteHash
  <1> HIDE DEF row
  <1>5. Rows' = Rows /\ sessions'[s] = row /\ \A t \in Session : t # s => sessions'[t] = sessions[t]
    BY <1>1, <1>3, <1>4, Updated DEF Rows
  <1> QED BY <1>1, <1>3, <1>5

(* Replacing a session revokes it, names its heir and changes nothing      *)
(* else.                                                                   *)
LEMMA Replaced ==
  ASSUME TypeOK, NEW r \in Request, ReplaceSession(r), NEW s, s = requests[r].session
  PROVE  /\ s \in Rows /\ Rows' = Rows
         /\ sessions'[s].heir = requests[r].heir
         /\ sessions'[s].revoked
         /\ sessions'[s].user = sessions[s].user
         /\ sessions'[s].family = sessions[s].family
         /\ sessions'[s].hash = sessions[s].hash
         /\ \A t \in Session : t # s => sessions'[t] = sessions[t]
  <1>1. s \in Rows /\ requests[r].heir \in Session
    BY RequestShapes DEF ReplaceSession, Rows
  <1> DEFINE row == [sessions[s] EXCEPT !.revoked = TRUE, !.heir = requests[r].heir]
  <1>2. sessions[s] \in Row
    BY <1>1, RowShape DEF Rows
  <1>3. /\ row \in Row
        /\ row.revoked
        /\ row.heir = requests[r].heir
        /\ row.user = sessions[s].user
        /\ row.family = sessions[s].family
        /\ row.hash = sessions[s].hash
    BY <1>1, <1>2 DEF Row
  <1>4. sessions' = [sessions EXCEPT ![s] = row]
    BY <1>1 DEF ReplaceSession, TypeOK, Rows
  <1> HIDE DEF row
  <1>5. Rows' = Rows /\ sessions'[s] = row /\ \A t \in Session : t # s => sessions'[t] = sessions[t]
    BY <1>1, <1>3, <1>4, Updated DEF Rows
  <1> QED BY <1>1, <1>3, <1>5

(* Revoking a session changes nothing else.                                *)
LEMMA Revoked ==
  ASSUME TypeOK, NEW r \in Request, RevokeSession(r), NEW s, s = requests[r].session
  PROVE  /\ s \in Rows /\ Rows' = Rows
         /\ ~sessions[s].revoked /\ sessions'[s].revoked
         /\ sessions'[s].hash = sessions[s].hash
         /\ sessions'[s].user = sessions[s].user
         /\ sessions'[s].family = sessions[s].family
         /\ sessions'[s].heir = sessions[s].heir
         /\ \A t \in Session : t # s => sessions'[t] = sessions[t]
  <1>1. s \in Rows /\ ~sessions[s].revoked
    BY DEF RevokeSession
  <1> DEFINE row == [sessions[s] EXCEPT !.revoked = TRUE]
  <1>2. sessions[s] \in Row
    BY <1>1, RowShape DEF Rows
  <1>3. /\ row \in Row
        /\ row.revoked
        /\ row.hash = sessions[s].hash
        /\ row.user = sessions[s].user
        /\ row.family = sessions[s].family
        /\ row.heir = sessions[s].heir
    BY <1>2 DEF Row
  <1>4. sessions' = [sessions EXCEPT ![s] = row]
    BY DEF RevokeSession
  <1> HIDE DEF row
  <1>5. Rows' = Rows /\ sessions'[s] = row /\ \A t \in Session : t # s => sessions'[t] = sessions[t]
    BY <1>1, <1>3, <1>4, Updated DEF Rows
  <1> QED BY <1>1, <1>3, <1>5

(* A new session is a row.                                                 *)
LEMMA NewRowTyped ==
  ASSUME NEW u \in User, NEW f \in Session
  PROVE  NewRow(u, f) \in Row
  BY DEF NewRow, Row

(* A login's row founds a family, an heir joins its parent's.              *)
LEMMA Created ==
  ASSUME TypeOK, Numbered, NEW r \in Request, CreateSession(r) \/ CreateHeir(r),
         NEW s, s = requests[r].session
  PROVE  /\ created' \in Session /\ created' \notin Rows /\ created' = created + 1
         /\ Rows' = Rows \cup {created'}
         /\ \A t \in Session : t # created' => sessions'[t] = sessions[t]
         /\ sessions'[created'].hash = "provisional"
         /\ ~sessions'[created'].revoked
         /\ sessions'[created'].heir = 0
         /\ CreateSession(r) => /\ requests[r].client \in Client
                                /\ sessions'[created'].family = created'
                                /\ sessions'[created'].user = requests[r].user
         /\ CreateHeir(r) => /\ requests[r].client \in Client /\ s \in Rows
                             /\ sessions'[created'].family = sessions[s].family
                             /\ sessions'[created'].user = sessions[s].user
  <1>1. CASE CreateSession(r)
    <2>1. requests[r].client \in Client /\ requests[r].user \in User /\ At(r, "issuing")
      BY <1>1, RequestShapes DEF CreateSession
    <2>2. created' \in Session
      BY <1>1, RefreshSessionsAssumption DEF CreateSession, TypeOK, Session
    <2>3. NewRow(requests[r].user, created') \in Row
      BY <2>1, <2>2, NewRowTyped
    <2> QED BY <1>1, <2>1, <2>3, Inserted DEF CreateSession, CreateHeir, NewRow, At
  <1>2. CASE CreateHeir(r)
    <2>1. requests[r].client \in Client /\ s \in Rows /\ At(r, "rotating")
      BY <1>2, RequestShapes DEF CreateHeir, At, Rows
    <2>2. NewRow(sessions[s].user, sessions[s].family) \in Row
      BY <2>1, RowShape, NewRowTyped DEF Rows, Row
    <2> QED BY <1>2, <2>1, <2>2, Inserted DEF CreateSession, CreateHeir, NewRow, At
  <1> QED BY <1>1, <1>2

-----------------------------------------------------------------------------
(* Type correctness.                                                       *)
LEMMA TypeStep == TypeOK /\ Numbered /\ [Next]_vars => TypeOK'
<1> SUFFICES ASSUME TypeOK, Numbered, [Next]_vars PROVE TypeOK'
  OBVIOUS
<1> USE RequestStates
<1>1. ASSUME NEW r \in Request, Handle(r) PROVE TypeOK'
  <2>1. CASE CreateSession(r)
    <3>1. requests[r].client \in Client /\ requests[r].user \in User
      BY <2>1, RequestShapes DEF CreateSession
    <3>2. created' \in Session
      BY <2>1, RefreshSessionsAssumption DEF CreateSession, TypeOK, Session
    <3>3. NewRow(requests[r].user, created') \in Row
      BY <3>1, <3>2, NewRowTyped
    <3>4. sessions' \in [Session -> Row \cup {NoRow}]
      BY <2>1, <3>3, Inserted DEF CreateSession
    <3> QED BY <2>1, <3>1, <3>2, <3>4, GoTypeOK DEF CreateSession, TypeOK, Session
  <2>2. CASE WriteHash(r)
    <3>1. requests[r].client \in Client /\ requests[r].session \in Session
      BY <2>2, RequestShapes DEF WriteHash, At
    <3> QED BY <2>2, <3>1, GoTypeOK, RowShape DEF WriteHash, TypeOK, Row
  <2>3. CASE SetAuthCookies(r)
    <3>1. requests[r].client \in Client /\ requests[r].session \in Session
      BY <2>3, RequestShapes DEF SetAuthCookies, At
    <3> QED BY <2>3, <3>1, GoTypeOK DEF SetAuthCookies, Finish, TypeOK
  <2>4. CASE GetValidSession(r)
    <3>1. requests[r].client \in Client /\ requests[r].session \in Session
      BY <2>4, RequestShapes DEF GetValidSession, At
    <3> QED BY <2>4, <3>1, GoTypeOK DEF GetValidSession, TypeOK
  <2>5. CASE CreateHeir(r)
    <3>1. requests[r].client \in Client /\ requests[r].session \in Session
      BY <2>5, RequestShapes DEF CreateHeir, At
    <3>2. created' \in Session
      BY <2>5, RefreshSessionsAssumption DEF CreateHeir, TypeOK, Session
    <3>3. NewRow(sessions[requests[r].session].user, sessions[requests[r].session].family) \in Row
      BY <2>5, <3>1, RowShape, NewRowTyped DEF CreateHeir, Row
    <3>4. sessions' \in [Session -> Row \cup {NoRow}]
      BY <2>5, <3>3, Inserted DEF CreateHeir
    <3> QED BY <2>5, <3>1, <3>2, <3>4, GoTypeOK DEF CreateHeir, TypeOK, Session
  <2>6. CASE ReplaceSession(r)
    <3>1. requests[r].client \in Client /\ requests[r].session \in Session
          /\ requests[r].heir \in Session
      BY <2>6, RequestShapes DEF ReplaceSession, At
    <3>2. sessions[requests[r].session] \in Row
      BY <2>6, <3>1, RowShape DEF ReplaceSession
    <3>3. sessions' \in [Session -> Row \cup {NoRow}]
      BY <2>6, <3>1, <3>2 DEF ReplaceSession, TypeOK, Row
    <3>4. overlaps' \in [Session -> Nat]
      BY <2>6, <3>2 DEF ReplaceSession, TypeOK, Row
    <3> QED BY <2>6, <3>1, <3>3, <3>4, GoTypeOK DEF ReplaceSession, TypeOK
  <2>7. CASE RevokeSession(r)
    <3>1. requests[r].client \in Client /\ requests[r].session \in Session
      BY <2>7, RequestShapes DEF RevokeSession, At, Rows
    <3>2. sessions' \in [Session -> Row \cup {NoRow}]
      BY <2>7, <3>1, RowShape DEF RevokeSession, TypeOK, Row, Rows
    <3> QED BY <2>7, <3>1, <3>2, GoTypeOK DEF RevokeSession, TypeOK
  <2>8. CASE RevokeNothing(r)
    <3>1. requests[r].client \in Client
      BY <2>8, RequestShapes DEF RevokeNothing
    <3> QED BY <2>8, <3>1, GoTypeOK DEF RevokeNothing, TypeOK
  <2>9. CASE ClearAuthCookies(r)
    BY <2>9, GoTypeOK DEF ClearAuthCookies, Finish, TypeOK
  <2>10. CASE Fail(r)
    BY <2>10, GoTypeOK DEF Fail, Finish, TypeOK
  <2> QED BY <1>1, <2>1, <2>2, <2>3, <2>4, <2>5, <2>6, <2>7, <2>8, <2>9, <2>10 DEF Handle
<1>2. ASSUME NEW r \in Request, NEW c \in Client, NEW u \in User, Login(r, c, u) PROVE TypeOK'
  BY <1>2, GoTypeOK DEF Login, TypeOK
<1>3. ASSUME NEW r \in Request, NEW c \in Client, SendRefresh(r, c) PROVE TypeOK'
  <2>1. jar[c] \in Session
    BY <1>3 DEF SendRefresh, TypeOK
  <2> QED BY <1>3, <2>1, GoTypeOK DEF SendRefresh, TypeOK
<1>4. ASSUME NEW r \in Request, NEW c \in Client, SendLogout(r, c) PROVE TypeOK'
  <2>1. jar[c] \in Session \cup {0}
    BY DEF TypeOK
  <2> QED BY <1>4, <2>1, GoTypeOK DEF SendLogout, TypeOK
<1>5. ASSUME NEW f \in Session, Expire(f) PROVE TypeOK'
  BY <1>5 DEF Expire, TypeOK
<1>6. ASSUME NEW c \in Client, DropCookie(c) PROVE TypeOK'
  BY <1>6 DEF DropCookie, TypeOK
<1>7. ASSUME NEW u \in User, DeleteUser(u) PROVE TypeOK'
  BY <1>7 DEF DeleteUser, TypeOK
<1>8. CASE UNCHANGED vars
  BY <1>8 DEF vars, TypeOK
<1> QED BY <1>1, <1>2, <1>3, <1>4, <1>5, <1>6, <1>7, <1>8 DEF Next

-----------------------------------------------------------------------------
(* Every id in use was given out before.                                   *)
LEMMA RequestsNumbered ==
  ASSUME TypeOK, Numbered, NEW r \in Request, NEW q \in RequestState, Go(r, q),
         created' \in Nat, created <= created',
         q.step \in {"presenting", "rotating", "replacing", "answering", "leaving", "hashing"}
           => q.session <= created',
         q.step = "replacing" => q.heir <= created'
  PROVE  \A p \in Request :
           /\ HoldsToken(p)' \/ At(p, "hashing")' => requests'[p].session <= created'
           /\ At(p, "replacing")' => requests'[p].heir <= created'
<1> SUFFICES ASSUME NEW p \in Request
             PROVE  /\ HoldsToken(p)' \/ At(p, "hashing")' => requests'[p].session <= created'
                    /\ At(p, "replacing")' => requests'[p].heir <= created'
  OBVIOUS
<1>1. CASE p = r
  BY <1>1, GoTypeOK DEF HoldsToken, At, TypeOK
<1>2. CASE p # r
  <2>1. requests'[p] = requests[p]
    BY <1>2, GoTypeOK DEF TypeOK
  <2>2. /\ HoldsToken(p) \/ At(p, "hashing") => requests[p].session \in Session \cup {0}
        /\ At(p, "replacing") => requests[p].heir \in Session
    BY RequestShapes DEF HoldsToken, At
  <2> QED BY <2>1, <2>2 DEF HoldsToken, At, Numbered, Session, TypeOK
<1> QED BY <1>1, <1>2

(* Sessions stay numbered in the order of their creation.                  *)
LEMMA NumberedStep == TypeOK /\ Numbered /\ [Next]_vars => Numbered'
<1> SUFFICES ASSUME TypeOK, Numbered, [Next]_vars PROVE Numbered'
  OBVIOUS
<1> USE RequestStates
<1> created \in Nat /\ created' \in Nat
  BY TypeStep DEF TypeOK
<1>1. ASSUME NEW r \in Request, Handle(r) PROVE Numbered'
  <2>0. /\ HoldsToken(r) \/ At(r, "hashing") => requests[r].session <= created
        /\ At(r, "replacing") => requests[r].heir <= created
    BY DEF Numbered
  <2>1. CASE CreateSession(r) \/ CreateHeir(r)
    <3>1. /\ created' \in Session /\ created' = created + 1
          /\ Rows' = Rows \cup {created'}
          /\ sessions'[created'].heir = 0
          /\ \A t \in Rows : sessions'[t] = sessions[t]
          /\ UNCHANGED <<loggedOut, jar>>
          /\ requests[r].client \in Client
      BY <2>1, Created DEF Rows, CreateSession, CreateHeir
    <3>2. /\ Rows' \cup loggedOut' \subseteq 1 .. created'
          /\ \A c \in Client : jar'[c] <= created'
      BY <3>1 DEF Numbered, TypeOK, Session
    <3>3. \A t \in Rows' : sessions'[t].heir <= created'
      <4> SUFFICES ASSUME NEW t \in Rows' PROVE sessions'[t].heir <= created'
        OBVIOUS
      <4>1. CASE t = created'
        BY <3>1, <4>1
      <4>2. CASE t \in Rows
        BY <3>1, <4>2, RowShape DEF Numbered, Rows, Row, Session
      <4> QED BY <3>1, <4>1, <4>2
    <3>4. \A p \in Request :
            /\ HoldsToken(p)' \/ At(p, "hashing")' => requests'[p].session <= created'
            /\ At(p, "replacing")' => requests'[p].heir <= created'
      <4>1. CASE CreateSession(r)
        <5> DEFINE q == [step |-> "hashing", client |-> requests[r].client, session |-> created']
        <5>1. q \in RequestState /\ Go(r, q)
          BY <3>1, <4>1 DEF CreateSession
        <5> QED BY <3>1, <5>1, RequestsNumbered
      <4>2. CASE CreateHeir(r)
        <5> DEFINE q == [step |-> "replacing", client |-> requests[r].client,
                         session |-> requests[r].session, heir |-> created']
        <5>1. requests[r].session \in Session /\ requests[r].session <= created
          BY <2>0, <4>2, RequestShapes DEF CreateHeir, HoldsToken, At
        <5>2. q \in RequestState /\ Go(r, q)
          BY <3>1, <4>2, <5>1 DEF CreateHeir
        <5> QED BY <3>1, <5>1, <5>2, RequestsNumbered DEF Session
      <4> QED BY <2>1, <4>1, <4>2
    <3> QED BY <3>2, <3>3, <3>4 DEF Numbered
  <2>2. CASE WriteHash(r)
    <3>1. requests[r].client \in Client /\ requests[r].session \in Session
      BY <2>2, RequestShapes DEF WriteHash, At
    <3>2. Rows' = Rows /\ \A t \in Rows : sessions'[t].heir = sessions[t].heir
      BY <2>2, HashWritten DEF Rows
    <3> QED BY <2>0, <2>2, <3>1, <3>2, RequestsNumbered DEF WriteHash, Numbered
  <2>3. CASE SetAuthCookies(r)
    <3>1. requests[r].client \in Client /\ requests[r].session \in Session
      BY <2>3, RequestShapes DEF SetAuthCookies, At
    <3>2. \A c \in Client : jar'[c] <= created'
      BY <2>0, <2>3, <3>1 DEF SetAuthCookies, Numbered, HoldsToken, At, TypeOK
    <3> QED BY <2>3, <3>2, RequestsNumbered
            DEF SetAuthCookies, Finish, Idle, Numbered, Rows, Exists
  <2>4. CASE GetValidSession(r)
    <3>1. requests[r].client \in Client /\ requests[r].session \in Session
      BY <2>4, RequestShapes DEF GetValidSession, At
    <3> QED BY <2>0, <2>4, <3>1, RequestsNumbered
            DEF GetValidSession, Numbered, HoldsToken, At, Rows, Exists
  <2>5. CASE ReplaceSession(r)
    <3>1. requests[r] \in [step : {"replacing"}, client : Client, session : Session, heir : Session]
      BY <2>5, RequestShapes DEF ReplaceSession
    <3>2. Rows' = Rows /\ \A t \in Rows : sessions'[t].heir \in {sessions[t].heir, requests[r].heir}
      BY <2>5, Replaced DEF Rows
    <3>3. \A t \in Rows' : sessions'[t].heir <= created'
      BY <2>0, <2>5, <3>1, <3>2 DEF ReplaceSession, Numbered
    <3> DEFINE q == [step |-> "hashing", client |-> requests[r].client, session |-> requests[r].heir]
    <3>4. q \in RequestState /\ Go(r, q) /\ requests[r].heir <= created
      BY <2>0, <2>5, <3>1 DEF ReplaceSession
    <3>5. \A p \in Request :
            /\ HoldsToken(p)' \/ At(p, "hashing")' => requests'[p].session <= created'
            /\ At(p, "replacing")' => requests'[p].heir <= created'
      BY <2>5, <3>4, RequestsNumbered DEF ReplaceSession
    <3> QED BY <2>5, <3>2, <3>3, <3>5 DEF ReplaceSession, Numbered
  <2>6. CASE RevokeSession(r)
    <3>1. requests[r].client \in Client
      BY <2>6, RequestShapes DEF RevokeSession
    <3>2. Rows' = Rows /\ \A t \in Rows : sessions'[t].heir = sessions[t].heir
      BY <2>6, Revoked DEF Rows
    <3>3. requests[r].session \in Rows
      BY <2>6, Revoked
    <3> QED BY <2>6, <3>1, <3>2, <3>3, RequestsNumbered DEF RevokeSession, Numbered
  <2>7. CASE RevokeNothing(r)
    <3>1. requests[r].client \in Client
      BY <2>7, RequestShapes DEF RevokeNothing
    <3> QED BY <2>7, <3>1, RequestsNumbered DEF RevokeNothing, Numbered, Rows, Exists
  <2>8. CASE ClearAuthCookies(r)
    <3>1. \A c \in Client : jar'[c] <= created'
      BY <2>8 DEF ClearAuthCookies, Numbered, TypeOK
    <3> QED BY <2>8, <3>1, RequestsNumbered
            DEF ClearAuthCookies, Finish, Idle, Numbered, Rows, Exists
  <2>9. CASE Fail(r)
    BY <2>9, RequestsNumbered DEF Fail, Finish, Idle, Numbered, Rows, Exists
  <2> QED BY <1>1, <2>1, <2>2, <2>3, <2>4, <2>5, <2>6, <2>7, <2>8, <2>9 DEF Handle
<1>2. ASSUME NEW r \in Request, NEW c \in Client, NEW u \in User, Login(r, c, u) PROVE Numbered'
  BY <1>2, RequestsNumbered DEF Login, Numbered, Rows, Exists
<1>3. ASSUME NEW r \in Request, NEW c \in Client, SendRefresh(r, c) PROVE Numbered'
  <2>1. jar[c] \in Session /\ jar[c] <= created
    BY <1>3 DEF SendRefresh, TypeOK, Numbered
  <2> QED BY <1>3, <2>1, RequestsNumbered DEF SendRefresh, Numbered, Rows, Exists
<1>4. ASSUME NEW r \in Request, NEW c \in Client, SendLogout(r, c) PROVE Numbered'
  <2>1. jar[c] \in Session \cup {0} /\ jar[c] <= created
    BY DEF TypeOK, Numbered
  <2> QED BY <1>4, <2>1, RequestsNumbered DEF SendLogout, Numbered, Rows, Exists
<1>5. ASSUME NEW f \in Session, Expire(f) PROVE Numbered'
  BY <1>5 DEF Expire, Numbered, Rows, Exists, HoldsToken, At
<1>6. ASSUME NEW c \in Client, DropCookie(c) PROVE Numbered'
  BY <1>6 DEF DropCookie, Numbered, TypeOK, Rows, Exists, HoldsToken, At
<1>7. ASSUME NEW u \in User, DeleteUser(u) PROVE Numbered'
  BY <1>7 DEF DeleteUser, Numbered, Rows, Exists, HoldsToken, At
<1>8. CASE UNCHANGED vars
  BY <1>8 DEF vars, Numbered, Rows, Exists, HoldsToken, At
<1> QED BY <1>1, <1>2, <1>3, <1>4, <1>5, <1>6, <1>7, <1>8 DEF Next

-----------------------------------------------------------------------------
(* Rows keep their user and family; a final hash and a revocation stay.    *)
LEMMA RowsStep ==
  ASSUME TypeOK, Numbered, [Next]_vars
  PROVE  \A t \in Rows' : t <= created =>
           /\ t \in Rows
           /\ sessions'[t].user = sessions[t].user
           /\ sessions'[t].family = sessions[t].family
           /\ sessions[t].hash = "final" => sessions'[t].hash = "final"
           /\ sessions[t].revoked => sessions'[t].revoked
<1> SUFFICES ASSUME NEW t \in Rows', t <= created
             PROVE  /\ t \in Rows
                    /\ sessions'[t].user = sessions[t].user
                    /\ sessions'[t].family = sessions[t].family
                    /\ sessions[t].hash = "final" => sessions'[t].hash = "final"
                    /\ sessions[t].revoked => sessions'[t].revoked
  OBVIOUS
<1> t \in Session /\ created \in Nat
  BY DEF Rows, TypeOK
<1>1. CASE UNCHANGED sessions
  BY <1>1 DEF Rows, Exists
<1>2. ASSUME NEW r \in Request, CreateSession(r) \/ CreateHeir(r) PROVE t \in Rows /\ sessions'[t] = sessions[t]
  BY <1>2, Created DEF TypeOK
<1>3. ASSUME NEW r \in Request, WriteHash(r)
      PROVE  /\ t \in Rows
             /\ sessions'[t].user = sessions[t].user
             /\ sessions'[t].family = sessions[t].family
             /\ sessions[t].hash = "final" => sessions'[t].hash = "final"
             /\ sessions[t].revoked => sessions'[t].revoked
  BY <1>3, HashWritten
<1>4. ASSUME NEW r \in Request, ReplaceSession(r)
      PROVE  /\ t \in Rows
             /\ sessions'[t].user = sessions[t].user
             /\ sessions'[t].family = sessions[t].family
             /\ sessions[t].hash = "final" => sessions'[t].hash = "final"
             /\ sessions[t].revoked => sessions'[t].revoked
  BY <1>4, Replaced
<1>5. ASSUME NEW r \in Request, RevokeSession(r)
      PROVE  /\ t \in Rows
             /\ sessions'[t].user = sessions[t].user
             /\ sessions'[t].family = sessions[t].family
             /\ sessions[t].hash = "final" => sessions'[t].hash = "final"
             /\ sessions[t].revoked => sessions'[t].revoked
  BY <1>5, Revoked
<1>6. ASSUME NEW u \in User, DeleteUser(u) PROVE t \in Rows /\ sessions'[t] = sessions[t]
  BY <1>6 DEF DeleteUser, Rows, Exists
<1>7. \/ UNCHANGED sessions
      \/ \E r \in Request : \/ CreateSession(r) \/ CreateHeir(r) \/ WriteHash(r)
                            \/ ReplaceSession(r) \/ RevokeSession(r)
      \/ \E u \in User : DeleteUser(u)
  BY DEF Next, vars, Handle, SetAuthCookies, GetValidSession, RevokeNothing, ClearAuthCookies, Fail,
         Login, SendRefresh, SendLogout, Expire, DropCookie
<1> QED BY <1>1, <1>2, <1>3, <1>4, <1>5, <1>6, <1>7

-----------------------------------------------------------------------------
(* No token is handed out, presented or revoked before its hash is stored. *)

(* Requests still present tokens that were handed out.                     *)
LEMMA RequestsKnown ==
  ASSUME TypeOK, Numbered, TokensAreKnown, [Next]_vars,
         NEW r \in Request, NEW q \in RequestState, Go(r, q),
         q.step \in {"presenting", "rotating", "replacing", "answering", "leaving"}
           => (q.session \in Rows' => sessions'[q.session].hash = "final")
  PROVE  TokensAreKnown'
<1> SUFFICES ASSUME NEW p \in Request, HoldsToken(p)', requests'[p].session \in Rows'
             PROVE  sessions'[requests'[p].session].hash = "final"
  BY DEF TokensAreKnown
<1>1. CASE p = r
  BY <1>1, GoTypeOK DEF HoldsToken, TypeOK
<1>2. CASE p # r
  <2>1. requests'[p] = requests[p]
    BY <1>2, GoTypeOK DEF TypeOK
  <2>2. HoldsToken(p)
    BY <2>1 DEF HoldsToken
  <2>3. /\ requests[p].session \in Rows => sessions[requests[p].session].hash = "final"
        /\ requests[p].session <= created
    BY <2>2 DEF TokensAreKnown, Numbered
  <2> QED BY <2>1, <2>3, RowsStep
<1> QED BY <1>1, <1>2

(* Cookies and requests hold only tokens whose hash is stored.             *)
LEMMA TokensKnownStep ==
  ASSUME TypeOK, Numbered, CookiesAreKnown, TokensAreKnown, [Next]_vars
  PROVE  CookiesAreKnown' /\ TokensAreKnown'
<1> USE RequestStates
<1>0. \A t \in Rows' : (t \in Rows => sessions[t].hash = "final") /\ t <= created
                         => sessions'[t].hash = "final"
  BY RowsStep
<1>1. (\A c \in Client : jar'[c] \in {0, jar[c]}) => CookiesAreKnown'
  BY <1>0 DEF CookiesAreKnown, Numbered, Rows, Session
<1>2. UNCHANGED requests => TokensAreKnown'
  BY <1>0 DEF TokensAreKnown, Numbered, HoldsToken
<1>3. ASSUME NEW r \in Request, Handle(r) PROVE CookiesAreKnown' /\ TokensAreKnown'
  <2>0. HoldsToken(r) => /\ requests[r].session \in Rows' => sessions'[requests[r].session].hash = "final"
                         /\ requests[r].session <= created
    BY <1>0 DEF TokensAreKnown, Numbered
  <2>1. CASE CreateSession(r) \/ WriteHash(r)
    <3>1. CookiesAreKnown'
      BY <1>1, <2>1 DEF CreateSession, WriteHash
    <3>2. CASE CreateSession(r)
      <4>1. requests[r].client \in Client /\ created' \in Session
        BY <3>2, Created
      <4> QED BY <3>1, <3>2, <4>1, RequestsKnown DEF CreateSession
    <3>3. CASE WriteHash(r)
      <4>1. requests[r].client \in Client /\ requests[r].session \in Session
        BY <3>3, RequestShapes DEF WriteHash, At
      <4>2. sessions'[requests[r].session].hash = "final"
        BY <3>3, HashWritten
      <4> QED BY <3>1, <3>3, <4>1, <4>2, RequestsKnown DEF WriteHash
    <3> QED BY <2>1, <3>2, <3>3
  <2>2. CASE SetAuthCookies(r)
    <3>1. requests[r].client \in Client /\ HoldsToken(r)
      BY <2>2, RequestShapes DEF SetAuthCookies, At, HoldsToken
    <3>2. CookiesAreKnown'
      BY <1>0, <2>0, <2>2, <3>1 DEF SetAuthCookies, CookiesAreKnown, Numbered, TypeOK
    <3> QED BY <2>2, <3>2, RequestsKnown DEF SetAuthCookies, Finish, Idle
  <2>3. CASE GetValidSession(r) \/ CreateHeir(r) \/ ReplaceSession(r)
    <3>1. CookiesAreKnown'
      BY <1>1, <2>3 DEF GetValidSession, CreateHeir, ReplaceSession
    <3>2. HoldsToken(r)
      BY <2>3 DEF GetValidSession, CreateHeir, ReplaceSession, HoldsToken, At
    <3>3. CASE GetValidSession(r)
      <4>1. requests[r].client \in Client /\ requests[r].session \in Session
        BY <3>3, RequestShapes DEF GetValidSession, At
      <4> QED BY <2>0, <3>1, <3>2, <3>3, <4>1, RequestsKnown DEF GetValidSession
    <3>4. CASE CreateHeir(r)
      <4>1. requests[r].client \in Client /\ requests[r].session \in Session /\ created' \in Session
        BY <3>4, Created, RequestShapes DEF CreateHeir, At
      <4> DEFINE q == [step |-> "replacing", client |-> requests[r].client,
                       session |-> requests[r].session, heir |-> created']
      <4>2. q \in RequestState /\ Go(r, q)
        BY <3>4, <4>1 DEF CreateHeir
      <4> QED BY <2>0, <3>1, <3>2, <4>2, RequestsKnown
    <3>5. CASE ReplaceSession(r)
      <4>1. requests[r] \in [step : {"replacing"}, client : Client, session : Session, heir : Session]
        BY <3>5, RequestShapes DEF ReplaceSession
      <4> QED BY <3>1, <3>5, <4>1, RequestsKnown DEF ReplaceSession
    <3> QED BY <2>3, <3>3, <3>4, <3>5
  <2>4. CASE RevokeSession(r) \/ RevokeNothing(r)
    <3>1. requests[r].client \in Client
      BY <2>4, RequestShapes DEF RevokeSession, RevokeNothing
    <3> QED BY <1>1, <2>4, <3>1, RequestsKnown DEF RevokeSession, RevokeNothing
  <2>5. CASE ClearAuthCookies(r) \/ Fail(r)
    <3>1. \A c \in Client : jar'[c] \in {0, jar[c]}
      BY <2>5 DEF ClearAuthCookies, Fail, TypeOK
    <3> QED BY <1>1, <2>5, <3>1, RequestsKnown DEF ClearAuthCookies, Fail, Finish, Idle
  <2> QED BY <1>3, <2>1, <2>2, <2>3, <2>4, <2>5 DEF Handle
<1>4. ASSUME NEW r \in Request, NEW c \in Client, NEW u \in User, Login(r, c, u)
      PROVE  CookiesAreKnown' /\ TokensAreKnown'
  BY <1>1, <1>4, RequestsKnown DEF Login
<1>5. ASSUME NEW r \in Request, NEW c \in Client, SendRefresh(r, c) \/ SendLogout(r, c)
      PROVE  CookiesAreKnown' /\ TokensAreKnown'
  <2>1. /\ jar[c] \in Session \cup {0} /\ (jar[c] # 0 => jar[c] \in Session)
        /\ CookiesAreKnown'
        /\ jar[c] \in Rows' => sessions'[jar[c]].hash = "final"
    BY <1>0, <1>1, <1>5 DEF TypeOK, SendRefresh, SendLogout, CookiesAreKnown, Numbered
  <2> QED BY <1>5, <2>1, RequestsKnown DEF SendRefresh, SendLogout
<1>6. ASSUME NEW f \in Session, Expire(f) PROVE CookiesAreKnown' /\ TokensAreKnown'
  BY <1>1, <1>2, <1>6 DEF Expire
<1>7. ASSUME NEW c \in Client, DropCookie(c) PROVE CookiesAreKnown' /\ TokensAreKnown'
  BY <1>1, <1>2, <1>7 DEF DropCookie, TypeOK
<1>8. ASSUME NEW u \in User, DeleteUser(u) PROVE CookiesAreKnown' /\ TokensAreKnown'
  BY <1>1, <1>2, <1>8 DEF DeleteUser
<1>9. CASE UNCHANGED vars
  BY <1>1, <1>2, <1>9 DEF vars
<1> QED BY <1>3, <1>4, <1>5, <1>6, <1>7, <1>8, <1>9 DEF Next

-----------------------------------------------------------------------------
(* Heirs stay in line.  Whatever does not create or replace a session      *)
(* leaves every heir of a remaining row where it is.                       *)
LEMMA HeirsUndisturbed ==
  ASSUME TypeOK, Numbered, HeirsInLine, HeirsReserved,
         \A t \in Rows' :
           t \in Rows => /\ sessions'[t].user = sessions[t].user
                         /\ sessions'[t].family = sessions[t].family
                         /\ sessions'[t].heir = sessions[t].heir
                         /\ sessions[t].revoked => sessions'[t].revoked,
         \A t \in Rows' : t \in Rows \/ (t > created /\ sessions'[t].heir = 0),
         \A s, t \in Rows : s \in Rows' /\ sessions[s].user = sessions[t].user => t \in Rows',
         \A p \in Request : At(p, "replacing")' => requests'[p] = requests[p]
  PROVE  HeirsInLine' /\ HeirsReserved'
<1>1. HeirsInLine'
  <2> SUFFICES ASSUME NEW s \in Rows', NEW t, t = sessions'[s].heir, t # 0
               PROVE  /\ sessions'[s].revoked /\ s < t /\ t \in Rows'
                      /\ sessions'[t].family = sessions'[s].family
                      /\ sessions'[t].user = sessions'[s].user
                      /\ \A w \in Rows' : sessions'[w].heir = t => w = s
    BY DEF HeirsInLine
  <2>1. s \in Rows /\ t = sessions[s].heir
    OBVIOUS
  <2>2. /\ sessions[s].revoked /\ s < t /\ t \in Rows
        /\ sessions[t].family = sessions[s].family
        /\ sessions[t].user = sessions[s].user
        /\ \A w \in Rows : sessions[w].heir = t => w = s
    BY <2>1 DEF HeirsInLine
  <2>3. t \in Rows'
    BY <2>1, <2>2
  <2> QED BY <2>1, <2>2, <2>3
<1>2. HeirsReserved'
  <2> SUFFICES ASSUME NEW p \in Request, At(p, "replacing")', requests'[p].session \in Rows'
               PROVE  LET s == requests'[p].session
                          t == requests'[p].heir IN
                        /\ s < t /\ t \in Rows'
                        /\ sessions'[t].family = sessions'[s].family
                        /\ sessions'[t].user = sessions'[s].user
                        /\ \A w \in Rows' : sessions'[w].heir # t
                        /\ \A o \in Request : o # p /\ At(o, "replacing")' => requests'[o].heir # t
    BY DEF HeirsReserved
  <2> DEFINE s == requests[p].session
             t == requests[p].heir
  <2>1. /\ requests'[p] = requests[p] /\ At(p, "replacing")
        /\ s \in Session /\ t \in Session /\ s <= created
    BY RequestShapes DEF At, Numbered, HoldsToken
  <2>2. s \in Rows
    BY <2>1 DEF TypeOK, Session
  <2>3. /\ s < t /\ t \in Rows
        /\ sessions[t].family = sessions[s].family
        /\ sessions[t].user = sessions[s].user
        /\ \A w \in Rows : sessions[w].heir # t
        /\ \A o \in Request : o # p /\ At(o, "replacing") => requests[o].heir # t
    BY <2>1, <2>2 DEF HeirsReserved
  <2>4. t \in Rows'
    BY <2>1, <2>2, <2>3
  <2>5. \A w \in Rows' : sessions'[w].heir # t
    BY <2>1, <2>3 DEF Session
  <2>6. \A o \in Request : o # p /\ At(o, "replacing")' => requests'[o].heir # t
    BY <2>3 DEF At
  <2> QED BY <2>1, <2>2, <2>3, <2>4, <2>5, <2>6
<1> QED BY <1>1, <1>2

(* Creating an heir reserves it for the request that rotates.              *)
LEMMA HeirCreated ==
  ASSUME TypeOK, Numbered, HeirsInLine, HeirsReserved, NEW r \in Request, CreateHeir(r)
  PROVE  HeirsInLine' /\ HeirsReserved'
<1> DEFINE parent == requests[r].session
           heir == created'
           q == [step |-> "replacing", client |-> requests[r].client,
                 session |-> parent, heir |-> heir]
<1>1. /\ heir \in Session /\ heir \notin Rows /\ heir = created + 1
      /\ Rows' = Rows \cup {heir}
      /\ \A t \in Session : t # heir => sessions'[t] = sessions[t]
      /\ sessions'[heir].heir = 0
      /\ requests[r].client \in Client /\ parent \in Rows
      /\ sessions'[heir].family = sessions[parent].family
      /\ sessions'[heir].user = sessions[parent].user
  BY Created
<1>2. /\ requests'[r].session = parent /\ requests'[r].heir = heir
      /\ \A p \in Request : p # r => requests'[p] = requests[p]
  <2>1. q \in RequestState /\ Go(r, q)
    BY <1>1, RequestStates DEF CreateHeir, Rows
  <2> QED BY <2>1, GoTypeOK DEF TypeOK
<1>3. /\ created \in Nat
      /\ \A t \in Rows : /\ t \in Session /\ t \in Nat /\ t <= created
                         /\ sessions[t].heir \in Nat /\ sessions[t].heir <= created
  <2>1. created \in Nat
    BY DEF TypeOK
  <2>2. ASSUME NEW t \in Rows
        PROVE  /\ t \in Session /\ t \in Nat /\ t <= created
               /\ sessions[t].heir \in Nat /\ sessions[t].heir <= created
    <3>1. t \in 1 .. created /\ sessions[t].heir <= created
      BY DEF Numbered
    <3>2. t \in Session /\ sessions[t] \in Row
      BY RowShape DEF Rows
    <3> QED BY <2>1, <3>1, <3>2 DEF Row, Session
  <2> QED BY <2>1, <2>2
<1>4. HeirsInLine'
  <2> SUFFICES ASSUME NEW s \in Rows', NEW t, t = sessions'[s].heir, t # 0
               PROVE  /\ sessions'[s].revoked /\ s < t /\ t \in Rows'
                      /\ sessions'[t].family = sessions'[s].family
                      /\ sessions'[t].user = sessions'[s].user
                      /\ \A w \in Rows' : sessions'[w].heir = t => w = s
    BY DEF HeirsInLine
  <2>1. s \in Rows /\ t = sessions[s].heir
    BY <1>1, <1>3
  <2>2. /\ sessions[s].revoked /\ s < t /\ t \in Rows
        /\ sessions[t].family = sessions[s].family
        /\ sessions[t].user = sessions[s].user
        /\ \A w \in Rows : sessions[w].heir = t => w = s
    BY <2>1 DEF HeirsInLine
  <2> QED BY <1>1, <1>3, <2>1, <2>2
<1>5. HeirsReserved'
  <2> SUFFICES ASSUME NEW p \in Request, At(p, "replacing")', requests'[p].session \in Rows'
               PROVE  LET s == requests'[p].session
                          t == requests'[p].heir IN
                        /\ s < t /\ t \in Rows'
                        /\ sessions'[t].family = sessions'[s].family
                        /\ sessions'[t].user = sessions'[s].user
                        /\ \A w \in Rows' : sessions'[w].heir # t
                        /\ \A o \in Request : o # p /\ At(o, "replacing")' => requests'[o].heir # t
    BY DEF HeirsReserved
  <2>1. \A o \in Request : o # r /\ At(o, "replacing")' =>
          /\ At(o, "replacing") /\ requests'[o] = requests[o]
          /\ requests[o].heir \in Session /\ requests[o].heir <= created
          /\ requests[o].session \in Session /\ requests[o].session <= created
    BY <1>2, RequestShapes DEF At, Numbered, HoldsToken
  <2>2. CASE p = r
    <3>1. \A w \in Rows' : sessions'[w].heir # heir
      BY <1>1, <1>3
    <3>2. \A o \in Request : o # r /\ At(o, "replacing")' => requests'[o].heir # heir
      BY <1>1, <1>3, <2>1
    <3>3. /\ parent < heir /\ heir \in Rows'
          /\ sessions'[heir].family = sessions'[parent].family
          /\ sessions'[heir].user = sessions'[parent].user
      BY <1>1, <1>3
    <3> QED BY <1>2, <2>2, <3>1, <3>2, <3>3
  <2>3. CASE p # r
    <3> DEFINE s == requests[p].session
               t == requests[p].heir
    <3>1. /\ At(p, "replacing") /\ requests'[p] = requests[p]
          /\ s \in Session /\ s <= created /\ t \in Session /\ t <= created
      BY <2>1, <2>3
    <3>2. s \in Rows
      BY <1>1, <1>3, <3>1
    <3>3. /\ s < t /\ t \in Rows
          /\ sessions[t].family = sessions[s].family
          /\ sessions[t].user = sessions[s].user
          /\ \A w \in Rows : sessions[w].heir # t
          /\ \A o \in Request : o # p /\ At(o, "replacing") => requests[o].heir # t
      BY <3>1, <3>2 DEF HeirsReserved
    <3>4. \A w \in Rows' : sessions'[w].heir # t
      BY <1>1, <1>3, <3>1, <3>3 DEF Session
    <3>5. \A o \in Request : o # p /\ At(o, "replacing")' => requests'[o].heir # t
      BY <1>1, <1>2, <1>3, <2>1, <3>1, <3>3
    <3> QED BY <1>1, <1>3, <3>1, <3>2, <3>3, <3>4, <3>5
  <2> QED BY <2>2, <2>3
<1> QED BY <1>4, <1>5

(* Naming an heir puts it in line behind its session.                      *)
LEMMA HeirNamed ==
  ASSUME TypeOK, Numbered, HeirsInLine, HeirsReserved, NEW r \in Request, ReplaceSession(r)
  PROVE  HeirsInLine' /\ HeirsReserved'
<1> DEFINE parent == requests[r].session
           heir == requests[r].heir
           q == [step |-> "hashing", client |-> requests[r].client, session |-> heir]
<1>1. /\ parent \in Rows /\ Rows' = Rows
      /\ sessions'[parent].heir = heir /\ sessions'[parent].revoked
      /\ \A t \in Session : /\ t # parent => sessions'[t] = sessions[t]
                            /\ sessions'[t].family = sessions[t].family
                            /\ sessions'[t].user = sessions[t].user
  BY Replaced
<1>2. requests[r] \in [step : {"replacing"}, client : Client, session : Session, heir : Session]
  BY RequestShapes DEF ReplaceSession
<1>3. requests'[r] = q /\ \A p \in Request : p # r => requests'[p] = requests[p]
  <2>1. q \in RequestState /\ Go(r, q)
    BY <1>2, RequestStates DEF ReplaceSession
  <2> QED BY <2>1, GoTypeOK DEF TypeOK
<1>4. /\ parent < heir /\ heir \in Rows
      /\ sessions[heir].family = sessions[parent].family
      /\ sessions[heir].user = sessions[parent].user
      /\ \A w \in Rows : sessions[w].heir # heir
      /\ \A p \in Request : p # r /\ At(p, "replacing") => requests[p].heir # heir
  BY <1>1 DEF HeirsReserved, ReplaceSession
<1>5. \A s \in Rows : s \in Session
  BY DEF Rows
<1>6. HeirsInLine'
  <2> SUFFICES ASSUME NEW s \in Rows', NEW t, t = sessions'[s].heir, t # 0
               PROVE  /\ sessions'[s].revoked /\ s < t /\ t \in Rows'
                      /\ sessions'[t].family = sessions'[s].family
                      /\ sessions'[t].user = sessions'[s].user
                      /\ \A w \in Rows' : sessions'[w].heir = t => w = s
    BY DEF HeirsInLine
  <2>1. CASE s = parent
    BY <1>1, <1>4, <1>5, <2>1
  <2>2. CASE s # parent
    <3>1. /\ sessions[s].revoked /\ s < t /\ t \in Rows
          /\ sessions[t].family = sessions[s].family
          /\ sessions[t].user = sessions[s].user
          /\ \A w \in Rows : sessions[w].heir = t => w = s
      BY <1>1, <1>5, <2>2 DEF HeirsInLine
    <3>2. t # heir
      BY <1>1, <1>4, <1>5, <2>2
    <3> QED BY <1>1, <1>5, <2>2, <3>1, <3>2
  <2> QED BY <2>1, <2>2
<1>7. HeirsReserved'
  <2> SUFFICES ASSUME NEW p \in Request, At(p, "replacing")', requests'[p].session \in Rows'
               PROVE  LET s == requests'[p].session
                          t == requests'[p].heir IN
                        /\ s < t /\ t \in Rows'
                        /\ sessions'[t].family = sessions'[s].family
                        /\ sessions'[t].user = sessions'[s].user
                        /\ \A w \in Rows' : sessions'[w].heir # t
                        /\ \A o \in Request : o # p /\ At(o, "replacing")' => requests'[o].heir # t
    BY DEF HeirsReserved
  <2> DEFINE s == requests[p].session
             t == requests[p].heir
  <2>1. \A o \in Request : At(o, "replacing")' => o # r /\ At(o, "replacing") /\ requests'[o] = requests[o]
    BY <1>3 DEF At
  <2>2. /\ s < t /\ t \in Rows
        /\ sessions[t].family = sessions[s].family
        /\ sessions[t].user = sessions[s].user
        /\ \A w \in Rows : sessions[w].heir # t
        /\ \A o \in Request : o # p /\ At(o, "replacing") => requests[o].heir # t
    BY <1>1, <2>1 DEF HeirsReserved
  <2>3. t # heir
    BY <1>4, <2>1
  <2>4. requests'[p] = requests[p] /\ s \in Rows
    BY <1>1, <2>1
  <2>5. \A w \in Rows' : sessions'[w].heir # t
    BY <1>1, <1>5, <2>2, <2>3
  <2>6. \A o \in Request : o # p /\ At(o, "replacing")' => requests'[o].heir # t
    BY <2>1, <2>2
  <2> QED BY <1>1, <1>5, <2>2, <2>4, <2>5, <2>6
<1> QED BY <1>6, <1>7

(* Heirs stay in line and reserved.                                        *)
LEMMA HeirsStep ==
  ASSUME TypeOK, Numbered, HeirsInLine, HeirsReserved, [Next]_vars
  PROVE  HeirsInLine' /\ HeirsReserved'
<1>1. ASSUME NEW r \in Request, CreateHeir(r) PROVE HeirsInLine' /\ HeirsReserved'
  BY <1>1, HeirCreated
<1>2. ASSUME NEW r \in Request, ReplaceSession(r) PROVE HeirsInLine' /\ HeirsReserved'
  BY <1>2, HeirNamed
<1>3. CASE ~\E r \in Request : CreateHeir(r) \/ ReplaceSession(r)
  <2>1. \A p \in Request : At(p, "replacing")' => requests'[p] = requests[p]
    <3>1. ASSUME NEW p \in Request, NEW r \in Request, Handle(r), At(p, "replacing")'
          PROVE  requests'[p] = requests[p]
      BY <1>3, <3>1
         DEF TypeOK, Handle, At, Go, Finish, Idle, CreateSession, WriteHash, SetAuthCookies, GetValidSession,
             RevokeSession, RevokeNothing, ClearAuthCookies, Fail
    <3>2. ASSUME NEW p \in Request, At(p, "replacing")', NEW r \in Request, NEW c \in Client,
                 (\E u \in User : Login(r, c, u)) \/ SendRefresh(r, c) \/ SendLogout(r, c)
          PROVE  requests'[p] = requests[p]
      BY <3>2 DEF TypeOK, At, Go, Login, SendRefresh, SendLogout
    <3>3. (\E f \in Session : Expire(f)) \/ (\E c \in Client : DropCookie(c))
            \/ (\E u \in User : DeleteUser(u)) \/ UNCHANGED vars => UNCHANGED requests
      BY DEF Expire, DropCookie, DeleteUser, vars
    <3> QED BY <3>1, <3>2, <3>3 DEF Next
  <2>2. CASE UNCHANGED sessions
    <3>1. Rows' = Rows
      BY <2>2 DEF Rows, Exists
    <3> QED BY <2>1, <2>2, <3>1, HeirsUndisturbed
  <2>3. ASSUME NEW r \in Request, CreateSession(r) PROVE HeirsInLine' /\ HeirsReserved'
    <3>1. /\ Rows' = Rows \cup {created'} /\ created' = created + 1 /\ created' \notin Rows
          /\ \A t \in Session : t # created' => sessions'[t] = sessions[t]
          /\ sessions'[created'].heir = 0
      BY <2>3, Created
    <3>2. \A t \in Rows : t \in Session /\ created \in Nat
      BY DEF Rows, TypeOK
    <3>3. \A t \in Rows' : t \in Rows \/ (t > created /\ sessions'[t].heir = 0)
      BY <3>1 DEF TypeOK
    <3> QED BY <2>1, <3>1, <3>2, <3>3, HeirsUndisturbed
  <2>4. ASSUME NEW r \in Request, WriteHash(r) PROVE HeirsInLine' /\ HeirsReserved'
    <3>1. Rows' = Rows
      BY <2>4, HashWritten
    <3>2. \A t \in Rows : /\ sessions'[t].user = sessions[t].user
                          /\ sessions'[t].family = sessions[t].family
                          /\ sessions'[t].heir = sessions[t].heir
                          /\ sessions'[t].revoked = sessions[t].revoked
      BY <2>4, HashWritten DEF Rows
    <3> QED BY <2>1, <3>1, <3>2, HeirsUndisturbed
  <2>5. ASSUME NEW r \in Request, RevokeSession(r) PROVE HeirsInLine' /\ HeirsReserved'
    <3>1. Rows' = Rows
      BY <2>5, Revoked
    <3>2. \A t \in Rows : /\ sessions'[t].user = sessions[t].user
                          /\ sessions'[t].family = sessions[t].family
                          /\ sessions'[t].heir = sessions[t].heir
                          /\ sessions[t].revoked => sessions'[t].revoked
      BY <2>5, Revoked DEF Rows
    <3> QED BY <2>1, <3>1, <3>2, HeirsUndisturbed
  <2>6. ASSUME NEW u \in User, DeleteUser(u) PROVE HeirsInLine' /\ HeirsReserved'
    <3>1. /\ Rows' \subseteq Rows
          /\ \A t \in Rows' : sessions'[t] = sessions[t]
          /\ \A s, t \in Rows : s \in Rows' /\ sessions[s].user = sessions[t].user => t \in Rows'
      BY <2>6 DEF DeleteUser, Rows, Exists
    <3> QED BY <2>1, <3>1, HeirsUndisturbed
  <2>7. \/ UNCHANGED sessions
        \/ \E r \in Request : CreateSession(r) \/ WriteHash(r) \/ RevokeSession(r)
        \/ \E u \in User : DeleteUser(u)
    BY <1>3 DEF Next, vars, Handle, SetAuthCookies, GetValidSession, RevokeNothing, ClearAuthCookies, Fail,
           Login, SendRefresh, SendLogout, Expire, DropCookie
  <2> QED BY <2>2, <2>3, <2>4, <2>5, <2>6, <2>7
<1> QED BY <1>1, <1>2, <1>3

-----------------------------------------------------------------------------
(* Families and logouts.                                                   *)
LEMMA NewRows ==
  ASSUME TypeOK, Numbered, [Next]_vars, NEW t \in Rows', ~(t <= created)
  PROVE  \E r \in Request : /\ CreateSession(r) \/ CreateHeir(r)
                            /\ t = created'
<1> t \in Session /\ created \in Nat
  BY DEF Rows, TypeOK
<1>1. t \notin Rows
  BY DEF Numbered
<1>2. CASE UNCHANGED sessions
  BY <1>1, <1>2 DEF Rows, Exists
<1>3. ASSUME NEW r \in Request, WriteHash(r) \/ ReplaceSession(r) \/ RevokeSession(r) PROVE FALSE
  BY <1>1, <1>3, HashWritten, Replaced, Revoked
<1>4. ASSUME NEW r \in Request, CreateSession(r) \/ CreateHeir(r) PROVE t = created'
  BY <1>1, <1>4, Created
<1>5. ASSUME NEW u \in User, DeleteUser(u) PROVE FALSE
  BY <1>1, <1>5 DEF DeleteUser, Rows, Exists
<1>6. \/ UNCHANGED sessions
      \/ \E r \in Request : \/ CreateSession(r) \/ CreateHeir(r) \/ WriteHash(r)
                            \/ ReplaceSession(r) \/ RevokeSession(r)
      \/ \E u \in User : DeleteUser(u)
  BY DEF Next, vars, Handle, SetAuthCookies, GetValidSession, RevokeNothing, ClearAuthCookies, Fail,
         Login, SendRefresh, SendLogout, Expire, DropCookie
<1> QED BY <1>2, <1>3, <1>4, <1>5, <1>6

(* At most one session is created in a step.                               *)
LEMMA CreatedGrows == TypeOK /\ [Next]_vars => created' \in {created, created + 1}
  BY DEF TypeOK, Next, vars, Handle, CreateSession, WriteHash, SetAuthCookies, GetValidSession, CreateHeir,
         ReplaceSession, RevokeSession, RevokeNothing, ClearAuthCookies, Fail,
         Login, SendRefresh, SendLogout, Expire, DropCookie, DeleteUser

(* Families stay named after sessions.                                     *)
LEMMA FamiliesStep == TypeOK /\ Numbered /\ FamiliesNumbered /\ [Next]_vars => FamiliesNumbered'
<1> SUFFICES ASSUME TypeOK, Numbered, FamiliesNumbered, [Next]_vars, NEW t \in Rows'
             PROVE  sessions'[t].family <= created'
  BY DEF FamiliesNumbered
<1>1. created \in Nat /\ created' \in {created, created + 1} /\ \A s \in Rows : sessions[s].family \in Nat
  BY CreatedGrows, RowShape DEF TypeOK, Rows, Row, Session
<1>2. CASE t <= created
  BY <1>1, <1>2, RowsStep DEF FamiliesNumbered
<1>3. CASE ~(t <= created)
  <2>1. PICK r \in Request : (CreateSession(r) \/ CreateHeir(r)) /\ t = created'
    BY <1>3, NewRows
  <2>2. sessions'[t].family = created' \/ \E s \in Rows : sessions'[t].family = sessions[s].family
    BY <2>1, Created
  <2>3. created' = created + 1
    BY <2>1, Created
  <2> QED BY <1>1, <2>2, <2>3 DEF FamiliesNumbered
<1> QED BY <1>2, <1>3

(* A revocation is never undone.                                           *)
LEMMA LoggedOutStep ==
  TypeOK /\ Numbered /\ LoggedOutIsRevoked /\ [Next]_vars => LoggedOutIsRevoked'
<1> SUFFICES ASSUME TypeOK, Numbered, LoggedOutIsRevoked, [Next]_vars,
                    NEW t \in Rows' \cap loggedOut'
             PROVE  sessions'[t].revoked
  BY DEF LoggedOutIsRevoked
<1>1. CASE t \in loggedOut
  <2>1. t <= created
    BY <1>1 DEF Numbered, TypeOK
  <2> QED BY <1>1, <2>1, RowsStep DEF LoggedOutIsRevoked
<1>2. CASE t \notin loggedOut
  <2>1. PICK r \in Request : RevokeSession(r) /\ t = requests[r].session
    BY <1>2 DEF Next, vars, Handle, CreateSession, WriteHash, SetAuthCookies, GetValidSession, CreateHeir,
         ReplaceSession, RevokeSession, RevokeNothing, ClearAuthCookies, Fail,
         Login, SendRefresh, SendLogout, Expire, DropCookie, DeleteUser
  <2> QED BY <2>1, Revoked
<1> QED BY <1>1, <1>2

-----------------------------------------------------------------------------
(* Counting.                                                               *)
LoggedOut(f) == Family(f) \cap loggedOut
Tally(f) == Cardinality(Live(f)) + Cardinality(LoggedOut(f))

(* A finite set that loses and gains what is named, at the most.           *)
LEMMA CountFewer ==
  ASSUME NEW S, IsFiniteSet(S), NEW T, T \subseteq S
  PROVE  IsFiniteSet(T) /\ Cardinality(T) \in Nat /\ Cardinality(S) \in Nat
         /\ Cardinality(T) <= Cardinality(S)
  BY FS_Subset, FS_CardinalityType

(* A set with one element more counts at most one more.                    *)
LEMMA CountOneMore ==
  ASSUME NEW S, IsFiniteSet(S), NEW T, NEW x, T \subseteq S \cup {x}
  PROVE  Cardinality(T) \in Nat /\ Cardinality(S) \in Nat /\ Cardinality(T) <= Cardinality(S) + 1
<1>1. IsFiniteSet(S \cup {x}) /\ Cardinality(S \cup {x}) <= Cardinality(S) + 1 /\ Cardinality(S) \in Nat
  BY FS_AddElement, FS_CardinalityType
<1>2. Cardinality(T) \in Nat /\ Cardinality(T) <= Cardinality(S \cup {x}) /\ Cardinality(S \cup {x}) \in Nat
  BY <1>1, CountFewer
<1> QED BY <1>1, <1>2

(* A set with one element less counts at least one less.                   *)
LEMMA CountOneLess ==
  ASSUME NEW S, IsFiniteSet(S), NEW T, NEW x \in S, T \subseteq S \ {x}
  PROVE  Cardinality(T) \in Nat /\ Cardinality(S) \in Nat /\ Cardinality(T) <= Cardinality(S) - 1
<1>1. IsFiniteSet(S \ {x}) /\ Cardinality(S \ {x}) = Cardinality(S) - 1 /\ Cardinality(S) \in Nat
  BY FS_RemoveElement, FS_CardinalityType
<1>2. Cardinality(T) \in Nat /\ Cardinality(T) <= Cardinality(S \ {x})
  BY <1>1, CountFewer
<1> QED BY <1>1, <1>2

(* Sets of sessions can be counted.                                        *)
LEMMA SessionsFinite ==
  ASSUME NEW S, S \subseteq Session
  PROVE  IsFiniteSet(S)
<1>1. IsFiniteSet(Session)
  BY RefreshSessionsAssumption, FS_Interval DEF Session
<1> QED BY <1>1, FS_Subset

(* The live and the logged out sessions of a family can be counted.        *)
LEMMA CountsFinite ==
  ASSUME NEW f \in Session
  PROVE  /\ IsFiniteSet(Live(f)) /\ IsFiniteSet(LoggedOut(f))
         /\ Cardinality(Live(f)) \in Nat /\ Cardinality(LoggedOut(f)) \in Nat
<1>1. Live(f) \subseteq Session /\ LoggedOut(f) \subseteq Session
  BY DEF Live, LoggedOut, Family, Rows
<1> QED BY <1>1, SessionsFinite, FS_CardinalityType

(* A step that adds nothing to either set keeps the account of a family.   *)
LEMMA TallyKept ==
  ASSUME NEW f \in Session, TypeOK, LiveAccounted,
         Live(f)' \subseteq Live(f), LoggedOut(f)' \subseteq LoggedOut(f), overlaps'[f] = overlaps[f]
  PROVE  Tally(f)' <= 1 + overlaps'[f]
<1>1. Tally(f) <= 1 + overlaps[f]
  BY DEF LiveAccounted, Tally, LoggedOut
<1>2. /\ Cardinality(Live(f)') \in Nat /\ Cardinality(Live(f)') <= Cardinality(Live(f))
      /\ Cardinality(LoggedOut(f)') \in Nat /\ Cardinality(LoggedOut(f)') <= Cardinality(LoggedOut(f))
  BY CountsFinite, CountFewer
<1>3. Cardinality(Live(f)) \in Nat /\ Cardinality(LoggedOut(f)) \in Nat /\ overlaps[f] \in Nat
  BY CountsFinite DEF TypeOK
<1> QED BY <1>1, <1>2, <1>3 DEF Tally

(* A new row is provisional and no request is hashing it: it counts only   *)
(* for the login that goes on to hash it, in a family of its own.          *)
LEMMA CreatedAccounted ==
  ASSUME IInv, NEW r \in Request, CreateSession(r) \/ CreateHeir(r), NEW f \in Session
  PROVE  Tally(f)' <= 1 + overlaps'[f]
<1> USE DEF IInv
<1>1. /\ created' \in Session /\ created' = created + 1 /\ created' \notin Rows
      /\ Rows' = Rows \cup {created'}
      /\ \A t \in Session : t # created' => sessions'[t] = sessions[t]
      /\ sessions'[created'].hash = "provisional"
      /\ UNCHANGED <<loggedOut, overlaps>>
  BY Created DEF CreateSession, CreateHeir
<1>2. created \in Nat /\ \A t \in Rows : t \in Session /\ t # created' /\ sessions'[t] = sessions[t]
  <2>1. created \in Nat /\ \A t \in Rows : t \in Session
    BY DEF TypeOK, Rows
  <2> QED BY <1>1, <2>1
<1>3. \A t \in loggedOut : t # created'
  BY <1>1, <1>2 DEF Numbered
<1>4. LoggedOut(f)' \subseteq LoggedOut(f)
  BY <1>1, <1>2, <1>3 DEF LoggedOut, Family
<1>5. ASSUME NEW p \in Request, At(p, "hashing")'
      PROVE  \/ At(p, "hashing") /\ requests'[p].session = requests[p].session
                /\ requests[p].session <= created
             \/ CreateSession(r) /\ requests'[p].session = created'
  BY <1>5 DEF CreateSession, CreateHeir, Go, At, TypeOK, Numbered
<1>6. CASE CreateSession(r) /\ f = created'
  <2>1. \A t \in Rows : sessions[t].family \in Nat /\ sessions[t].family <= created
    BY RowShape DEF FamiliesNumbered, Rows, Row, Session
  <2>2. Family(f)' \subseteq {created'}
    BY <1>1, <1>2, <1>6, <2>1 DEF Family
  <2>3. LoggedOut(f)' = {}
    BY <1>1, <1>3, <2>2 DEF LoggedOut
  <2>4. Live(f)' \subseteq {} \cup {created'}
    BY <2>2 DEF Live
  <2>5. Cardinality(Live(f)') \in Nat /\ Cardinality(Live(f)') <= 1 /\ Cardinality({}) = 0
    <3>1. IsFiniteSet({}) /\ Cardinality({}) = 0
      BY FS_EmptySet
    <3>2. Cardinality(Live(f)') \in Nat /\ Cardinality(Live(f)') <= Cardinality({}) + 1
      BY <2>4, <3>1, CountOneMore
    <3> QED BY <3>1, <3>2
  <2>6. overlaps'[f] \in Nat
    BY <1>1 DEF TypeOK
  <2> QED BY <2>3, <2>5, <2>6 DEF Tally
<1>7. CASE ~(CreateSession(r) /\ f = created')
  <2>1. created' \notin Live(f)'
    <3>1. ASSUME NEW p \in Request, At(p, "hashing")', requests'[p].session = created', created' \in Family(f)'
          PROVE  FALSE
      BY <1>1, <1>2, <1>5, <1>7, <3>1, Created DEF Family
    <3> QED BY <1>1, <3>1 DEF Live
  <2>2. ASSUME NEW t \in Live(f)' PROVE t \in Live(f)
    <3>1. t \in Rows /\ sessions'[t] = sessions[t] /\ t # created'
      BY <1>1, <1>2, <2>1, <2>2 DEF Live, Family
    <3> QED BY <1>5, <2>2, <3>1 DEF Live, Family
  <2> QED BY <1>1, <1>4, <2>2, TallyKept
<1> QED BY <1>6, <1>7

(* The parent, which counted unless it was revoked before, hands over.     *)
LEMMA ReplacedAccounted ==
  ASSUME IInv, NEW r \in Request, ReplaceSession(r), NEW f \in Session
  PROVE  Tally(f)' <= 1 + overlaps'[f]
<1> USE DEF IInv
<1> DEFINE parent == requests[r].session
           heir == requests[r].heir
<1>1. /\ parent \in Rows /\ Rows' = Rows
      /\ sessions'[parent].revoked
      /\ \A t \in Session : /\ t # parent => sessions'[t] = sessions[t]
                            /\ sessions'[t].family = sessions[t].family
                            /\ sessions'[t].hash = sessions[t].hash
      /\ UNCHANGED loggedOut
  <2>1. UNCHANGED loggedOut
    BY DEF ReplaceSession
  <2> QED BY <2>1, Replaced
<1>2. \A t \in Rows : t \in Session
  BY DEF Rows
<1>3. heir \in Rows /\ sessions[heir].family = sessions[parent].family
  BY <1>1 DEF HeirsReserved, ReplaceSession
<1>4. sessions[parent].hash = "final"
  BY <1>1 DEF TokensAreKnown, HoldsToken, ReplaceSession, At
<1>5. ASSUME NEW p \in Request, At(p, "hashing")'
      PROVE  \/ At(p, "hashing") /\ requests'[p].session = requests[p].session
             \/ requests'[p].session = heir
  BY <1>5 DEF ReplaceSession, Go, At, TypeOK
<1>6. Family(f)' = Family(f) /\ LoggedOut(f)' = LoggedOut(f)
  BY <1>1, <1>2 DEF Family, LoggedOut
<1>7. Live(f)' \subseteq (Live(f) \ {parent}) \cup ({heir} \cap Family(f))
  <2> SUFFICES ASSUME NEW t \in Live(f)', t # heir PROVE t \in Live(f) \ {parent}
    BY <1>6 DEF Live
  <2>1. t \in Family(f) /\ t # parent /\ t \in Session
    BY <1>1, <1>2, <1>6 DEF Live, Family
  <2> QED BY <1>1, <1>5, <2>1 DEF Live
<1>8. /\ IsFiniteSet(Live(f)) /\ Cardinality(Live(f)) \in Nat /\ Cardinality(LoggedOut(f)) \in Nat
      /\ Cardinality(Live(f)) + Cardinality(LoggedOut(f)) <= 1 + overlaps[f]
      /\ overlaps[f] \in Nat
  BY CountsFinite DEF LiveAccounted, LoggedOut, TypeOK
<1>9. CASE f # sessions[parent].family
  <2>1. heir \notin Family(f)
    BY <1>3, <1>9 DEF Family
  <2>2. overlaps'[f] = overlaps[f]
    BY <1>9 DEF ReplaceSession, TypeOK
  <2> QED BY <1>6, <1>7, <2>1, <2>2, TallyKept
<1>10. CASE f = sessions[parent].family
  <2>1. parent \in Family(f)
    BY <1>1, <1>10 DEF Family
  <2>2. CASE sessions[parent].revoked
    <3>1. overlaps'[f] = overlaps[f] + 1
      BY <1>10, <2>2 DEF ReplaceSession, TypeOK
    <3>2. Cardinality(Live(f)') \in Nat /\ Cardinality(Live(f)') <= Cardinality(Live(f)) + 1
      <4>1. Live(f)' \subseteq Live(f) \cup {heir}
        BY <1>7
      <4> QED BY <1>8, <4>1, CountOneMore
    <3> QED BY <1>6, <1>8, <3>1, <3>2 DEF Tally
  <2>3. CASE ~sessions[parent].revoked
    <3>1. overlaps'[f] = overlaps[f]
      BY <1>8, <1>10, <2>3 DEF ReplaceSession, TypeOK
    <3>2. parent \in Live(f)
      BY <1>4, <2>1, <2>3 DEF Live
    <3>3. /\ IsFiniteSet(Live(f) \ {parent})
          /\ Cardinality(Live(f) \ {parent}) \in Nat
          /\ Cardinality(Live(f) \ {parent}) <= Cardinality(Live(f)) - 1
      BY <1>8, <3>2, CountOneLess, FS_RemoveElement
    <3>4. /\ Cardinality(Live(f)') \in Nat
          /\ Cardinality(Live(f)') <= Cardinality(Live(f) \ {parent}) + 1
      <4>1. Live(f)' \subseteq (Live(f) \ {parent}) \cup {heir}
        BY <1>7
      <4> QED BY <3>3, <4>1, CountOneMore
    <3> QED BY <1>6, <1>8, <3>1, <3>3, <3>4 DEF Tally
  <2> QED BY <2>2, <2>3
<1> QED BY <1>9, <1>10

(* A session that is logged out moves from one set to the other.           *)
LEMMA RevokedAccounted ==
  ASSUME IInv, NEW r \in Request, RevokeSession(r), NEW f \in Session
  PROVE  Tally(f)' <= 1 + overlaps'[f]
<1> USE DEF IInv
<1> DEFINE s == requests[r].session
<1>1. /\ s \in Rows /\ Rows' = Rows
      /\ ~sessions[s].revoked /\ sessions'[s].revoked
      /\ \A t \in Session : /\ t # s => sessions'[t] = sessions[t]
                            /\ sessions'[t].family = sessions[t].family
      /\ loggedOut' = loggedOut \cup {s}
      /\ UNCHANGED overlaps
  <2>1. loggedOut' = loggedOut \cup {s} /\ UNCHANGED overlaps
    BY DEF RevokeSession
  <2> QED BY <2>1, Revoked
<1>2. \A t \in Rows : t \in Session
  BY DEF Rows
<1>3. sessions[s].hash = "final"
  BY <1>1 DEF TokensAreKnown, HoldsToken, RevokeSession, At
<1>4. ASSUME NEW p \in Request, At(p, "hashing")'
      PROVE  At(p, "hashing") /\ requests'[p].session = requests[p].session
  BY <1>4 DEF RevokeSession, Go, At, TypeOK
<1>5. Family(f)' = Family(f)
  BY <1>1, <1>2 DEF Family
<1>6. Live(f)' \subseteq Live(f) \ {s}
  <2> SUFFICES ASSUME NEW t \in Live(f)' PROVE t \in Live(f) \ {s}
    OBVIOUS
  <2>1. t \in Family(f) /\ t # s /\ t \in Session
    BY <1>1, <1>2, <1>5 DEF Live, Family
  <2> QED BY <1>1, <1>4, <2>1 DEF Live
<1>7. CASE s \notin Family(f)
  <2>1. LoggedOut(f)' \subseteq LoggedOut(f)
    BY <1>1, <1>5, <1>7 DEF LoggedOut
  <2> QED BY <1>1, <1>6, <2>1, TallyKept
<1>8. CASE s \in Family(f)
  <2>1. s \in Live(f)
    BY <1>1, <1>3, <1>8 DEF Live
  <2>2. LoggedOut(f)' \subseteq LoggedOut(f) \cup {s}
    BY <1>1, <1>5 DEF LoggedOut
  <2>3. /\ IsFiniteSet(Live(f)) /\ Cardinality(Live(f)) \in Nat
        /\ IsFiniteSet(LoggedOut(f)) /\ Cardinality(LoggedOut(f)) \in Nat
        /\ Cardinality(Live(f)) + Cardinality(LoggedOut(f)) <= 1 + overlaps[f]
        /\ overlaps'[f] = overlaps[f] /\ overlaps[f] \in Nat
    BY <1>1, CountsFinite DEF LiveAccounted, LoggedOut, TypeOK
  <2>4. Cardinality(Live(f)') \in Nat /\ Cardinality(Live(f)') <= Cardinality(Live(f)) - 1
    BY <1>6, <2>1, <2>3, CountOneLess
  <2>5. Cardinality(LoggedOut(f)') \in Nat /\ Cardinality(LoggedOut(f)') <= Cardinality(LoggedOut(f)) + 1
    BY <2>2, <2>3, CountOneMore
  <2> QED BY <2>3, <2>4, <2>5 DEF Tally
<1> QED BY <1>7, <1>8

(* Every step keeps the live sessions accounted for.                       *)
LEMMA AccountsStep == IInv /\ [Next]_vars => LiveAccounted'
<1> SUFFICES ASSUME IInv, [Next]_vars, NEW f \in Session PROVE Tally(f)' <= 1 + overlaps'[f]
  BY DEF LiveAccounted, Tally, LoggedOut
<1>1. CASE \E r \in Request : \/ CreateSession(r) \/ CreateHeir(r)
                              \/ ReplaceSession(r) \/ RevokeSession(r)
  BY <1>1, CreatedAccounted, ReplacedAccounted, RevokedAccounted
<1>2. CASE ~\E r \in Request : \/ CreateSession(r) \/ CreateHeir(r)
                               \/ ReplaceSession(r) \/ RevokeSession(r)
  <2> USE DEF IInv
  <2>1. UNCHANGED <<loggedOut, overlaps>>
    BY <1>2 DEF Next, vars, Handle, WriteHash, SetAuthCookies, GetValidSession, RevokeNothing, ClearAuthCookies,
           Fail, Login, SendRefresh, SendLogout, Expire, DropCookie, DeleteUser
  <2>2. CASE \E r \in Request : WriteHash(r)
    <3>1. PICK r \in Request : WriteHash(r)
      BY <2>2
    <3> DEFINE s == requests[r].session
    <3>2. /\ s \in Rows /\ Rows' = Rows
          /\ \A t \in Session : t # s => sessions'[t] = sessions[t]
          /\ sessions'[s].family = sessions[s].family
          /\ sessions'[s].revoked = sessions[s].revoked
      BY <3>1, HashWritten
    <3>3. \A t \in Rows : /\ t \in Session
                          /\ sessions'[t].family = sessions[t].family
                          /\ sessions'[t].revoked = sessions[t].revoked
      BY <3>2 DEF Rows
    <3>4. Family(f)' = Family(f)
      BY <3>2, <3>3 DEF Family
    <3>5. ASSUME NEW p \in Request, At(p, "hashing")'
          PROVE  At(p, "hashing") /\ requests'[p].session = requests[p].session
      BY <3>1, <3>5 DEF WriteHash, Go, At, TypeOK
    <3>6. Live(f)' \subseteq Live(f)
      <4> SUFFICES ASSUME NEW t \in Live(f)' PROVE t \in Live(f)
        OBVIOUS
      <4>1. t \in Family(f) /\ t \in Rows /\ ~sessions[t].revoked
        BY <3>3, <3>4 DEF Live, Family
      <4>2. CASE t = s
        BY <3>1, <4>1, <4>2 DEF Live, WriteHash
      <4>3. CASE t # s
        BY <3>2, <3>3, <3>5, <4>1, <4>3 DEF Live
      <4> QED BY <4>2, <4>3
    <3>7. LoggedOut(f)' \subseteq LoggedOut(f)
      BY <2>1, <3>4 DEF LoggedOut
    <3> QED BY <2>1, <3>6, <3>7, TallyKept
  <2>3. CASE ~\E r \in Request : WriteHash(r)
    <3>1. \A t \in Rows' : t \in Rows /\ sessions'[t] = sessions[t]
      <4>1. UNCHANGED sessions \/ \E u \in User : DeleteUser(u)
        BY <1>2, <2>3 DEF Next, vars, Handle, SetAuthCookies, GetValidSession, RevokeNothing, ClearAuthCookies,
               Fail, Login, SendRefresh, SendLogout, Expire, DropCookie
      <4> QED BY <4>1 DEF DeleteUser, Rows, Exists
    <3>2. ASSUME NEW p \in Request, At(p, "hashing")'
          PROVE  At(p, "hashing") /\ requests'[p].session = requests[p].session
      <4>1. ASSUME NEW r \in Request, Handle(r)
            PROVE  At(p, "hashing") /\ requests'[p].session = requests[p].session
        BY <1>2, <2>3, <3>2, <4>1
           DEF Handle, At, Go, Finish, Idle, TypeOK, SetAuthCookies, GetValidSession, RevokeNothing,
               ClearAuthCookies, Fail
      <4>2. ASSUME NEW r \in Request, NEW c \in Client,
                   (\E u \in User : Login(r, c, u)) \/ SendRefresh(r, c) \/ SendLogout(r, c)
            PROVE  At(p, "hashing") /\ requests'[p].session = requests[p].session
        BY <3>2, <4>2 DEF At, Go, TypeOK, Login, SendRefresh, SendLogout
      <4>3. UNCHANGED requests => At(p, "hashing") /\ requests'[p].session = requests[p].session
        BY <3>2 DEF At
      <4> QED BY <4>1, <4>2, <4>3 DEF Next, vars, Expire, DropCookie, DeleteUser
    <3>3. Live(f)' \subseteq Live(f) /\ LoggedOut(f)' \subseteq LoggedOut(f)
      BY <2>1, <3>1, <3>2 DEF Live, LoggedOut, Family
    <3> QED BY <2>1, <3>3, TallyKept
  <2> QED BY <2>2, <2>3
<1> QED BY <1>1, <1>2

-----------------------------------------------------------------------------
(* The theorems.                                                           *)
LEMMA InitIInv == Init => IInv
<1> SUFFICES ASSUME Init PROVE IInv
  OBVIOUS
<1>1. Rows = {} /\ \A r \in Request : requests[r].step = "idle"
  BY DEF Init, Rows, Exists, Idle
<1>2. TypeOK
  BY RequestStates, RefreshSessionsAssumption DEF Init, TypeOK
<1>3. Numbered /\ FamiliesNumbered
  BY <1>1 DEF Init, Numbered, FamiliesNumbered, HoldsToken, At
<1>4. CookiesAreKnown /\ TokensAreKnown /\ HeirsInLine /\ HeirsReserved /\ LoggedOutIsRevoked
  BY <1>1 DEF CookiesAreKnown, TokensAreKnown, HeirsInLine, HeirsReserved, LoggedOutIsRevoked, HoldsToken
<1>5. LiveAccounted
  <2> SUFFICES ASSUME NEW f \in Session
               PROVE  Cardinality(Live(f)) + Cardinality(Family(f) \cap loggedOut) <= 1 + overlaps[f]
    BY DEF LiveAccounted
  <2>1. Live(f) = {} /\ Family(f) \cap loggedOut = {} /\ overlaps[f] = 0
    BY <1>1 DEF Init, Live, Family
  <2> QED BY <2>1, FS_EmptySet
<1> QED BY <1>2, <1>3, <1>4, <1>5 DEF IInv

(* The inductive invariant: ids, known tokens, reserved heirs and accounts *)
(* hold together at every round trip of every login, refresh and logout.   *)
THEOREM IInvInvariant == Spec => []IInv
<1>1. IInv /\ [Next]_vars => IInv'
  BY TypeStep, NumberedStep, FamiliesStep, TokensKnownStep, HeirsStep, LoggedOutStep, AccountsStep DEF IInv
<1> QED BY <1>1, InitIInv, PTL DEF Spec

(* Tables, cookies and what handlers hold are well typed.                  *)
THEOREM TypeCorrect == Spec => []TypeOK
<1>1. IInv => TypeOK
  BY DEF IInv
<1> QED BY <1>1, IInvInvariant, PTL

(* Whatever races and fails, the hash of a token is stored before any      *)
(* browser has it (auth.service.ts issueTokensForUser, refreshWithToken).  *)
THEOREM CookiesAreKnownHolds == Spec => []CookiesAreKnown
<1>1. IInv => CookiesAreKnown
  BY DEF IInv
<1> QED BY <1>1, IInvInvariant, PTL

(* Heirs form chains, however rotations of one session overlap             *)
(* (refresh-session.service.ts rotateSession).                             *)
THEOREM HeirsInLineHolds == Spec => []HeirsInLine
<1>1. IInv => HeirsInLine
  BY DEF IInv
<1> QED BY <1>1, IInvInvariant, PTL

(* A login leaves one usable session, and one more for each rotation that  *)
(* found its session revoked already: nothing else makes more.             *)
THEOREM SessionsAccountedHolds == Spec => []SessionsAccounted
<1>1. IInv => SessionsAccounted
  <2> SUFFICES ASSUME IInv, NEW f \in Session
               PROVE  Cardinality(Usable(f)) + Cardinality(Family(f) \cap loggedOut) <= 1 + overlaps[f]
    BY DEF SessionsAccounted
  <2>1. Usable(f) \subseteq Live(f)
    BY DEF Usable, Live
  <2>2. Cardinality(Usable(f)) \in Nat /\ Cardinality(Usable(f)) <= Cardinality(Live(f))
    BY <2>1, CountsFinite, CountFewer
  <2>3. /\ Cardinality(Live(f)) \in Nat /\ Cardinality(Family(f) \cap loggedOut) \in Nat
        /\ Cardinality(Live(f)) + Cardinality(Family(f) \cap loggedOut) <= 1 + overlaps[f]
        /\ overlaps[f] \in Nat
    BY CountsFinite DEF IInv, LiveAccounted, LoggedOut, TypeOK
  <2> QED BY <2>2, <2>3
<1> QED BY <1>1, IInvInvariant, PTL

=============================================================================
