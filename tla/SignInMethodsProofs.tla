------------------------- MODULE SignInMethodsProofs -------------------------
(***************************************************************************)
(* Nobody is locked out, for any users, accounts and concurrent requests;  *)
(* and authMethods is right for every user of whom no two requests held a  *)
(* copy at once.                                                           *)
(***************************************************************************)
EXTENDS SignInMethods, TLAPS

(* Passwords are never taken away, so one that authMethods names is there. *)
ListedPasswordIsSet ==
  \A u \in User : Exists(u) => ("password" \in users[u].methods => users[u].password)

(* A user a request has read is not a row yet to be created: it still has  *)
(* the password it was seen with, or is gone.                              *)
HadPassword(u) == users[u] # NoUser /\ (Exists(u) => users[u].password)

(* What a linking will write names a password only if there is one, and an *)
(* unlinking leaves a user with one.                                       *)
StaleReadsAreSafe ==
  \A r \in Request :
    /\ At(r, "writing") /\ "password" \in requests[r].methods => HadPassword(requests[r].user)
    /\ At(r, "unlinking") => HadPassword(requests[r].user)

(* The safety properties that are proved together.                         *)
Promises == NobodyLockedOut /\ ListedPasswordIsSet /\ StaleReadsAreSafe

(* Their inductive invariant.                                              *)
IInv == TypeOK /\ Promises

-----------------------------------------------------------------------------
(* What a request at each step holds.                                      *)
LEMMA RequestShapes ==
  ASSUME TypeOK, NEW r \in Request
  PROVE  /\ At(r, "accepting") =>
              requests[r] \in [step : {"accepting"}, state : State, data : StateData,
                               account : Account]
         /\ requests[r].step \in {"profiled", "unknown", "creating"} =>
              requests[r].tenant \in Context /\ requests[r].account \in Account
         /\ requests[r].step \in {"claiming", "linking"} =>
              requests[r].user \in User /\ requests[r].account \in Account
         /\ At(r, "writing") =>
              requests[r] \in [step : {"writing"}, user : User, account : Account,
                               methods : SUBSET Method]
         /\ requests[r].step \in {"unlinking", "hashing"} =>
              requests[r].user \in User /\ requests[r].methods \in SUBSET Method
  BY DEF TypeOK, RequestState, At, Idle

(* The states requests are put in are request states.                      *)
LEMMA RequestStates ==
  /\ Idle \in RequestState
  /\ \A s \in State, d \in StateData, a \in Account :
       [step |-> "accepting", state |-> s, data |-> d, account |-> a] \in RequestState
  /\ \A s \in {"profiled", "unknown", "creating"}, t \in Context, a \in Account :
       [step |-> s, tenant |-> t, account |-> a] \in RequestState
  /\ \A s \in {"claiming", "linking"}, u \in User, a \in Account :
       [step |-> s, user |-> u, account |-> a] \in RequestState
  /\ \A u \in User, a \in Account, m \in SUBSET Method :
       [step |-> "writing", user |-> u, account |-> a, methods |-> m] \in RequestState
  /\ \A s \in {"unlinking", "hashing"}, u \in User, m \in SUBSET Method :
       [step |-> s, user |-> u, methods |-> m] \in RequestState
  BY DEF RequestState

(* A request that moves moves alone.                                       *)
LEMMA GoTypeOK ==
  ASSUME NEW r \in Request, NEW q \in RequestState,
         requests \in [Request -> RequestState], Go(r, q)
  PROVE  /\ requests' \in [Request -> RequestState]
         /\ requests'[r] = q
         /\ \A p \in Request : p # r => requests'[p] = requests[p]
  BY DEF Go

(* A row that exists has the columns of one.                               *)
LEMMA RowShape ==
  ASSUME TypeOK, NEW u \in User, Exists(u)
  PROVE  users[u] \in UserRow
  BY DEF TypeOK, Exists

-----------------------------------------------------------------------------
(* Type correctness: what the tables, Redis and the handlers hold.         *)
THEOREM TypeCorrect == Spec => []TypeOK
<1>1. Init => TypeOK
  BY RequestStates DEF Init, TypeOK
<1>2. TypeOK /\ [Next]_vars => TypeOK'
  <2> SUFFICES ASSUME TypeOK, Step, contended' = contended \cup HeldByTwo' PROVE TypeOK'
    BY DEF Next, vars, TypeOK
  <2>0. contended' \subseteq User \cup State
    BY DEF TypeOK, HeldByTwo
  <2> USE RequestStates, <2>0
  <2>1. ASSUME NEW r \in Request, Handle(r) PROVE TypeOK'
    <3>1. ASSUME NEW s \in State, NEW a \in Account, ReadState(r, s, a) PROVE TypeOK'
      <4>1. states[s] \in StateData
        BY <3>1 DEF ReadState, TypeOK
      <4> QED BY <3>1, <4>1, GoTypeOK DEF ReadState, TypeOK
    <3>2. CASE AcceptState(r)
      <4> DEFINE q == requests[r]
                 n == IF q.data.user = NoUser
                      THEN [step |-> "profiled", tenant |-> q.data.tenant, account |-> q.account]
                      ELSE [step |-> "claiming", user |-> q.data.user, account |-> q.account]
      <4>1. q.state \in State /\ q.data \in StateData /\ q.account \in Account
        BY <3>2, RequestShapes DEF AcceptState
      <4>2. n \in RequestState
        BY <4>1 DEF StateData
      <4>3. Go(r, n)
        BY <3>2 DEF AcceptState
      <4>4. requests' \in [Request -> RequestState]
        BY <4>2, <4>3, GoTypeOK DEF TypeOK
      <4> QED BY <3>2, <4>1, <4>4 DEF AcceptState, TypeOK
    <3>3. CASE SignInOwner(r)
      BY <3>3, GoTypeOK DEF SignInOwner, Finish, TypeOK
    <3>4. CASE FindNoOwner(r)
      BY <3>4, GoTypeOK, RequestShapes DEF FindNoOwner, At, TypeOK
    <3>5. CASE FindNobody(r)
      BY <3>5, GoTypeOK, RequestShapes DEF FindNobody, At, TypeOK
    <3>6. CASE CheckUnclaimed(r)
      BY <3>6, GoTypeOK, RequestShapes DEF CheckUnclaimed, At, TypeOK
    <3>7. CASE ReadMethods(r)
      <4>1. requests[r].user \in User /\ requests[r].account \in Account
        BY <3>7, RequestShapes DEF ReadMethods, At
      <4>2. users[requests[r].user].methods \cup {"google"} \in SUBSET Method
        BY <3>7, <4>1, RowShape DEF ReadMethods, UserRow, Method
      <4> QED BY <3>7, <4>1, <4>2, GoTypeOK DEF ReadMethods, TypeOK
    <3>8. CASE WriteLinked(r)
      <4>1. requests[r] \in [step : {"writing"}, user : User, account : Account,
                             methods : SUBSET Method]
        BY <3>8, RequestShapes DEF WriteLinked
      <4>2. users' \in [User -> UserRow \cup {NoUser, Gone}]
        BY <3>8, <4>1, RowShape DEF WriteLinked, UserRow, TypeOK
      <4> QED BY <3>8, <4>2, GoTypeOK DEF WriteLinked, Finish, TypeOK
    <3>9. CASE WriteUnlinked(r)
      <4>1. requests[r].user \in User /\ requests[r].methods \in SUBSET Method
        BY <3>9, RequestShapes DEF WriteUnlinked, At
      <4>2. users' \in [User -> UserRow \cup {NoUser, Gone}]
        BY <3>9, <4>1, RowShape DEF WriteUnlinked, UserRow, TypeOK
      <4> QED BY <3>9, <4>2, GoTypeOK DEF WriteUnlinked, Finish, TypeOK
    <3>10. CASE WritePassword(r)
      <4>1. requests[r].user \in User /\ requests[r].methods \in SUBSET Method
        BY <3>10, RequestShapes DEF WritePassword, At
      <4> DEFINE q == requests[r]
                 row == [password |-> TRUE, google |-> users[q.user].google,
                         methods |-> q.methods]
      <4>2. row \in UserRow
        BY <3>10, <4>1, RowShape DEF WritePassword, UserRow
      <4>3. users' = [users EXCEPT ![q.user] = row]
        BY <3>10 DEF WritePassword
      <4>4. users' \in [User -> UserRow \cup {NoUser, Gone}]
        BY <4>2, <4>3 DEF TypeOK
      <4> QED BY <3>10, <4>4, GoTypeOK DEF WritePassword, Finish, TypeOK
    <3>11. ASSUME NEW u \in User, FindByEmail(r, u) PROVE TypeOK'
      BY <3>11, GoTypeOK, RequestShapes DEF FindByEmail, At, TypeOK
    <3>12. ASSUME NEW u \in User, CreateUserFromGoogle(r, u) PROVE TypeOK'
      <4>1. requests[r].account \in Account
        BY <3>12, RequestShapes DEF CreateUserFromGoogle, At
      <4>2. [password |-> FALSE, google |-> requests[r].account, methods |-> {"google"}] \in UserRow
        BY <4>1 DEF UserRow, Method
      <4> QED BY <3>12, <4>2, GoTypeOK DEF CreateUserFromGoogle, Finish, TypeOK
    <3>13. ASSUME NEW u \in User, ReadForUnlink(r, u) PROVE TypeOK'
      <4>1. users[u].methods \ {"google"} \in SUBSET Method
        BY <3>13, RowShape DEF ReadForUnlink, UserRow
      <4> QED BY <3>13, <4>1, GoTypeOK DEF ReadForUnlink, TypeOK
    <3>14. ASSUME NEW u \in User, ReadForPassword(r, u) PROVE TypeOK'
      <4>1. users[u].methods \cup {"password"} \in SUBSET Method
        BY <3>14, RowShape DEF ReadForPassword, UserRow, Method
      <4> QED BY <3>14, <4>1, GoTypeOK DEF ReadForPassword, TypeOK
    <3>15. CASE Fail(r)
      BY <3>15, GoTypeOK DEF Fail, Finish, TypeOK
    <3> QED BY <2>1, <3>1, <3>2, <3>3, <3>4, <3>5, <3>6, <3>7, <3>8, <3>9, <3>10, <3>11,
               <3>12, <3>13, <3>14, <3>15 DEF Handle
  <2>2. ASSUME NEW u \in User, CreateUserWithPassword(u) PROVE TypeOK'
    <3>1. [password |-> TRUE, google |-> Unlinked, methods |-> {"password"}] \in UserRow
      BY DEF UserRow, Method
    <3> QED BY <2>2, <3>1 DEF CreateUserWithPassword, TypeOK
  <2>3. ASSUME NEW u \in User, DeleteUser(u) PROVE TypeOK'
    BY <2>3 DEF DeleteUser, TypeOK
  <2>4. ASSUME NEW s \in State, ExpireState(s) PROVE TypeOK'
    BY <2>4 DEF ExpireState, TypeOK
  <2>5. ASSUME NEW s \in State, NEW data \in StateData, GenerateState(s, data) PROVE TypeOK'
    BY <2>5 DEF GenerateState, TypeOK
  <2> QED BY <2>1, <2>2, <2>3, <2>4, <2>5 DEF Step
<1> QED BY <1>1, <1>2, PTL DEF Spec

-----------------------------------------------------------------------------
(* Steps that leave the users alone keep the promises, as long as what the *)
(* request holds next does.                                                *)
LEMMA RequestStep ==
  ASSUME TypeOK, Promises, UNCHANGED users,
         NEW r \in Request, NEW q, Go(r, q),
         q.step = "writing" /\ "password" \in q.methods => HadPassword(q.user),
         q.step = "unlinking" => HadPassword(q.user)
  PROVE  Promises'
<1>1. /\ requests'[r] = q
      /\ \A p \in Request : p # r => requests'[p] = requests[p]
  BY DEF Go, TypeOK
<1>2. StaleReadsAreSafe'
  <2> SUFFICES ASSUME NEW p \in Request
               PROVE  /\ At(p, "writing")' /\ "password" \in requests'[p].methods
                            => HadPassword(requests[p].user)'
                      /\ At(p, "unlinking")' => HadPassword(requests[p].user)'
    BY DEF StaleReadsAreSafe
  <2>1. CASE p = r
    BY <1>1, <2>1 DEF At, HadPassword, Exists
  <2>2. CASE p # r
    BY <1>1, <2>2 DEF Promises, StaleReadsAreSafe, At, HadPassword, Exists
  <2> QED BY <2>1, <2>2
<1> QED BY <1>2 DEF Promises, NobodyLockedOut, ListedPasswordIsSet, Exists

(* A step that writes one row and ends its request.                        *)
LEMMA RowStep ==
  ASSUME TypeOK, Promises, NEW u \in User, NEW row \in UserRow,
         users' = [users EXCEPT ![u] = row],
         row.password \/ row.google # Unlinked,
         "password" \in row.methods => row.password,
         HadPassword(u) => row.password,
         \A p \in Request : requests'[p] \in {requests[p], Idle}
  PROVE  Promises'
<1>1. /\ users'[u] = row
      /\ \A w \in User : w # u => users'[w] = users[w]
  BY DEF TypeOK
<1>2. row \notin {NoUser, Gone}
  BY SignInMethodsAssumption
<1>3. \A w \in User : HadPassword(w) => HadPassword(w)'
  BY <1>1, <1>2 DEF HadPassword, Exists
<1>4. NobodyLockedOut'
  BY <1>1 DEF Promises, NobodyLockedOut, Exists
<1>5. ListedPasswordIsSet'
  BY <1>1 DEF Promises, ListedPasswordIsSet, Exists
<1>6. StaleReadsAreSafe'
  <2> SUFFICES ASSUME NEW p \in Request
               PROVE  /\ At(p, "writing")' /\ "password" \in requests'[p].methods
                            => HadPassword(requests[p].user)'
                      /\ At(p, "unlinking")' => HadPassword(requests[p].user)'
    BY DEF StaleReadsAreSafe
  <2>1. CASE requests'[p] = Idle
    BY <2>1 DEF At, Idle
  <2>2. CASE requests'[p] = requests[p]
    <3>1. At(p, "writing") \/ At(p, "unlinking") => requests[p].user \in User
      BY RequestShapes DEF At
    <3>2. ASSUME NEW w \in User, requests[p].user = w, HadPassword(w)
          PROVE  HadPassword(requests[p].user)'
      BY <1>3, <2>2, <3>2 DEF HadPassword, Exists
    <3> QED BY <2>2, <3>1, <3>2 DEF Promises, StaleReadsAreSafe, At
  <2> QED BY <2>1, <2>2
<1> QED BY <1>4, <1>5, <1>6 DEF Promises

-----------------------------------------------------------------------------
(* The promises are inductive: what a request read may be stale when it    *)
(* writes, but a password seen is a password still there.                  *)
THEOREM IInvInvariant == Spec => []IInv
<1>1. Init => Promises
  BY SignInMethodsAssumption
  DEF Init, Promises, NobodyLockedOut, ListedPasswordIsSet, StaleReadsAreSafe, Exists, At, Idle
<1>2. TypeOK /\ Promises /\ [Next]_vars => Promises'
  <2> SUFFICES ASSUME TypeOK, Promises, Step \/ UNCHANGED vars PROVE Promises'
    BY DEF Next
  <2>1. ASSUME NEW r \in Request, Handle(r) PROVE Promises'
    <3> DEFINE q == requests[r]
    <3>1. ASSUME NEW s \in State, NEW a \in Account, ReadState(r, s, a) PROVE Promises'
      BY <3>1, RequestStep DEF ReadState
    <3>2. CASE AcceptState(r)
      <4>1. PICK n : Go(r, n) /\ n.step \in {"profiled", "claiming"}
        BY <3>2 DEF AcceptState
      <4> QED BY <3>2, <4>1, RequestStep DEF AcceptState
    <3>3. CASE SignInOwner(r)
      BY <3>3, RequestStep DEF SignInOwner, Finish, Idle
    <3>4. CASE FindNoOwner(r)
      BY <3>4, RequestStep DEF FindNoOwner
    <3>5. CASE FindNobody(r)
      BY <3>5, RequestStep DEF FindNobody
    <3>6. CASE CheckUnclaimed(r)
      BY <3>6, RequestStep DEF CheckUnclaimed
    <3>7. CASE ReadMethods(r)
      <4>1. q.user \in User /\ Exists(q.user)
        BY <3>7, RequestShapes DEF ReadMethods, At
      <4>2. "password" \in users[q.user].methods => HadPassword(q.user)
        BY <4>1 DEF Promises, ListedPasswordIsSet, HadPassword, Exists
      <4> QED BY <3>7, <4>2, RequestStep DEF ReadMethods
    <3>8. CASE WriteLinked(r)
      <4> DEFINE row == [users[q.user] EXCEPT !.google = q.account, !.methods = q.methods]
      <4>1. requests[r] \in [step : {"writing"}, user : User, account : Account,
                             methods : SUBSET Method]
        BY <3>8, RequestShapes DEF WriteLinked
      <4>2. users[q.user] \in UserRow /\ Exists(q.user)
        BY <3>8, <4>1, RowShape DEF WriteLinked
      <4>3. /\ row \in UserRow
            /\ row.password = users[q.user].password
            /\ row.google = q.account /\ row.methods = q.methods
        BY <4>1, <4>2 DEF UserRow
      <4>4. "password" \in row.methods => row.password
        BY <3>8, <4>2, <4>3 DEF WriteLinked, Promises, StaleReadsAreSafe, HadPassword
      <4>5. \A p \in Request : requests'[p] \in {requests[p], Idle}
        BY <3>8 DEF WriteLinked, Finish, Go, TypeOK
      <4>6. users' = [users EXCEPT ![q.user] = row]
        BY <3>8 DEF WriteLinked
      <4>7. HadPassword(q.user) => row.password
        BY <4>2, <4>3 DEF HadPassword
      <4>8. row.google # Unlinked
        BY <4>1, <4>3, SignInMethodsAssumption
      <4> HIDE DEF row
      <4> QED BY <4>1, <4>3, <4>4, <4>5, <4>6, <4>7, <4>8, RowStep
    <3>9. CASE WriteUnlinked(r)
      <4> DEFINE row == [users[q.user] EXCEPT !.google = Unlinked, !.methods = q.methods]
      <4>1. q.user \in User /\ q.methods \in SUBSET Method
        BY <3>9, RequestShapes DEF WriteUnlinked, At
      <4>2. users[q.user] \in UserRow /\ Exists(q.user)
        BY <3>9, <4>1, RowShape DEF WriteUnlinked
      <4>3. row \in UserRow /\ row.password = users[q.user].password
        BY <4>1, <4>2 DEF UserRow
      <4>4. row.password
        BY <3>9, <4>2, <4>3 DEF WriteUnlinked, Promises, StaleReadsAreSafe, HadPassword
      <4>5. \A p \in Request : requests'[p] \in {requests[p], Idle}
        BY <3>9 DEF WriteUnlinked, Finish, Go, TypeOK
      <4>6. users' = [users EXCEPT ![q.user] = row]
        BY <3>9 DEF WriteUnlinked
      <4> HIDE DEF row
      <4> QED BY <4>1, <4>3, <4>4, <4>5, <4>6, RowStep
    <3>10. CASE WritePassword(r)
      <4> DEFINE row == [password |-> TRUE, google |-> users[q.user].google,
                         methods |-> q.methods]
      <4>1. q.user \in User /\ q.methods \in SUBSET Method
        BY <3>10, RequestShapes DEF WritePassword, At
      <4>2. row \in UserRow /\ row.password
        BY <3>10, <4>1, RowShape DEF WritePassword, UserRow
      <4>3. \A p \in Request : requests'[p] \in {requests[p], Idle}
        BY <3>10 DEF WritePassword, Finish, Go, TypeOK
      <4>4. users' = [users EXCEPT ![q.user] = row]
        BY <3>10 DEF WritePassword
      <4> HIDE DEF row
      <4> QED BY <4>1, <4>2, <4>3, <4>4, RowStep
    <3>11. ASSUME NEW u \in User, FindByEmail(r, u) PROVE Promises'
      BY <3>11, RequestStep DEF FindByEmail
    <3>12. ASSUME NEW u \in User, CreateUserFromGoogle(r, u) PROVE Promises'
      <4> DEFINE row == [password |-> FALSE, google |-> q.account, methods |-> {"google"}]
      <4>1. q.account \in Account /\ q.account # Unlinked
        BY <3>12, RequestShapes, SignInMethodsAssumption DEF CreateUserFromGoogle, At
      <4>2. /\ row \in UserRow
            /\ row.google # Unlinked /\ "password" \notin row.methods
        BY <4>1 DEF UserRow, Method
      <4>3. ~HadPassword(u)
        BY <3>12 DEF CreateUserFromGoogle, HadPassword
      <4>4. \A p \in Request : requests'[p] \in {requests[p], Idle}
        BY <3>12 DEF CreateUserFromGoogle, Finish, Go, TypeOK
      <4>5. users' = [users EXCEPT ![u] = row]
        BY <3>12 DEF CreateUserFromGoogle
      <4> HIDE DEF row
      <4> QED BY <4>2, <4>3, <4>4, <4>5, RowStep
    <3>13. ASSUME NEW u \in User, ReadForUnlink(r, u) PROVE Promises'
      <4>1. Exists(u) /\ users[u] \in UserRow
        BY <3>13, RowShape DEF ReadForUnlink
      <4>2. "password" \in users[u].methods
        BY <3>13, <4>1 DEF ReadForUnlink, UserRow, Method
      <4>3. HadPassword(u)
        BY <4>1, <4>2 DEF Promises, ListedPasswordIsSet, HadPassword, Exists
      <4> QED BY <3>13, <4>3, RequestStep DEF ReadForUnlink
    <3>14. ASSUME NEW u \in User, ReadForPassword(r, u) PROVE Promises'
      BY <3>14, RequestStep DEF ReadForPassword
    <3>15. CASE Fail(r)
      BY <3>15, RequestStep DEF Fail, Finish, Idle
    <3> QED BY <2>1, <3>1, <3>2, <3>3, <3>4, <3>5, <3>6, <3>7, <3>8, <3>9, <3>10, <3>11,
               <3>12, <3>13, <3>14, <3>15 DEF Handle
  <2>2. ASSUME NEW u \in User, CreateUserWithPassword(u) PROVE Promises'
    <3> DEFINE row == [password |-> TRUE, google |-> Unlinked, methods |-> {"password"}]
    <3>1. row \in UserRow /\ row.password
      BY DEF UserRow, Method
    <3>2. \A p \in Request : requests'[p] \in {requests[p], Idle}
      BY <2>2 DEF CreateUserWithPassword
    <3>3. users' = [users EXCEPT ![u] = row]
      BY <2>2 DEF CreateUserWithPassword
    <3> HIDE DEF row
    <3> QED BY <3>1, <3>2, <3>3, RowStep
  <2>3. ASSUME NEW u \in User, DeleteUser(u) PROVE Promises'
    <3>1. /\ users'[u] = Gone
          /\ \A w \in User : w # u => users'[w] = users[w]
          /\ requests' = requests
      BY <2>3 DEF DeleteUser, TypeOK
    <3>2. NobodyLockedOut' /\ ListedPasswordIsSet'
      BY <3>1 DEF Promises, NobodyLockedOut, ListedPasswordIsSet, Exists
    <3>3. \A w \in User : HadPassword(w) => HadPassword(w)'
      BY <3>1, SignInMethodsAssumption DEF HadPassword, Exists
    <3>4. \A p \in Request : At(p, "writing") \/ At(p, "unlinking") => requests[p].user \in User
      BY RequestShapes DEF At
    <3>5. StaleReadsAreSafe'
      BY <3>1, <3>3, <3>4 DEF Promises, StaleReadsAreSafe, At, HadPassword, Exists
    <3> QED BY <3>2, <3>5 DEF Promises
  <2>4. ASSUME NEW s \in State, ExpireState(s) PROVE Promises'
    BY <2>4 DEF ExpireState, Promises, NobodyLockedOut, ListedPasswordIsSet,
                StaleReadsAreSafe, HadPassword, Exists, At
  <2>5. ASSUME NEW s \in State, NEW data \in StateData, GenerateState(s, data) PROVE Promises'
    BY <2>5 DEF GenerateState, Promises, NobodyLockedOut, ListedPasswordIsSet,
                StaleReadsAreSafe, HadPassword, Exists, At
  <2>6. CASE UNCHANGED vars
    BY <2>6 DEF vars, Promises, NobodyLockedOut, ListedPasswordIsSet,
                StaleReadsAreSafe, HadPassword, Exists, At
  <2> QED BY <2>1, <2>2, <2>3, <2>4, <2>5, <2>6 DEF Step
<1> QED BY <1>1, <1>2, TypeCorrect, PTL DEF Spec, IInv

(* unlinkGoogleAccount, whatever it races with, never takes a user's last  *)
(* way to sign in.                                                         *)
THEOREM NobodyLockedOutHolds == Spec => []NobodyLockedOut
<1>1. IInv => NobodyLockedOut
  BY DEF IInv, Promises
<1> QED BY <1>1, IInvInvariant, PTL

-----------------------------------------------------------------------------
(* One copy at a time *)

(* Requests that will write back the list of methods they read.            *)
Copying == {"writing", "unlinking", "hashing"}

(* What a request read and will write back is what the row holds.          *)
FreshCopy(q) ==
  /\ users[q.user] # NoUser
  /\ Exists(q.user) =>
       /\ q.step = "writing" => q.methods = users[q.user].methods \cup {"google"}
       /\ q.step = "unlinking" => q.methods = users[q.user].methods \ {"google"}
       /\ q.step = "hashing" => q.methods = users[q.user].methods \cup {"password"}

(* What such a request read is still the list, unless contended.           *)
FreshReads ==
  \A r \in Request :
    requests[r].step \in Copying /\ requests[r].user \notin contended
      => FreshCopy(requests[r])

(* Two requests with a copy of one list make it contended.                 *)
OneCopy ==
  \A r, p \in Request :
    /\ r # p
    /\ requests[r].step \in Copying /\ requests[p].step \in Copying
    /\ requests[r].user = requests[p].user
    => requests[r].user \in contended

(* The invariant behind the agreement of list and methods.                 *)
Settled == UncontendedMethodsMatch /\ FreshReads /\ OneCopy

(* What every step does for the history.                                   *)
LEMMA HistoryStep ==
  ASSUME TypeOK', contended' = contended \cup HeldByTwo'
  PROVE  OneCopy' /\ contended \subseteq contended'
<1>1. \A r \in Request : requests'[r].step \in Copying => requests'[r].user \in User
  BY DEF TypeOK, RequestState, Idle, Copying
<1>2. ASSUME NEW r \in Request, NEW p \in Request, r # p,
             requests'[r].step \in Copying, requests'[p].step \in Copying,
             requests'[r].user = requests'[p].user
      PROVE  requests'[r].user \in HeldByTwo'
  BY <1>1, <1>2 DEF HeldByTwo, Holders, Copying
<1> QED BY <1>2 DEF OneCopy

(* A step that writes one row, of which no other request holds a copy.     *)
LEMMA MatchingRowStep ==
  ASSUME TypeOK, TypeOK', Settled, contended' = contended \cup HeldByTwo',
         NEW u \in User, NEW row, users' = [users EXCEPT ![u] = row],
         u \notin contended => Matches(row),
         NEW r \in Request, Finish(r),
         \A p \in Request \ {r} : requests[p].step \in Copying /\ requests[p].user = u
                                    => u \in contended
  PROVE  Settled'
<1>1. /\ users'[u] = row
      /\ \A w \in User : w # u => users'[w] = users[w]
  BY DEF TypeOK
<1>2. UncontendedMethodsMatch'
  BY <1>1, HistoryStep DEF Settled, UncontendedMethodsMatch, Exists
<1>3. FreshReads'
  <2> SUFFICES ASSUME NEW p \in Request,
                      requests'[p].step \in Copying, requests'[p].user \notin contended'
               PROVE  FreshCopy(requests[p])'
    BY DEF FreshReads
  <2>1. p # r /\ requests'[p] = requests[p]
    BY DEF Finish, Go, Idle, Copying, TypeOK
  <2>2. requests[p].user \in User /\ requests[p].user \notin contended
    BY <2>1, RequestShapes, HistoryStep DEF Copying, At
  <2>3. requests[p].user # u
    BY <2>1, <2>2
  <2>4. FreshCopy(requests[p])
    BY <2>1, <2>2 DEF Settled, FreshReads
  <2> QED BY <1>1, <2>1, <2>2, <2>3, <2>4 DEF FreshCopy, Exists
<1> QED BY <1>2, <1>3, HistoryStep DEF Settled

(* A step of a request that leaves the users alone: it reads a row now, or *)
(* holds no copy afterwards.                                               *)
LEMMA ReadingStep ==
  ASSUME TypeOK, TypeOK', Settled, contended' = contended \cup HeldByTwo',
         UNCHANGED users, NEW r \in Request, NEW q, Go(r, q),
         q.step \in Copying => FreshCopy(q)
  PROVE  Settled'
<1>1. /\ requests'[r] = q
      /\ \A p \in Request : p # r => requests'[p] = requests[p]
  BY DEF Go, TypeOK
<1>2. UncontendedMethodsMatch'
  BY HistoryStep DEF Settled, UncontendedMethodsMatch, Exists
<1>3. FreshReads'
  <2> SUFFICES ASSUME NEW p \in Request,
                      requests'[p].step \in Copying, requests'[p].user \notin contended'
               PROVE  FreshCopy(requests[p])'
    BY DEF FreshReads
  <2>1. CASE p = r
    BY <1>1, <2>1 DEF FreshCopy, Exists
  <2>2. CASE p # r
    <3>1. FreshCopy(requests[p])
      BY <1>1, <2>2, HistoryStep DEF Settled, FreshReads
    <3> QED BY <1>1, <2>2, <3>1 DEF FreshCopy, Exists
  <2> QED BY <2>1, <2>2
<1> QED BY <1>2, <1>3, HistoryStep DEF Settled

(* A request that holds a copy of an uncontended row holds the only one,   *)
(* and a fresh one.                                                        *)
LEMMA CopyHeld ==
  ASSUME TypeOK, Settled, NEW r \in Request, requests[r].step \in Copying
  PROVE  /\ requests[r].user \notin contended => FreshCopy(requests[r])
         /\ \A p \in Request \ {r} :
              requests[p].step \in Copying /\ requests[p].user = requests[r].user
                => requests[r].user \in contended
  BY DEF Settled, FreshReads, OneCopy

(* setPassword, resetPasswordWithOtp, linking and unlinking keep a user's  *)
(* authMethods right, however they fail and whatever they do to others, as *)
(* long as no two of them hold a copy of that user's row at once.          *)
THEOREM UncontendedMethodsMatchHolds == Spec => []UncontendedMethodsMatch
<1>1. Init => Settled
  BY DEF Init, Settled, UncontendedMethodsMatch, FreshReads, OneCopy, Copying, Exists, Idle
<1>2. TypeOK /\ TypeOK' /\ Settled /\ [Next]_vars => Settled'
  <2> SUFFICES ASSUME TypeOK, TypeOK', Settled,
                      \/ Step /\ contended' = contended \cup HeldByTwo'
                      \/ UNCHANGED vars
               PROVE  Settled'
    BY DEF Next
  <2>1. CASE UNCHANGED vars
    BY <2>1 DEF vars, Settled, UncontendedMethodsMatch, FreshReads, FreshCopy, OneCopy, Exists
  <2>2. CASE Step /\ contended' = contended \cup HeldByTwo'
    <3>0. contended' = contended \cup HeldByTwo'
      BY <2>2
    <3> USE <3>0
    <3>1. ASSUME NEW r \in Request, Handle(r) PROVE Settled'
      <4> DEFINE q == requests[r]
      <4>1. ASSUME NEW s \in State, NEW a \in Account, ReadState(r, s, a) PROVE Settled'
        BY <4>1, ReadingStep DEF ReadState, Copying
      <4>2. CASE AcceptState(r)
        <5>1. PICK n : Go(r, n) /\ n.step \in {"profiled", "claiming"}
          BY <4>2 DEF AcceptState
        <5> QED BY <4>2, <5>1, ReadingStep DEF AcceptState, Copying
      <4>3. CASE SignInOwner(r)
        BY <4>3, ReadingStep DEF SignInOwner, Finish, Idle, Copying
      <4>4. CASE FindNoOwner(r)
        BY <4>4, ReadingStep DEF FindNoOwner, Copying
      <4>5. CASE FindNobody(r)
        BY <4>5, ReadingStep DEF FindNobody, Copying
      <4>6. CASE CheckUnclaimed(r)
        BY <4>6, ReadingStep DEF CheckUnclaimed, Copying
      <4>7. CASE ReadMethods(r)
        <5> DEFINE n == [step |-> "writing", user |-> q.user, account |-> q.account,
                         methods |-> users[q.user].methods \cup {"google"}]
        <5>1. UNCHANGED users /\ Go(r, n) /\ Exists(q.user)
          BY <4>7 DEF ReadMethods
        <5>2. FreshCopy(n)
          BY <5>1 DEF FreshCopy, Exists
        <5> HIDE DEF n
        <5> QED BY <5>1, <5>2, ReadingStep
      <4>8. CASE WriteLinked(r)
        <5> DEFINE row == [users[q.user] EXCEPT !.google = q.account, !.methods = q.methods]
        <5>0. q.step = "writing" /\ q.step \in Copying
          BY <4>8 DEF WriteLinked, At, Copying
        <5>1. q.user \in User /\ q.account \in Account /\ q.methods \in SUBSET Method
          BY <4>8, RequestShapes DEF WriteLinked
        <5>2. users[q.user] \in UserRow /\ Exists(q.user)
          BY <4>8, <5>1, RowShape DEF WriteLinked
        <5>3. /\ row.password = users[q.user].password
              /\ row.google = q.account /\ row.methods = q.methods
          BY <5>1, <5>2 DEF UserRow
        <5>4. ASSUME q.user \notin contended PROVE Matches(row)
          <6>1. q.methods = users[q.user].methods \cup {"google"}
            BY <5>0, <5>2, <5>4, CopyHeld DEF FreshCopy
          <6>2. Matches(users[q.user])
            BY <5>1, <5>2, <5>4 DEF Settled, UncontendedMethodsMatch
          <6>3. "password" \in row.methods <=> row.password
            BY <5>3, <6>1, <6>2 DEF Matches
          <6>4. "google" \in row.methods <=> row.google # Unlinked
            BY <5>1, <5>3, <6>1, SignInMethodsAssumption
          <6> QED BY <6>3, <6>4 DEF Matches
        <5>5. users' = [users EXCEPT ![q.user] = row] /\ Finish(r)
          BY <4>8 DEF WriteLinked
        <5> HIDE DEF row
        <5> QED BY <5>1, <5>4, <5>5, <5>0, CopyHeld, MatchingRowStep
      <4>9. CASE WriteUnlinked(r)
        <5> DEFINE row == [users[q.user] EXCEPT !.google = Unlinked, !.methods = q.methods]
        <5>0. q.step = "unlinking" /\ q.step \in Copying
          BY <4>9 DEF WriteUnlinked, At, Copying
        <5>1. q.user \in User /\ q.methods \in SUBSET Method
          BY <4>9, RequestShapes DEF WriteUnlinked, At
        <5>2. users[q.user] \in UserRow /\ Exists(q.user)
          BY <4>9, <5>1, RowShape DEF WriteUnlinked
        <5>3. /\ row.password = users[q.user].password
              /\ row.google = Unlinked /\ row.methods = q.methods
          BY <5>1, <5>2 DEF UserRow
        <5>4. ASSUME q.user \notin contended PROVE Matches(row)
          <6>1. q.methods = users[q.user].methods \ {"google"}
            BY <5>0, <5>2, <5>4, CopyHeld DEF FreshCopy
          <6>2. Matches(users[q.user])
            BY <5>1, <5>2, <5>4 DEF Settled, UncontendedMethodsMatch
          <6>3. "password" \in row.methods <=> row.password
            BY <5>3, <6>1, <6>2 DEF Matches
          <6>4. "google" \in row.methods <=> row.google # Unlinked
            BY <5>3, <6>1
          <6> QED BY <6>3, <6>4 DEF Matches
        <5>5. users' = [users EXCEPT ![q.user] = row] /\ Finish(r)
          BY <4>9 DEF WriteUnlinked
        <5> HIDE DEF row
        <5> QED BY <5>1, <5>4, <5>5, <5>0, CopyHeld, MatchingRowStep
      <4>10. CASE WritePassword(r)
        <5> DEFINE row == [password |-> TRUE, google |-> users[q.user].google,
                         methods |-> q.methods]
        <5>0. q.step = "hashing" /\ q.step \in Copying
          BY <4>10 DEF WritePassword, At, Copying
        <5>1. q.user \in User /\ q.methods \in SUBSET Method
          BY <4>10, RequestShapes DEF WritePassword, At
        <5>2. users[q.user] \in UserRow /\ Exists(q.user)
          BY <4>10, <5>1, RowShape DEF WritePassword
        <5>4. ASSUME q.user \notin contended PROVE Matches(row)
          <6>1. q.methods = users[q.user].methods \cup {"password"}
            BY <5>0, <5>2, <5>4, CopyHeld DEF FreshCopy
          <6>2. Matches(users[q.user])
            BY <5>1, <5>2, <5>4 DEF Settled, UncontendedMethodsMatch
          <6>3. "password" \in row.methods <=> row.password
            BY <6>1
          <6>4. "google" \in row.methods <=> row.google # Unlinked
            BY <6>1, <6>2 DEF Matches
          <6> QED BY <6>3, <6>4 DEF Matches
        <5>5. users' = [users EXCEPT ![q.user] = row] /\ Finish(r)
          BY <4>10 DEF WritePassword
        <5> HIDE DEF row
        <5> QED BY <5>1, <5>4, <5>5, <5>0, CopyHeld, MatchingRowStep
      <4>11. ASSUME NEW u \in User, FindByEmail(r, u) PROVE Settled'
        BY <4>11, ReadingStep DEF FindByEmail, Copying
      <4>12. ASSUME NEW u \in User, CreateUserFromGoogle(r, u) PROVE Settled'
        <5> DEFINE row == [password |-> FALSE, google |-> q.account, methods |-> {"google"}]
        <5>1. q.account # Unlinked
          BY <4>12, RequestShapes, SignInMethodsAssumption DEF CreateUserFromGoogle, At
        <5>2. Matches(row)
          BY <5>1 DEF Matches
        <5>3. users' = [users EXCEPT ![u] = row] /\ Finish(r) /\ users[u] = NoUser
          BY <4>12 DEF CreateUserFromGoogle
        <5>4. \A p \in Request \ {r} :
                requests[p].step \in Copying /\ requests[p].user = u => u \in contended
          BY <5>3 DEF Settled, FreshReads, FreshCopy
        <5> HIDE DEF row
        <5> QED BY <5>2, <5>3, <5>4, MatchingRowStep
      <4>13. ASSUME NEW u \in User, ReadForUnlink(r, u) PROVE Settled'
        <5> DEFINE n == [step |-> "unlinking", user |-> u, methods |-> users[u].methods \ {"google"}]
        <5>1. UNCHANGED users /\ Go(r, n) /\ Exists(u)
          BY <4>13 DEF ReadForUnlink
        <5>2. FreshCopy(n)
          BY <5>1 DEF FreshCopy, Exists
        <5> HIDE DEF n
        <5> QED BY <5>1, <5>2, ReadingStep
      <4>14. ASSUME NEW u \in User, ReadForPassword(r, u) PROVE Settled'
        <5> DEFINE n == [step |-> "hashing", user |-> u, methods |-> users[u].methods \cup {"password"}]
        <5>1. UNCHANGED users /\ Go(r, n) /\ Exists(u)
          BY <4>14 DEF ReadForPassword
        <5>2. FreshCopy(n)
          BY <5>1 DEF FreshCopy, Exists
        <5> HIDE DEF n
        <5> QED BY <5>1, <5>2, ReadingStep
      <4>15. CASE Fail(r)
        BY <4>15, ReadingStep DEF Fail, Finish, Idle, Copying
      <4> QED BY <3>1, <4>1, <4>2, <4>3, <4>4, <4>5, <4>6, <4>7, <4>8, <4>9, <4>10, <4>11,
                 <4>12, <4>13, <4>14, <4>15 DEF Handle
    <3>2. ASSUME NEW u \in User, CreateUserWithPassword(u) PROVE Settled'
      <4> DEFINE row == [password |-> TRUE, google |-> Unlinked, methods |-> {"password"}]
      <4>1. Matches(row)
        BY DEF Matches
      <4>2. /\ users[u] = NoUser /\ users'[u] = row
            /\ \A w \in User : w # u => users'[w] = users[w]
            /\ requests' = requests
        BY <3>2 DEF CreateUserWithPassword, TypeOK
      <4> HIDE DEF row
      <4>3. UncontendedMethodsMatch'
        BY <4>1, <4>2, HistoryStep DEF Settled, UncontendedMethodsMatch, Exists
      <4>4. \A p \in Request : requests[p].step \in Copying =>
              requests[p].user \in User /\ (requests[p].user = u => u \in contended)
        BY <4>2, RequestShapes DEF Settled, FreshReads, FreshCopy, At, Copying
      <4>5. FreshReads'
        BY <4>2, <4>4, HistoryStep DEF Settled, FreshReads, FreshCopy, Exists
      <4> QED BY <4>3, <4>5, HistoryStep DEF Settled
    <3>3. ASSUME NEW u \in User, DeleteUser(u) PROVE Settled'
      <4>1. /\ users'[u] = Gone
            /\ \A w \in User : w # u => users'[w] = users[w]
            /\ requests' = requests
        BY <3>3 DEF DeleteUser, TypeOK
      <4>2. UncontendedMethodsMatch'
        BY <4>1, HistoryStep DEF Settled, UncontendedMethodsMatch, Exists
      <4>3. \A p \in Request : requests[p].step \in Copying => requests[p].user \in User
        BY RequestShapes DEF At, Copying
      <4>4. FreshReads'
        BY <4>1, <4>3, HistoryStep, SignInMethodsAssumption
        DEF Settled, FreshReads, FreshCopy, Exists
      <4> QED BY <4>2, <4>4, HistoryStep DEF Settled
    <3>4. ASSUME NEW s \in State, ExpireState(s) PROVE Settled'
      BY <3>4, HistoryStep
      DEF ExpireState, Settled, UncontendedMethodsMatch, FreshReads, FreshCopy, Exists
    <3>5. ASSUME NEW s \in State, NEW data \in StateData, GenerateState(s, data) PROVE Settled'
      BY <3>5, HistoryStep
      DEF GenerateState, Settled, UncontendedMethodsMatch, FreshReads, FreshCopy, Exists
    <3> QED BY <2>2, <3>1, <3>2, <3>3, <3>4, <3>5 DEF Step
  <2> QED BY <2>1, <2>2
<1>3. Settled => UncontendedMethodsMatch
  BY DEF Settled
<1> QED BY <1>1, <1>2, <1>3, TypeCorrect, PTL DEF Spec

-----------------------------------------------------------------------------
(* One callback at a time *)

(* Request r presents state s.                                             *)
Accepting(r, s) == At(r, "accepting") /\ requests[r].state = s

(* An accepted state is gone from Redis and from every callback's hands.   *)
SpentIsGone ==
  \A s \in State \ contended :
    /\ accepted[s] \in {0, 1}
    /\ accepted[s] = 1 => states[s] = NoState /\ \A r \in Request : ~Accepting(r, s)

(* Two requests that read one state make it contended.                     *)
OneReader ==
  \A s \in State \ contended : \A r, p \in Request : Accepting(r, s) /\ Accepting(p, s) => r = p

(* The invariant behind a state being used once.                           *)
OneTime == SpentIsGone /\ OneReader

(* Contention is recorded as it arises.                                    *)
LEMMA ReaderStep ==
  ASSUME contended' = contended \cup HeldByTwo'
  PROVE  OneReader' /\ contended \subseteq contended'
<1>1. ASSUME NEW s \in State, NEW r \in Request, NEW p \in Request, r # p,
             Accepting(r, s)', Accepting(p, s)'
      PROVE  s \in HeldByTwo'
  BY <1>1 DEF HeldByTwo, Holders, Accepting
<1> QED BY <1>1 DEF OneReader

(* A step that accepts nothing, stores nothing and lets nobody read a state.*)
LEMMA QuietStep ==
  ASSUME OneTime, contended' = contended \cup HeldByTwo',
         UNCHANGED accepted,
         \A s \in State : states'[s] \in {states[s], NoState},
         \A p \in Request, s \in State : Accepting(p, s)' => Accepting(p, s)
  PROVE  OneTime'
  BY ReaderStep DEF OneTime, SpentIsGone

(* A state that no two callbacks read before either deleted it is accepted *)
(* at most once, whatever expires or fails in between.                     *)
THEOREM UncontendedStateUsedOnceHolds == Spec => []UncontendedStateUsedOnce
<1>1. Init => OneTime
  BY DEF Init, OneTime, SpentIsGone, OneReader, Accepting, At, Idle
<1>2. TypeOK /\ TypeOK' /\ OneTime /\ [Next]_vars => OneTime'
  <2> SUFFICES ASSUME TypeOK, TypeOK', OneTime,
                      \/ Step /\ contended' = contended \cup HeldByTwo'
                      \/ UNCHANGED vars
               PROVE  OneTime'
    BY DEF Next
  <2>1. CASE UNCHANGED vars
    BY <2>1 DEF vars, OneTime, SpentIsGone, OneReader, Accepting, At
  <2>2. CASE Step /\ contended' = contended \cup HeldByTwo'
    <3>0. contended' = contended \cup HeldByTwo'
      BY <2>2
    <3>1. ASSUME NEW r \in Request, NEW q, Go(r, q), q.step # "accepting",
                 UNCHANGED <<states, accepted>>
          PROVE  OneTime'
      <4>1. \A p \in Request : requests'[p] = IF p = r THEN q ELSE requests[p]
        BY <3>1 DEF Go, TypeOK
      <4>2. \A p \in Request, s \in State : Accepting(p, s)' => Accepting(p, s)
        BY <3>1, <4>1 DEF Accepting, At
      <4> QED BY <3>0, <3>1, <4>2, QuietStep
    <3>2. ASSUME NEW r \in Request, NEW s \in State, NEW a \in Account, ReadState(r, s, a)
          PROVE  OneTime'
      <4> DEFINE n == [step |-> "accepting", state |-> s, data |-> states[s], account |-> a]
      <4>1. /\ states[s] # NoState /\ UNCHANGED <<states, accepted>>
            /\ \A p \in Request : requests'[p] = IF p = r THEN n ELSE requests[p]
        BY <3>2 DEF ReadState, Go, TypeOK
      <4>2. \A p \in Request, t \in State : t # s /\ Accepting(p, t)' => Accepting(p, t)
        BY <4>1 DEF Accepting, At
      <4>3. SpentIsGone'
        BY <3>0, <4>1, <4>2, ReaderStep DEF OneTime, SpentIsGone
      <4> QED BY <3>0, <4>3, ReaderStep DEF OneTime
    <3>3. ASSUME NEW r \in Request, AcceptState(r) PROVE OneTime'
      <4> DEFINE t == requests[r].state
      <4>1. t \in State /\ Accepting(r, t)
        BY <3>3, RequestShapes DEF AcceptState, Accepting
      <4>2. PICK n : Go(r, n) /\ n.step \in {"profiled", "claiming"}
        BY <3>3 DEF AcceptState
      <4>3. \A p \in Request : requests'[p] = IF p = r THEN n ELSE requests[p]
        BY <4>2 DEF Go, TypeOK
      <4>4. \A p \in Request, s \in State :
              Accepting(p, s)' => p # r /\ Accepting(p, s)
        BY <4>2, <4>3 DEF Accepting, At
      <4>5. /\ states'[t] = NoState /\ accepted'[t] = accepted[t] + 1
            /\ \A s \in State \ {t} : states'[s] = states[s] /\ accepted'[s] = accepted[s]
        BY <3>3, <4>1 DEF AcceptState, TypeOK
      <4>6. ASSUME NEW s \in State \ contended'
            PROVE  /\ accepted'[s] \in {0, 1}
                   /\ accepted'[s] = 1 =>
                        states'[s] = NoState /\ \A p \in Request : ~Accepting(p, s)'
        <5>1. s \notin contended
          BY <3>0, <4>6
        <5>2. CASE s = t
          <6>1. accepted[s] = 0
            BY <4>1, <5>1, <5>2 DEF OneTime, SpentIsGone
          <6>2. \A p \in Request : ~Accepting(p, s)'
            BY <4>1, <4>4, <5>1, <5>2 DEF OneTime, OneReader
          <6> QED BY <4>5, <5>2, <6>1, <6>2
        <5>3. CASE s # t
          BY <4>4, <4>5, <5>1, <5>3 DEF OneTime, SpentIsGone
        <5> QED BY <5>2, <5>3
      <4> QED BY <3>0, <4>6, ReaderStep DEF OneTime, SpentIsGone
    <3>4. ASSUME NEW s \in State, ExpireState(s) PROVE OneTime'
      <4>1. /\ UNCHANGED accepted /\ \A t \in State : states'[t] \in {states[t], NoState}
            /\ \A p \in Request, t \in State : Accepting(p, t)' => Accepting(p, t)
        BY <3>4 DEF ExpireState, TypeOK, Accepting, At
      <4> QED BY <3>0, <4>1, QuietStep
    <3>5. ASSUME NEW s \in State, NEW data \in StateData, GenerateState(s, data) PROVE OneTime'
      <4>1. /\ accepted[s] = 0 /\ UNCHANGED accepted
            /\ \A t \in State : t # s => states'[t] = states[t]
            /\ \A p \in Request, t \in State : Accepting(p, t)' => Accepting(p, t)
        BY <3>5 DEF GenerateState, TypeOK, Accepting, At
      <4>2. SpentIsGone'
        BY <3>0, <4>1, ReaderStep DEF OneTime, SpentIsGone
      <4> QED BY <3>0, <4>2, ReaderStep DEF OneTime
    <3>6. ASSUME NEW u \in User, CreateUserWithPassword(u) \/ DeleteUser(u) PROVE OneTime'
      BY <3>0, <3>6, QuietStep DEF CreateUserWithPassword, DeleteUser, Accepting, At
    <3>7. ASSUME NEW r \in Request, Handle(r) PROVE OneTime'
      <4>1. ASSUME NEW u \in User,
                   FindByEmail(r, u) \/ CreateUserFromGoogle(r, u) \/ ReadForUnlink(r, u)
                     \/ ReadForPassword(r, u)
            PROVE  OneTime'
        BY <3>1, <4>1
        DEF FindByEmail, CreateUserFromGoogle, ReadForUnlink, ReadForPassword, Finish, Idle
      <4>2. CASE SignInOwner(r) \/ WriteLinked(r) \/ WriteUnlinked(r) \/ WritePassword(r) \/ Fail(r)
        BY <3>1, <4>2
        DEF SignInOwner, WriteLinked, WriteUnlinked, WritePassword, Fail, Finish, Idle
      <4>3. CASE FindNoOwner(r) \/ FindNobody(r) \/ CheckUnclaimed(r) \/ ReadMethods(r)
        BY <3>1, <4>3 DEF FindNoOwner, FindNobody, CheckUnclaimed, ReadMethods
      <4> QED BY <3>2, <3>3, <3>7, <4>1, <4>2, <4>3 DEF Handle
    <3> QED BY <2>2, <3>4, <3>5, <3>6, <3>7 DEF Step
  <2> QED BY <2>1, <2>2
<1>3. OneTime => UncontendedStateUsedOnce
  BY DEF OneTime, SpentIsGone, UncontendedStateUsedOnce
<1> QED BY <1>1, <1>2, <1>3, TypeCorrect, PTL DEF Spec

=============================================================================
