---------------------------- MODULE EmailOtpProofs ----------------------------
(***************************************************************************)
(* Safety of EmailOtp for any users, codes, limits and concurrent requests;*)
(* and of AuditTrail, which the OTP service logs to, for any events, rows, *)
(* limits and periods of retention.                                        *)
(***************************************************************************)
EXTENDS EmailOtp, AuditTrail, Integers, FiniteSetTheorems, TLAPS

(* A count in hand was read below the limit, however old it is.            *)
CountsBelowLimit ==
  \A r \in Request : At(r, "counting") => requests[r].count < MaxRequests

(* A reset about to remove its OTP has verified the user, and one about to *)
(* change the password has removed the OTP.                                *)
ResetInOrder ==
  \A r \in Request :
    /\ At(r, "consuming") => verified[requests[r].user]
    /\ At(r, "changing") =>
         /\ verified[requests[r].user]
         /\ requests[r].nr \in consumed[requests[r].user]

(* What the inductive invariant adds to the types.                         *)
Promises ==
  /\ LimitNeverPassed
  /\ CountsBelowLimit
  /\ ResetFollowsVerification
  /\ ResetInOrder

(* The inductive invariant that needs no bound on the requests.            *)
IInv == TypeOK /\ Promises

-----------------------------------------------------------------------------
(* What a request at each step holds.                                      *)
LEMMA RequestShapes ==
  ASSUME TypeOK, NEW r \in Request
  PROVE  /\ requests[r].step \in {"resending", "clearing", "cleared", "storing", "locking"} =>
              /\ requests[r].user \in User
              /\ requests[r] = [step |-> requests[r].step, user |-> requests[r].user]
         /\ At(r, "counting") =>
              requests[r] \in [step : {"counting"}, user : User, count : Nat]
         /\ At(r, "guessing") =>
              requests[r] \in [step : {"guessing"}, user : User, nr : Serial]
         /\ At(r, "counted") \/ At(r, "writing") =>
              requests[r] \in [step : {"counted", "writing"}, user : User, nr : Serial,
                               record : OtpRecord]
         /\ At(r, "marking") =>
              requests[r] \in [step : {"marking"}, user : User, otp : OtpRecord,
                               reset : BOOLEAN]
         /\ At(r, "consuming") =>
              requests[r] \in [step : {"consuming"}, user : User, nr : Serial, reset : BOOLEAN]
         /\ At(r, "changing") =>
              requests[r] \in [step : {"changing"}, user : User, nr : Serial]
  BY DEF TypeOK, RequestState, At, Idle

(* A request that moves moves alone.                                       *)
LEMMA GoTypeOK ==
  ASSUME NEW r \in Request, NEW q \in RequestState,
         requests \in [Request -> RequestState], overlapped \in [User -> BOOLEAN], Go(r, q)
  PROVE  /\ requests' \in [Request -> RequestState]
         /\ overlapped' \in [User -> BOOLEAN]
         /\ requests'[r] = q
         /\ \A s \in Request : s # r => requests'[s] = requests[s]
  BY DEF Go

(* The states requests are put in are request states.                      *)
LEMMA RequestStates ==
  /\ Idle \in RequestState
  /\ \A s \in {"resending", "clearing", "cleared", "storing", "locking"}, u \in User :
       [step |-> s, user |-> u] \in RequestState
  /\ \A u \in User, c \in Nat : [step |-> "counting", user |-> u, count |-> c] \in RequestState
  /\ \A u \in User, c \in Code : [step |-> "found", user |-> u, code |-> c] \in RequestState
  /\ \A u \in User, n \in Serial : [step |-> "guessing", user |-> u, nr |-> n] \in RequestState
  /\ \A s \in {"counted", "writing"}, u \in User, n \in Serial, o \in OtpRecord :
       [step |-> s, user |-> u, nr |-> n, record |-> o] \in RequestState
  /\ \A u \in User, o \in OtpRecord, b \in BOOLEAN :
       [step |-> "marking", user |-> u, otp |-> o, reset |-> b] \in RequestState
  /\ \A u \in User, n \in Serial, b \in BOOLEAN :
       [step |-> "consuming", user |-> u, nr |-> n, reset |-> b] \in RequestState
  /\ \A u \in User, n \in Serial : [step |-> "changing", user |-> u, nr |-> n] \in RequestState
  BY DEF RequestState

(* The answer to a wrong code touches the history and the request only.    *)
LEMMA AnswerTypeOK ==
  ASSUME TypeOK, NEW r \in Request, At(r, "counted") \/ At(r, "writing"), AnswerWrong(r)
  PROVE  /\ guesses' \in [User -> [Serial -> Nat]]
         /\ requests' \in [Request -> RequestState]
         /\ overlapped' \in [User -> BOOLEAN]
         /\ requests'[r].step \in {"idle", "locking"}
         /\ \A s \in Request : s # r => requests'[s] = requests[s]
<1> USE RequestStates
<1>1. requests[r].user \in User /\ requests[r].nr \in Serial
  BY RequestShapes
<1>2. guesses' \in [User -> [Serial -> Nat]]
  BY <1>1 DEF AnswerWrong, TypeOK
<1>3. CASE requests[r].record.attempts >= MaxAttempts
  <2>1. Go(r, [step |-> "locking", user |-> requests[r].user])
    BY <1>3 DEF AnswerWrong
  <2>2. [step |-> "locking", user |-> requests[r].user] \in RequestState
    BY <1>1
  <2> HIDE RequestStates
  <2> QED BY <1>2, <2>1, <2>2, GoTypeOK DEF TypeOK
<1>4. CASE ~(requests[r].record.attempts >= MaxAttempts)
  <2>1. Go(r, Idle)
    BY <1>4 DEF AnswerWrong
  <2> QED BY <1>2, <2>1, GoTypeOK DEF TypeOK, Idle
<1> QED BY <1>3, <1>4

-----------------------------------------------------------------------------
(* Type correctness: what Redis, the users table and the handlers' local   *)
(* variables hold.                                                         *)
THEOREM TypeCorrect == Spec => []TypeOK
<1>1. Init => TypeOK
  BY RequestStates, EmailOtpAssumption DEF Init, TypeOK
<1>2. TypeOK /\ [Next]_vars => TypeOK'
  <2> SUFFICES ASSUME TypeOK, [Next]_vars PROVE TypeOK'
    OBVIOUS
  <2> USE RequestStates DEF store, history
  <2>1. ASSUME NEW r \in Request, Generate(r) PROVE TypeOK'
    <3>1. ASSUME NEW u \in User, ReadLimit(r, u) PROVE TypeOK'
      BY <3>1, GoTypeOK DEF ReadLimit, TypeOK
    <3>2. ASSUME NEW u \in User, RequestResend(r, u) PROVE TypeOK'
      BY <3>2, GoTypeOK DEF RequestResend, TypeOK
    <3>3. CASE ReadUnverified(r)
      <4>1. [requests[r] EXCEPT !.step = "clearing"] \in RequestState
        <5>1. /\ requests[r].user \in User
              /\ requests[r] = [step |-> "resending", user |-> requests[r].user]
          BY <3>3, RequestShapes DEF ReadUnverified, At
        <5>2. [requests[r] EXCEPT !.step = "clearing"]
                = [step |-> "clearing", user |-> requests[r].user]
          BY <5>1
        <5> QED BY <5>1, <5>2
      <4> QED BY <3>3, <4>1, GoTypeOK DEF ReadUnverified, TypeOK
    <3>4. CASE DeleteForResend(r)
      <4>1. requests[r].user \in User
        BY <3>4, RequestShapes DEF DeleteForResend, At
      <4> QED BY <3>4, <4>1, GoTypeOK DEF DeleteForResend, TypeOK
    <3>5. CASE WriteLimit(r)
      <4>1. requests[r].user \in User /\ requests[r].count \in Nat
        BY <3>5, RequestShapes DEF WriteLimit
      <4>2. allowed' \in [User -> Nat]
        BY <3>5, <4>1 DEF WriteLimit, TypeOK
      <4> QED BY <3>5, <4>1, <4>2, GoTypeOK DEF WriteLimit, TypeOK
    <3>6. ASSUME NEW code \in Code, StoreOtp(r, code) PROVE TypeOK'
      <4> DEFINE u == requests[r].user
      <4>1. u \in User
        BY <3>6, RequestShapes DEF StoreOtp, At
      <4>2. generated[u] + 1 \in Serial
        BY <3>6, <4>1, EmailOtpAssumption DEF StoreOtp, TypeOK, Serial
      <4>3. [nr |-> generated[u] + 1, code |-> code, attempts |-> 0] \in OtpRecord
        BY <4>2 DEF OtpRecord
      <4>4. otp' \in [User -> OtpRecord \cup {NoOtp}]
        BY <3>6, <4>1, <4>3 DEF StoreOtp, TypeOK
      <4>5. generated' \in [User -> 0 .. MaxOtps]
        BY <3>6, <4>1, <4>2, EmailOtpAssumption DEF StoreOtp, TypeOK, Serial
      <4> QED BY <3>6, <4>4, <4>5, GoTypeOK DEF StoreOtp, Finish, TypeOK
    <3> QED BY <2>1, <3>1, <3>2, <3>3, <3>4, <3>5, <3>6 DEF Generate
  <2>2. ASSUME NEW r \in Request, Verify(r) PROVE TypeOK'
    <3>1. ASSUME NEW u \in User, FindByCode(r, u) PROVE TypeOK'
      <4>1. otp[u].code \in Code
        BY <3>1 DEF FindByCode, TypeOK, OtpRecord
      <4> QED BY <3>1, <4>1, GoTypeOK DEF FindByCode, TypeOK
    <3>2. ASSUME NEW u \in User, NEW code \in Code,
                 SeeLocked(r, u, code)
          PROVE  TypeOK'
      BY <3>2, GoTypeOK DEF SeeLocked, TypeOK
    <3>3. ASSUME NEW u \in User, NEW code \in Code,
                 SeeWrong(r, u, code)
          PROVE  TypeOK'
      <4>1. otp[u].nr \in Serial
        BY <3>3 DEF SeeWrong, TypeOK, OtpRecord
      <4> QED BY <3>3, <4>1, GoTypeOK DEF SeeWrong, TypeOK
    <3>4. ASSUME NEW u \in User, NEW code \in Code,
                 NEW reset \in BOOLEAN, SeeMatch(r, u, code, reset)
          PROVE  TypeOK'
      <4>1. otp[u] \in OtpRecord
        BY <3>4 DEF SeeMatch, TypeOK
      <4> QED BY <3>4, <4>1, GoTypeOK DEF SeeMatch, TypeOK
    <3>5. CASE ReadAttempts(r)
      <4> DEFINE q == requests[r]
      <4>1. q.user \in User /\ q.nr \in Serial
        BY <3>5, RequestShapes DEF ReadAttempts
      <4>2. otp[q.user] \in OtpRecord
        BY <3>5, <4>1 DEF ReadAttempts, TypeOK
      <4>3. [otp[q.user] EXCEPT !.attempts = @ + 1] \in OtpRecord
        BY <4>2 DEF OtpRecord
      <4> QED BY <3>5, <4>1, <4>3, GoTypeOK DEF ReadAttempts, TypeOK
    <3>6. CASE ReadTtl(r)
      <4>1. [requests[r] EXCEPT !.step = "writing"] \in RequestState
        <5> DEFINE q == requests[r]
        <5>1. /\ q.user \in User /\ q.nr \in Serial /\ q.record \in OtpRecord
              /\ q = [step |-> q.step, user |-> q.user, nr |-> q.nr, record |-> q.record]
          BY <3>6, RequestShapes DEF ReadTtl
        <5>2. [q EXCEPT !.step = "writing"]
                = [step |-> "writing", user |-> q.user, nr |-> q.nr, record |-> q.record]
          BY <5>1
        <5> QED BY <5>1, <5>2
      <4> QED BY <3>6, <4>1, GoTypeOK DEF ReadTtl, TypeOK
    <3>7. CASE SkipAttempts(r)
      BY <3>7, AnswerTypeOK DEF SkipAttempts, TypeOK
    <3>8. CASE WriteAttempts(r)
      <4>1. requests[r].user \in User /\ requests[r].record \in OtpRecord
        BY <3>8, RequestShapes DEF WriteAttempts
      <4>2. otp' \in [User -> OtpRecord \cup {NoOtp}]
        BY <3>8, <4>1 DEF WriteAttempts, TypeOK
      <4> QED BY <3>8, <4>2, AnswerTypeOK DEF WriteAttempts, TypeOK
    <3>9. CASE DeleteLocked(r)
      BY <3>9, GoTypeOK DEF DeleteLocked, Finish, TypeOK
    <3>10. CASE MarkVerified(r)
      <4>1. /\ requests[r].user \in User /\ requests[r].reset \in BOOLEAN
            /\ requests[r].otp.nr \in Serial
        BY <3>10, RequestShapes DEF MarkVerified, OtpRecord
      <4> QED BY <3>10, <4>1, GoTypeOK DEF MarkVerified, TypeOK
    <3>11. CASE ConsumeOtp(r)
      <4> DEFINE q == requests[r]
      <4>1. q.user \in User /\ q.nr \in Serial
        BY <3>11, RequestShapes DEF ConsumeOtp
      <4>2. (IF q.reset THEN [step |-> "changing", user |-> q.user, nr |-> q.nr]
             ELSE Idle) \in RequestState
        BY <4>1
      <4>3. PICK s \in RequestState : Go(r, s)
        BY <3>11, <4>2 DEF ConsumeOtp
      <4>4. /\ requests' \in [Request -> RequestState]
            /\ overlapped' \in [User -> BOOLEAN]
        BY <4>3, GoTypeOK DEF TypeOK
      <4> QED BY <3>11, <4>1, <4>4 DEF ConsumeOtp, TypeOK
    <3>12. CASE ChangePassword(r)
      <4>1. requests[r].nr \in Serial
        BY <3>12, RequestShapes DEF ChangePassword
      <4>2. requests[r].nr \in 0 .. MaxOtps
        BY <4>1, EmailOtpAssumption DEF Serial
      <4> QED BY <3>12, <4>2, GoTypeOK DEF ChangePassword, Finish, TypeOK
    <3>13. ASSUME NEW code \in Code, NEW tenant \in SUBSET User, MissByCode(r, code, tenant)
           PROVE  TypeOK'
      <4>1. ASSUME NEW u \in tenant, otp[u] # NoOtp
            PROVE  /\ otp[u].nr \in Serial /\ misses[u] \in [Serial -> 0 .. MaxMisses]
                   /\ misses[u][otp[u].nr] + 1 \in 0 .. MaxMisses
        <5>1. otp[u].nr \in Serial /\ misses[u] \in [Serial -> 0 .. MaxMisses]
          BY <4>1 DEF TypeOK, OtpRecord
        <5>2. misses[u][otp[u].nr] < MaxMisses
          BY <3>13, <4>1 DEF MissByCode
        <5> QED BY <5>1, <5>2, EmailOtpAssumption
      <4>2. misses' \in [User -> [Serial -> 0 .. MaxMisses]]
        BY <3>13, <4>1 DEF MissByCode, TypeOK
      <4> QED BY <3>13, <4>2 DEF MissByCode, TypeOK
    <3> QED BY <2>2, <3>1, <3>2, <3>3, <3>4, <3>5, <3>6, <3>7, <3>8, <3>9, <3>10,
               <3>11, <3>12, <3>13 DEF Verify
  <2>3. ASSUME NEW r \in Request, Fail(r) PROVE TypeOK'
    BY <2>3, GoTypeOK DEF Fail, Finish, TypeOK
  <2>4. ASSUME NEW u \in User, ExpireOtp(u) \/ EndWindow(u) PROVE TypeOK'
    <3>1. CASE ExpireOtp(u)
      BY <3>1 DEF ExpireOtp, TypeOK
    <3>2. CASE EndWindow(u)
      BY <3>2 DEF EndWindow, TypeOK
    <3> QED BY <2>4, <3>1, <3>2
  <2>5. CASE UNCHANGED vars
    BY <2>5 DEF vars, TypeOK
  <2> QED BY <2>1, <2>2, <2>3, <2>4, <2>5 DEF Next
<1> QED BY <1>1, <1>2, PTL DEF Spec

-----------------------------------------------------------------------------
Guarded == {"counting", "consuming", "changing"}

(* A request that moves to a step about which IInv says nothing, and       *)
(* touches at most the OTP, keeps the promises.                            *)
LEMMA FreeStep ==
  ASSUME TypeOK, Promises, NEW r \in Request, NEW q, q.step \notin Guarded, Go(r, q),
         UNCHANGED <<limit, verified, password, consumed>>
  PROVE  Promises'
<1>1. \A s \in Request : s # r => requests'[s] = requests[s]
  BY DEF Go, TypeOK
<1>2. requests'[r].step \notin Guarded
  BY DEF Go, TypeOK
<1>3. LimitNeverPassed' /\ ResetFollowsVerification'
  BY DEF Promises, LimitNeverPassed, ResetFollowsVerification
<1>4. CountsBelowLimit'
  BY <1>1, <1>2 DEF Promises, CountsBelowLimit, Guarded, At
<1>5. ResetInOrder'
  BY <1>1, <1>2 DEF Promises, ResetInOrder, Guarded, At
<1> QED BY <1>3, <1>4, <1>5 DEF Promises

(* The answer to a wrong code is such a step.                              *)
LEMMA FreeAnswer ==
  ASSUME TypeOK, Promises, NEW r \in Request, AnswerWrong(r),
         UNCHANGED <<limit, verified, password, consumed>>
  PROVE  Promises'
<1>1. CASE requests[r].record.attempts >= MaxAttempts
  BY <1>1, FreeStep DEF AnswerWrong, Guarded
<1>2. CASE ~(requests[r].record.attempts >= MaxAttempts)
  BY <1>2, FreeStep DEF AnswerWrong, Guarded, Idle
<1> QED BY <1>1, <1>2

(* The inductive invariant: a count in hand is below the limit, and a      *)
(* reset verifies, then removes the OTP, then changes the password.        *)
THEOREM IInvInvariant == Spec => []IInv
<1>1. Init => Promises
  BY EmailOtpAssumption
  DEF Init, Promises, LimitNeverPassed, CountsBelowLimit, ResetFollowsVerification,
      ResetInOrder, At, Idle
<1>2. TypeOK /\ Promises /\ [Next]_vars => Promises'
  <2> SUFFICES ASSUME TypeOK, Promises, [Next]_vars PROVE Promises'
    OBVIOUS
  <2> USE DEF store, history
  <2>1. ASSUME NEW r \in Request, Generate(r) PROVE Promises'
    <3>1. ASSUME NEW u \in User, ReadLimit(r, u) PROVE Promises'
      <4>1. /\ requests'[r] = [step |-> "counting", user |-> u, count |-> limit[u]]
            /\ \A s \in Request : s # r => requests'[s] = requests[s]
        BY <3>1 DEF ReadLimit, Go, TypeOK
      <4>2. CountsBelowLimit'
        BY <3>1, <4>1 DEF ReadLimit, Promises, CountsBelowLimit, At
      <4>3. ResetInOrder'
        BY <3>1, <4>1 DEF ReadLimit, Promises, ResetInOrder, At
      <4> QED BY <3>1, <4>2, <4>3
              DEF ReadLimit, Promises, LimitNeverPassed, ResetFollowsVerification
    <3>2. ASSUME NEW u \in User, RequestResend(r, u) PROVE Promises'
      BY <3>2, FreeStep DEF RequestResend, Guarded
    <3>3. CASE ReadUnverified(r)
      <4>1. [requests[r] EXCEPT !.step = "clearing"].step \notin Guarded
        BY <3>3, RequestShapes DEF ReadUnverified, At, Guarded
      <4> QED BY <3>3, <4>1, FreeStep DEF ReadUnverified
    <3>4. CASE DeleteForResend(r)
      BY <3>4, FreeStep DEF DeleteForResend, Guarded
    <3>5. CASE WriteLimit(r)
      <4> DEFINE u == requests[r].user
      <4>1. u \in User /\ requests[r].count \in Nat /\ requests[r].count < MaxRequests
        BY <3>5, RequestShapes DEF WriteLimit, Promises, CountsBelowLimit
      <4>2. LimitNeverPassed'
        BY <3>5, <4>1, EmailOtpAssumption
        DEF WriteLimit, Promises, LimitNeverPassed, TypeOK
      <4>3. /\ requests'[r].step = "storing"
            /\ \A s \in Request : s # r => requests'[s] = requests[s]
        BY <3>5 DEF WriteLimit, Go, TypeOK
      <4>4. CountsBelowLimit'
        BY <4>3 DEF Promises, CountsBelowLimit, At
      <4>5. ResetInOrder'
        BY <3>5, <4>3 DEF WriteLimit, Promises, ResetInOrder, At
      <4> QED BY <3>5, <4>2, <4>4, <4>5 DEF WriteLimit, Promises, ResetFollowsVerification
    <3>6. ASSUME NEW code \in Code, StoreOtp(r, code) PROVE Promises'
      BY <3>6, FreeStep DEF StoreOtp, Finish, Guarded, Idle
    <3> QED BY <2>1, <3>1, <3>2, <3>3, <3>4, <3>5, <3>6 DEF Generate
  <2>2. ASSUME NEW r \in Request, Verify(r) PROVE Promises'
    <3>1. ASSUME NEW u \in User, FindByCode(r, u) PROVE Promises'
      BY <3>1, FreeStep DEF FindByCode, Guarded
    <3>2. ASSUME NEW u \in User, NEW code \in Code,
                 SeeLocked(r, u, code)
          PROVE  Promises'
      BY <3>2, FreeStep DEF SeeLocked, Guarded
    <3>3. ASSUME NEW u \in User, NEW code \in Code,
                 SeeWrong(r, u, code)
          PROVE  Promises'
      BY <3>3, FreeStep DEF SeeWrong, Guarded
    <3>4. ASSUME NEW u \in User, NEW code \in Code,
                 NEW reset \in BOOLEAN, SeeMatch(r, u, code, reset)
          PROVE  Promises'
      BY <3>4, FreeStep DEF SeeMatch, Guarded
    <3>5. CASE ReadAttempts(r)
      BY <3>5, FreeStep DEF ReadAttempts, Guarded
    <3>6. CASE ReadTtl(r)
      <4>1. [requests[r] EXCEPT !.step = "writing"].step \notin Guarded
        BY <3>6, RequestShapes DEF ReadTtl, Guarded
      <4> QED BY <3>6, <4>1, FreeStep DEF ReadTtl
    <3>7. CASE SkipAttempts(r)
      BY <3>7, FreeAnswer DEF SkipAttempts
    <3>8. CASE WriteAttempts(r)
      BY <3>8, FreeAnswer DEF WriteAttempts
    <3>9. CASE DeleteLocked(r)
      BY <3>9, FreeStep DEF DeleteLocked, Finish, Guarded, Idle
    <3>10. CASE MarkVerified(r)
      <4>1. requests[r].user \in User
        BY <3>10, RequestShapes DEF MarkVerified
      <4>2. \A u \in User : verified[u] => verified'[u]
        BY <3>10, <4>1 DEF MarkVerified, TypeOK
      <4>3. /\ requests'[r].step = "consuming"
            /\ requests'[r].user = requests[r].user
            /\ verified'[requests[r].user]
            /\ \A s \in Request : s # r => requests'[s] = requests[s]
        BY <3>10, <4>1 DEF MarkVerified, Go, TypeOK
      <4>4. CountsBelowLimit'
        BY <4>3 DEF Promises, CountsBelowLimit, At
      <4>5. ResetFollowsVerification'
        BY <3>10, <4>2 DEF MarkVerified, Promises, ResetFollowsVerification
      <4>6. \A s \in Request : s # r /\ requests[s].step \in {"consuming", "changing"} =>
              requests[s].user \in User
        BY RequestShapes DEF At
      <4>7. ResetInOrder'
        BY <3>10, <4>2, <4>3, <4>6 DEF MarkVerified, Promises, ResetInOrder, At
      <4> QED BY <3>10, <4>4, <4>5, <4>7 DEF MarkVerified, Promises, LimitNeverPassed
    <3>11. CASE ConsumeOtp(r)
      <4> DEFINE q == requests[r]
      <4>1. q.user \in User /\ q.nr \in Serial /\ verified[q.user]
        BY <3>11, RequestShapes DEF ConsumeOtp, Promises, ResetInOrder
      <4>2. \A u \in User : consumed[u] \subseteq consumed'[u]
        BY <3>11, <4>1 DEF ConsumeOtp, TypeOK
      <4>3. q.nr \in consumed'[q.user]
        BY <3>11, <4>1 DEF ConsumeOtp, TypeOK
      <4>4. \A s \in Request : s # r => requests'[s] = requests[s]
        BY <3>11 DEF ConsumeOtp, Go, TypeOK
      <4>5. \/ requests'[r].step = "idle"
            \/ /\ requests'[r].step = "changing"
               /\ requests'[r].user = q.user
               /\ requests'[r].nr = q.nr
        <5>1. requests'[r] = IF q.reset THEN [step |-> "changing", user |-> q.user, nr |-> q.nr]
                             ELSE Idle
          BY <3>11 DEF ConsumeOtp, Go, TypeOK
        <5> QED BY <5>1 DEF Idle
      <4>6. CountsBelowLimit'
        BY <4>4, <4>5 DEF Promises, CountsBelowLimit, At
      <4>7. ResetFollowsVerification'
        BY <3>11, <4>2 DEF ConsumeOtp, Promises, ResetFollowsVerification
      <4>8. \A s \in Request : s # r /\ requests[s].step \in {"consuming", "changing"} =>
              requests[s].user \in User
        BY RequestShapes DEF At
      <4>9. ResetInOrder'
        BY <3>11, <4>1, <4>2, <4>3, <4>4, <4>5, <4>8
        DEF ConsumeOtp, Promises, ResetInOrder, At
      <4> QED BY <3>11, <4>6, <4>7, <4>9 DEF ConsumeOtp, Promises, LimitNeverPassed
    <3>12. CASE ChangePassword(r)
      <4>1. /\ requests[r].user \in User
            /\ verified[requests[r].user]
            /\ requests[r].nr \in consumed[requests[r].user]
        BY <3>12, RequestShapes DEF ChangePassword, Promises, ResetInOrder
      <4>2. ResetFollowsVerification'
        BY <3>12, <4>1 DEF ChangePassword, Promises, ResetFollowsVerification, TypeOK
      <4>3. /\ requests'[r] = Idle
            /\ \A s \in Request : s # r => requests'[s] = requests[s]
        BY <3>12 DEF ChangePassword, Finish, Go, TypeOK
      <4>4. CountsBelowLimit'
        BY <4>3 DEF Promises, CountsBelowLimit, At, Idle
      <4>5. ResetInOrder'
        BY <3>12, <4>3 DEF ChangePassword, Promises, ResetInOrder, At, Idle
      <4> QED BY <3>12, <4>2, <4>4, <4>5 DEF ChangePassword, Promises, LimitNeverPassed
    <3>13. ASSUME NEW code \in Code, NEW tenant \in SUBSET User, MissByCode(r, code, tenant)
           PROVE  Promises'
      BY <3>13 DEF MissByCode, Promises, LimitNeverPassed, CountsBelowLimit,
                   ResetFollowsVerification, ResetInOrder, At
    <3> QED BY <2>2, <3>1, <3>2, <3>3, <3>4, <3>5, <3>6, <3>7, <3>8, <3>9, <3>10,
               <3>11, <3>12, <3>13 DEF Verify
  <2>3. ASSUME NEW r \in Request, Fail(r) PROVE Promises'
    BY <2>3, FreeStep DEF Fail, Finish, Guarded, Idle
  <2>4. ASSUME NEW u \in User, ExpireOtp(u) PROVE Promises'
    BY <2>4 DEF ExpireOtp, Promises, LimitNeverPassed, CountsBelowLimit,
                ResetFollowsVerification, ResetInOrder, At
  <2>5. ASSUME NEW u \in User, EndWindow(u) PROVE Promises'
    <3>1. LimitNeverPassed'
      BY <2>5, EmailOtpAssumption DEF EndWindow, Promises, LimitNeverPassed, TypeOK
    <3> QED BY <2>5, <3>1 DEF EndWindow, Promises, CountsBelowLimit,
                              ResetFollowsVerification, ResetInOrder, At
  <2>6. CASE UNCHANGED vars
    BY <2>6 DEF vars, Promises, LimitNeverPassed, CountsBelowLimit,
                ResetFollowsVerification, ResetInOrder, At
  <2> QED BY <2>1, <2>2, <2>3, <2>4, <2>5, <2>6 DEF Next
<1>3. TypeOK /\ Promises => IInv
  BY DEF IInv
<1> QED BY <1>1, <1>2, <1>3, TypeCorrect, PTL DEF Spec

(* checkRateLimit: no interleaving of its GETs and SETEXs stores a count   *)
(* above the limit.                                                        *)
THEOREM LimitNeverPassedHolds == Spec => []LimitNeverPassed
<1>1. IInv => LimitNeverPassed
  BY DEF IInv, Promises
<1> QED BY <1>1, IInvInvariant, PTL

(* resetPasswordWithOtp: a password changes only after its OTP was removed *)
(* and its user verified, whatever else runs and fails meanwhile.          *)
THEOREM ResetFollowsVerificationHolds == Spec => []ResetFollowsVerification
<1>1. IInv => ResetFollowsVerification
  BY DEF IInv, Promises
<1> QED BY <1>1, IInvInvariant, PTL

-----------------------------------------------------------------------------
(* One request of a user at a time *)

(* A record of an OTP that was generated and is not spent, with the        *)
(* attempts that were made.                                                *)
RecordCounts(u, o) ==
  /\ o.nr <= generated[u] /\ o.nr \notin consumed[u]
  /\ guesses[u][o.nr] = o.attempts /\ o.attempts <= MaxAttempts

(* What a request has in hand is as it is in Redis, if it is still there.  *)
HandCounts(r) ==
  LET q == requests[r] IN
  /\ At(r, "counting") => allowed[q.user] <= q.count
  /\ At(r, "guessing") =>
       /\ q.nr <= generated[q.user] /\ q.nr \notin consumed[q.user]
       /\ guesses[q.user][q.nr] < MaxAttempts
       /\ otp[q.user] # NoOtp => otp[q.user].nr = q.nr /\ otp[q.user].attempts < MaxAttempts
  /\ At(r, "counted") \/ At(r, "writing") =>
       /\ q.record.nr = q.nr /\ q.nr <= generated[q.user] /\ q.nr \notin consumed[q.user]
       /\ guesses[q.user][q.nr] + 1 = q.record.attempts /\ q.record.attempts <= MaxAttempts
  /\ At(r, "marking") => q.otp.nr <= generated[q.user]
  /\ At(r, "consuming") => q.nr <= generated[q.user]

(* What was sent, guessed and consumed stays within its limits.            *)
UserCounts(u) ==
  /\ allowed[u] <= limit[u]
  /\ \A n \in consumed[u] : n <= generated[u]
  /\ \A n \in Serial : guesses[u][n] <= MaxAttempts /\ (n > generated[u] => guesses[u][n] = 0)
  /\ otp[u] # NoOtp => RecordCounts(u, otp[u])

(* Two requests that have one user in hand are known to overlap.           *)
Watched ==
  \A r, s \in Request, u \in User :
    r # s /\ About(requests[r], u) /\ About(requests[s], u) => overlapped[u]

(* For a user whose requests never overlapped, the counts are right, and   *)
(* so is what the user's one request carries.                              *)
OneByOneInv ==
  /\ Watched
  /\ \A u \in User : ~overlapped[u] => UserCounts(u)
  /\ \A r \in Request, u \in User : About(requests[r], u) /\ ~overlapped[u] => HandCounts(r)

(* Nothing is written but what is kept for user w.                         *)
Elsewhere(w) ==
  \A u \in User : u # w =>
    /\ otp'[u] = otp[u] /\ limit'[u] = limit[u] /\ generated'[u] = generated[u]
    /\ allowed'[u] = allowed[u] /\ guesses'[u] = guesses[u] /\ consumed'[u] = consumed[u]

(* Steps at which a request carries no guess.                              *)
FreeSteps == {"idle", "resending", "clearing", "cleared", "found", "storing", "locking", "changing"}

(* A request that carries no guess owes no account of one.                 *)
LEMMA FreeHand ==
  ASSUME NEW r, requests'[r].step \in FreeSteps
  PROVE  HandCounts(r)'
  BY DEF HandCounts, At, FreeSteps

(* The types of what is kept for a user.                                   *)
LEMMA UsersTyped ==
  ASSUME TypeOK, NEW u \in User
  PROVE  /\ allowed[u] \in Nat /\ limit[u] \in Nat /\ generated[u] \in 0 .. MaxOtps
         /\ consumed[u] \subseteq Serial /\ guesses[u] \in [Serial -> Nat]
         /\ otp[u] # NoOtp => otp[u] \in OtpRecord
  BY DEF TypeOK

(* A request in progress has a user in hand.                               *)
LEMMA HasUser ==
  ASSUME TypeOK, NEW r \in Request, requests[r].step # "idle"
  PROVE  \E w \in User : w = requests[r].user /\ About(requests[r], w)
  BY DEF TypeOK, RequestState, Idle, About

(* A request that moves is watched.                                        *)
LEMMA GoWatched ==
  ASSUME TypeOK, Watched, NEW r \in Request, NEW q, Go(r, q)
  PROVE  /\ Watched'
         /\ \A u \in User : overlapped[u] => overlapped'[u]
<1>1. /\ requests'[r] = q /\ \A s \in Request : s # r => requests'[s] = requests[s]
      /\ \A u \in User : overlapped[u] => overlapped'[u]
  BY DEF Go, TypeOK
<1>2. ASSUME NEW u \in User, NEW s \in Request, s # r, About(q, u), About(requests[s], u)
      PROVE  overlapped'[u]
  BY <1>2 DEF Go
<1>3. ASSUME NEW s \in Request, NEW t \in Request, NEW u \in User, s # t,
             About(requests'[s], u), About(requests'[t], u)
      PROVE  overlapped'[u]
  BY <1>1, <1>2, <1>3 DEF Watched
<1>4. Watched'
  BY <1>3 DEF Watched, About
<1> QED BY <1>1, <1>4

(* A step of one request about user w has to account for w only, and only  *)
(* if no other request was at w.                                           *)
LEMMA OneUser ==
  ASSUME TypeOK, OneByOneInv, NEW r \in Request, NEW w \in User, NEW q, Go(r, q),
         About(requests[r], w) \/ About(q, w), q = Idle \/ q.user = w, Elsewhere(w),
         ~overlapped[w] => UserCounts(w)' /\ HandCounts(r)'
  PROVE  OneByOneInv'
<1>1. /\ requests'[r] = q /\ \A s \in Request : s # r => requests'[s] = requests[s]
  BY DEF Go, TypeOK
<1>2. Watched' /\ \A u \in User : overlapped[u] => overlapped'[u]
  BY GoWatched DEF OneByOneInv
<1>3. ASSUME NEW u \in User, ~overlapped'[u] PROVE UserCounts(u)'
  <2>1. CASE u = w
    BY <1>2, <1>3, <2>1
  <2>2. CASE u # w
    <3>1. UserCounts(u)
      BY <1>2, <1>3 DEF OneByOneInv
    <3> QED BY <2>2, <3>1 DEF Elsewhere, UserCounts, RecordCounts
  <2> QED BY <2>1, <2>2
<1>4. ASSUME NEW s \in Request, NEW u \in User, About(requests'[s], u), ~overlapped'[u]
      PROVE  HandCounts(s)'
  <2>1. CASE s = r
    <3>1. u = w
      BY <1>1, <1>4, <2>1 DEF About
    <3> QED BY <1>2, <1>4, <2>1, <3>1
  <2>2. CASE s # r
    <3>1. About(requests[s], u) /\ requests'[s] = requests[s] /\ ~overlapped[u]
      BY <1>1, <1>2, <1>4, <2>2
    <3>2. u # w
      <4>1. CASE About(requests[r], w)
        BY <2>2, <3>1, <4>1 DEF OneByOneInv, Watched
      <4>2. CASE About(q, w)
        <5>1. u = w => overlapped'[u]
          BY <2>2, <3>1, <4>2 DEF Go
        <5> QED BY <1>4, <5>1
      <4> QED BY <4>1, <4>2
    <3>3. HandCounts(s)
      BY <3>1 DEF OneByOneInv
    <3> QED BY <3>1, <3>2, <3>3 DEF Elsewhere, HandCounts, At, About
  <2> QED BY <2>1, <2>2
<1>5. \A s \in Request, u \in User : (About(requests[s], u) /\ ~overlapped[u] => HandCounts(s))'
  BY <1>4 DEF About
<1>6. \A u \in User : (~overlapped[u] => UserCounts(u))'
  BY <1>3
<1> QED BY <1>2, <1>5, <1>6 DEF OneByOneInv

(* What the request in hand may rely on.                                   *)
LEMMA OwnCounts ==
  ASSUME OneByOneInv, NEW r \in Request, NEW w \in User, ~overlapped[w]
  PROVE  UserCounts(w) /\ (About(requests[r], w) => HandCounts(r))
  BY DEF OneByOneInv

(* A step that reads.                                                      *)
LEMMA OnlyHand ==
  ASSUME TypeOK, OneByOneInv, NEW r \in Request, NEW w \in User, NEW q, Go(r, q),
         About(requests[r], w) \/ About(q, w), q = Idle \/ q.user = w,
         UNCHANGED <<store, history>>,
         ~overlapped[w] /\ requests'[r] = q => HandCounts(r)'
  PROVE  OneByOneInv'
<1>1. requests'[r] = q
  BY DEF Go, TypeOK
<1>2. Elsewhere(w)
  BY DEF Elsewhere, store, history
<1>3. ASSUME ~overlapped[w] PROVE UserCounts(w)'
  BY <1>3, OwnCounts DEF UserCounts, RecordCounts, store, history
<1> QED BY <1>1, <1>2, <1>3, OneUser

(* A step that at most removes the user's OTP and carries no guess on.     *)
LEMMA OnlyRemoves ==
  ASSUME TypeOK, OneByOneInv, NEW r \in Request, NEW w \in User, NEW q, Go(r, q),
         About(requests[r], w), q = Idle \/ q.user = w, q.step \in FreeSteps,
         otp' = otp \/ otp' = [otp EXCEPT ![w] = NoOtp],
         UNCHANGED <<limit, generated, allowed, guesses, consumed>>
  PROVE  OneByOneInv'
<1>1. HandCounts(r)'
  BY FreeHand DEF Go, TypeOK
<1>2. Elsewhere(w) /\ (otp'[w] = otp[w] \/ otp'[w] = NoOtp)
  BY DEF Elsewhere, TypeOK
<1>3. ASSUME ~overlapped[w] PROVE UserCounts(w)'
  BY <1>2, <1>3, OwnCounts DEF UserCounts, RecordCounts
<1> QED BY <1>1, <1>2, <1>3, OneUser

(* Sending an OTP keeps the counts.                                        *)
LEMMA OneByOneGenerate ==
  ASSUME TypeOK, Promises, OneByOneInv, NEW r \in Request, Generate(r)
  PROVE  OneByOneInv'
<1>1. ASSUME NEW u \in User, ReadLimit(r, u) PROVE OneByOneInv'
  <2> DEFINE q == [step |-> "counting", user |-> u, count |-> limit[u]]
  <2>1. Go(r, q) /\ About(q, u) /\ q.user = u /\ UNCHANGED <<store, history>>
    BY <1>1 DEF ReadLimit, About, Idle
  <2>2. q.step = "counting" /\ q.count = limit[u]
    OBVIOUS
  <2> HIDE DEF q
  <2>3. ASSUME ~overlapped[u], requests'[r] = q PROVE HandCounts(r)'
    <3>1. allowed[u] <= limit[u]
      BY <2>3, OwnCounts DEF UserCounts
    <3> QED BY <2>1, <2>2, <2>3, <3>1 DEF HandCounts, At, history
  <2> QED BY <2>1, <2>3, OnlyHand
<1>2. ASSUME NEW u \in User, RequestResend(r, u) PROVE OneByOneInv'
  <2> DEFINE q == [step |-> "resending", user |-> u]
  <2>1. Go(r, q) /\ About(q, u) /\ q.user = u /\ q.step \in FreeSteps
        /\ UNCHANGED <<store, history>>
    BY <1>2 DEF RequestResend, About, Idle, FreeSteps
  <2> HIDE DEF q
  <2> QED BY <2>1, OnlyHand, FreeHand
<1>3. CASE ReadUnverified(r)
  <2>1. /\ requests[r].user \in User
        /\ requests[r] = [step |-> "resending", user |-> requests[r].user]
    BY <1>3, RequestShapes DEF ReadUnverified, At
  <2> DEFINE w == requests[r].user
             q == [step |-> "clearing", user |-> w]
  <2>2. [requests[r] EXCEPT !.step = "clearing"] = q
    BY <2>1
  <2>3. /\ About(requests[r], w) /\ q.user = w /\ q.step \in FreeSteps
        /\ Go(r, q) /\ UNCHANGED <<store, history>>
    BY <1>3, <2>1, <2>2 DEF ReadUnverified, About, Idle, FreeSteps
  <2> HIDE DEF q
  <2> QED BY <2>1, <2>3, OnlyHand, FreeHand
<1>4. CASE DeleteForResend(r)
  <2>1. PICK w \in User : w = requests[r].user /\ About(requests[r], w)
    BY <1>4, HasUser DEF DeleteForResend, At
  <2> DEFINE q == [step |-> "cleared", user |-> w]
  <2>2. /\ Go(r, q) /\ q.user = w /\ q.step \in FreeSteps
        /\ otp' = [otp EXCEPT ![w] = NoOtp]
        /\ UNCHANGED <<limit, generated, allowed, guesses, consumed>>
    BY <1>4, <2>1 DEF DeleteForResend, FreeSteps, history
  <2> HIDE DEF q
  <2> QED BY <2>1, <2>2, OnlyRemoves
<1>5. CASE WriteLimit(r)
  <2>0. PICK w \in User : w = requests[r].user /\ About(requests[r], w)
    BY <1>5, HasUser DEF WriteLimit, At
  <2> DEFINE q == [step |-> "storing", user |-> w]
  <2>1. /\ requests[r].count \in Nat /\ Go(r, q) /\ q.user = w /\ q.step \in FreeSteps
    BY <1>5, <2>0, RequestShapes DEF WriteLimit, FreeSteps
  <2> HIDE DEF q
  <2>2. /\ Elsewhere(w) /\ limit'[w] = requests[r].count + 1 /\ allowed'[w] = allowed[w] + 1
        /\ allowed[w] \in Nat
    BY <1>5, <2>0, UsersTyped DEF WriteLimit, Elsewhere, TypeOK
  <2>3. HandCounts(r)'
    BY <2>1, FreeHand DEF Go, TypeOK
  <2>4. ASSUME ~overlapped[w] PROVE UserCounts(w)'
    <3>1. UserCounts(w) /\ allowed[w] <= requests[r].count
      BY <1>5, <2>0, <2>4, OwnCounts DEF WriteLimit, HandCounts
    <3>2. allowed'[w] <= limit'[w]
      BY <2>1, <2>2, <3>1
    <3> QED BY <1>5, <3>1, <3>2 DEF WriteLimit, UserCounts, RecordCounts
  <2> QED BY <2>0, <2>1, <2>2, <2>3, <2>4, OneUser
<1>6. ASSUME NEW code \in Code, StoreOtp(r, code) PROVE OneByOneInv'
  <2>1. PICK w \in User : w = requests[r].user /\ About(requests[r], w)
    BY <1>6, HasUser DEF StoreOtp, At
  <2> DEFINE new == [nr |-> generated[w] + 1, code |-> code, attempts |-> 0]
  <2>2. HandCounts(r)' /\ Go(r, Idle)
    <3>1. requests'[r].step = "idle"
      BY <1>6 DEF StoreOtp, Finish, Go, Idle, TypeOK
    <3> QED BY <1>6, <3>1, FreeHand DEF FreeSteps, StoreOtp, Finish
  <2>3. /\ otp'[w] = new /\ generated'[w] = generated[w] + 1 /\ generated[w] + 1 \in Serial
        /\ generated[w] \in Nat
        /\ Elsewhere(w)
        /\ UNCHANGED <<limit, allowed, guesses, consumed>>
    <3>1. /\ otp' = [otp EXCEPT ![w] = new] /\ generated' = [generated EXCEPT ![w] = @ + 1]
          /\ generated[w] < MaxOtps /\ UNCHANGED <<limit, allowed, guesses, consumed>>
      BY <1>6, <2>1 DEF StoreOtp
    <3>2. generated[w] \in 0 .. MaxOtps
      BY UsersTyped
    <3>3. generated[w] + 1 \in Serial /\ generated[w] \in Nat
      BY <3>1, <3>2, EmailOtpAssumption DEF Serial
    <3> HIDE DEF new
    <3> QED BY <3>1, <3>3 DEF TypeOK, Elsewhere
  <2>4. ASSUME ~overlapped[w] PROVE UserCounts(w)'
    <3>1. UserCounts(w)
      BY <2>4, OwnCounts
    <3>2. new.nr = generated[w] + 1 /\ new.attempts = 0
      OBVIOUS
    <3> HIDE DEF new
    <3>3. /\ \A n \in consumed[w] : n \in Nat /\ n <= generated[w]
          /\ \A n \in Serial : /\ n \in Nat /\ guesses[w][n] <= MaxAttempts
                               /\ n > generated[w] => guesses[w][n] = 0
      BY <3>1, UsersTyped, EmailOtpAssumption DEF UserCounts, Serial
    <3>4. RecordCounts(w, otp[w])' /\ \A n \in consumed[w] : n <= generated'[w]
      BY <2>3, <3>2, <3>3, EmailOtpAssumption DEF RecordCounts
    <3>5. \A n \in Serial : guesses[w][n] <= MaxAttempts /\ (n > generated'[w] => guesses[w][n] = 0)
      BY <2>3, <3>3
    <3> QED BY <2>3, <3>1, <3>4, <3>5 DEF UserCounts
  <2> HIDE DEF new
  <2> QED BY <2>1, <2>2, <2>3, <2>4, OneUser
<1> QED BY <1>1, <1>2, <1>3, <1>4, <1>5, <1>6 DEF Generate

(* Refusing a wrong guess keeps the counts.                                *)
LEMMA OneByOneAnswer ==
  ASSUME TypeOK, OneByOneInv, NEW r \in Request,
         At(r, "counted") \/ At(r, "writing"), AnswerWrong(r),
         \/ otp' = otp /\ otp[requests[r].user] = NoOtp
         \/ otp' = [otp EXCEPT ![requests[r].user] = requests[r].record],
         UNCHANGED <<limit, generated, allowed, consumed>>
  PROVE  OneByOneInv'
<1>1. PICK w \in User : w = requests[r].user /\ About(requests[r], w)
  BY HasUser DEF At
<1>2. PICK n \in Serial : n = requests[r].nr
  BY RequestShapes
<1>3. PICK o \in OtpRecord : o = requests[r].record
  BY RequestShapes
<1>4. guesses' = [guesses EXCEPT ![w][n] = @ + 1]
  BY <1>1, <1>2 DEF AnswerWrong
<1>5. /\ guesses'[w][n] = guesses[w][n] + 1
      /\ \A m \in Serial : m # n => guesses'[w][m] = guesses[w][m]
      /\ \A u \in User : u # w => guesses'[u] = guesses[u]
  BY <1>4 DEF TypeOK
<1>6. Elsewhere(w)
  BY <1>1, <1>5 DEF Elsewhere, TypeOK
<1>7. HandCounts(r)'
  <2>1. requests'[r].step \in {"idle", "locking"}
    BY AnswerTypeOK
  <2> QED BY <2>1, FreeHand DEF FreeSteps
<1>8. ASSUME ~overlapped[w] PROVE UserCounts(w)'
  <2>1. /\ o.nr = n /\ n <= generated[w] /\ n \notin consumed[w]
        /\ guesses[w][n] + 1 = o.attempts /\ o.attempts <= MaxAttempts
        /\ guesses[w][n] \in Nat /\ o.attempts \in Nat
    BY <1>1, <1>2, <1>3, <1>8, OwnCounts, UsersTyped DEF HandCounts, OtpRecord
  <2>2. ASSUME otp'[w] # NoOtp PROVE RecordCounts(w, otp[w])'
    <3>1. otp'[w] = o
      BY <1>1, <1>3, <2>2 DEF TypeOK
    <3> QED BY <1>5, <2>1, <3>1 DEF RecordCounts
  <2>3. UserCounts(w) /\ \A m \in Serial : guesses[w][m] \in Nat /\ m \in Nat
    BY <1>8, OwnCounts, UsersTyped, EmailOtpAssumption DEF Serial
  <2>4. generated[w] \in Nat /\ MaxAttempts \in Nat
    BY UsersTyped, EmailOtpAssumption
  <2>5. guesses'[w][n] <= MaxAttempts /\ ~(n > generated[w])
    BY <1>5, <2>1, <2>3, <2>4
  <2>6. \A m \in Serial : guesses'[w][m] <= MaxAttempts /\ (m > generated[w] => guesses'[w][m] = 0)
    BY <1>5, <2>3, <2>5 DEF UserCounts
  <2> QED BY <2>2, <2>3, <2>6 DEF UserCounts
<1>9. PICK q : Go(r, q) /\ (q = Idle \/ q.user = w)
  BY <1>1 DEF AnswerWrong
<1> QED BY <1>1, <1>6, <1>7, <1>8, <1>9, OneUser

(* Verifying an OTP keeps the counts.                                      *)
LEMMA OneByOneVerify ==
  ASSUME TypeOK, Promises, OneByOneInv, NEW r \in Request, Verify(r)
  PROVE  OneByOneInv'
<1>1. ASSUME NEW u \in User, FindByCode(r, u) PROVE OneByOneInv'
  <2> DEFINE q == [step |-> "found", user |-> u, code |-> otp[u].code]
  <2>1. Go(r, q) /\ About(q, u) /\ q.user = u /\ q.step \in FreeSteps
        /\ UNCHANGED <<store, history>>
    BY <1>1 DEF FindByCode, About, Idle, FreeSteps
  <2> HIDE DEF q
  <2> QED BY <2>1, OnlyHand, FreeHand
<1>2. ASSUME NEW u \in User, NEW code \in Code, SeeLocked(r, u, code) PROVE OneByOneInv'
  <2> DEFINE q == [step |-> "locking", user |-> u]
  <2>1. Go(r, q) /\ About(q, u) /\ q.user = u /\ q.step \in FreeSteps
        /\ UNCHANGED <<store, history>>
    BY <1>2 DEF SeeLocked, About, Idle, FreeSteps
  <2> HIDE DEF q
  <2> QED BY <2>1, OnlyHand, FreeHand
<1>3. ASSUME NEW u \in User, NEW code \in Code, SeeWrong(r, u, code) PROVE OneByOneInv'
  <2> DEFINE q == [step |-> "guessing", user |-> u, nr |-> otp[u].nr]
  <2>1. Go(r, q) /\ About(q, u) /\ UNCHANGED <<store, history>>
    BY <1>3 DEF SeeWrong, About, Idle
  <2>2. q.step = "guessing" /\ q.user = u /\ q.nr = otp[u].nr
    OBVIOUS
  <2> HIDE DEF q
  <2>3. ASSUME ~overlapped[u], requests'[r] = q PROVE HandCounts(r)'
    <3>1. otp[u] \in OtpRecord /\ RecordCounts(u, otp[u]) /\ otp[u].attempts < MaxAttempts
      BY <1>3, <2>3, UsersTyped, OwnCounts DEF SeeWrong, UserCounts
    <3> QED BY <2>1, <2>2, <2>3, <3>1 DEF HandCounts, RecordCounts, At, store, history
  <2> QED BY <2>1, <2>2, <2>3, OnlyHand
<1>4. ASSUME NEW u \in User, NEW code \in Code, NEW reset \in BOOLEAN, SeeMatch(r, u, code, reset)
      PROVE  OneByOneInv'
  <2> DEFINE q == [step |-> "marking", user |-> u, otp |-> otp[u], reset |-> reset]
  <2>1. Go(r, q) /\ About(q, u) /\ UNCHANGED <<store, history>>
    BY <1>4 DEF SeeMatch, About, Idle
  <2>2. q.step = "marking" /\ q.user = u /\ q.otp = otp[u]
    OBVIOUS
  <2> HIDE DEF q
  <2>3. ASSUME ~overlapped[u], requests'[r] = q PROVE HandCounts(r)'
    <3>1. RecordCounts(u, otp[u])
      BY <1>4, <2>3, OwnCounts DEF SeeMatch, UserCounts
    <3> QED BY <2>1, <2>2, <2>3, <3>1 DEF HandCounts, RecordCounts, At, history
  <2> QED BY <2>1, <2>2, <2>3, OnlyHand
<1>5. CASE ReadAttempts(r)
  <2>1. PICK u \in User : u = requests[r].user /\ About(requests[r], u)
    BY <1>5, HasUser DEF ReadAttempts, At
  <2>2. PICK n \in Serial : n = requests[r].nr
    BY <1>5, RequestShapes DEF ReadAttempts
  <2>3. otp[u] \in OtpRecord /\ otp[u].attempts \in Nat
    BY <1>5, <2>1, UsersTyped DEF ReadAttempts, OtpRecord
  <2> DEFINE o == [otp[u] EXCEPT !.attempts = @ + 1]
             q == [step |-> "counted", user |-> u, nr |-> n, record |-> o]
  <2>4. o.nr = otp[u].nr /\ o.attempts = otp[u].attempts + 1
    BY <2>3 DEF OtpRecord
  <2>5. Go(r, q) /\ UNCHANGED <<store, history>>
    BY <1>5, <2>1, <2>2 DEF ReadAttempts
  <2> HIDE DEF o
  <2>6. q.step = "counted" /\ q.user = u /\ q.nr = n /\ q.record = o
    OBVIOUS
  <2> HIDE DEF q
  <2>7. ASSUME ~overlapped[u], requests'[r] = q PROVE HandCounts(r)'
    <3>1. HandCounts(r) /\ UserCounts(u)
      BY <2>1, <2>7, OwnCounts
    <3>2. otp[u].nr = n /\ otp[u].attempts < MaxAttempts /\ RecordCounts(u, otp[u])
      BY <1>5, <2>1, <2>2, <3>1 DEF ReadAttempts, HandCounts, UserCounts
    <3>3. /\ o.nr = n /\ n <= generated[u] /\ n \notin consumed[u]
          /\ guesses[u][n] + 1 = o.attempts /\ o.attempts <= MaxAttempts
      BY <2>3, <2>4, <3>2, EmailOtpAssumption DEF RecordCounts
    <3> QED BY <2>5, <2>6, <2>7, <3>3 DEF HandCounts, At, history
  <2> QED BY <2>1, <2>5, <2>6, <2>7, OnlyHand
<1>6. CASE ReadTtl(r)
  <2>1. requests[r] \in [step : {"counted", "writing"}, user : User, nr : Serial, record : OtpRecord]
    BY <1>6, RequestShapes DEF ReadTtl
  <2> DEFINE q == [requests[r] EXCEPT !.step = "writing"]
             u == requests[r].user
  <2>2. /\ q.step = "writing" /\ q.user = u /\ q.nr = requests[r].nr
        /\ q.record = requests[r].record
    BY <2>1
  <2>3. u \in User /\ About(requests[r], u) /\ Go(r, q) /\ UNCHANGED <<store, history>>
    BY <1>6, <2>1 DEF ReadTtl, About, At, Idle
  <2> HIDE DEF q
  <2>4. ASSUME ~overlapped[u], requests'[r] = q PROVE HandCounts(r)'
    <3>1. HandCounts(r) /\ At(r, "counted")
      BY <1>6, <2>3, <2>4, OwnCounts DEF ReadTtl
    <3> QED BY <2>2, <2>3, <2>4, <3>1 DEF HandCounts, At, store, history
  <2> QED BY <2>2, <2>3, <2>4, OnlyHand
<1>7. CASE SkipAttempts(r)
  BY <1>7, OneByOneAnswer DEF SkipAttempts, store
<1>8. CASE WriteAttempts(r)
  BY <1>8, OneByOneAnswer DEF WriteAttempts
<1>9. ASSUME DeleteLocked(r) PROVE OneByOneInv'
  <2>1. PICK w \in User : w = requests[r].user /\ About(requests[r], w)
    BY <1>9, HasUser DEF DeleteLocked, At
  <2>2. /\ Go(r, Idle) /\ Idle.step \in FreeSteps
        /\ otp' = [otp EXCEPT ![w] = NoOtp]
        /\ UNCHANGED <<limit, generated, allowed, guesses, consumed>>
    BY <1>9, <2>1 DEF DeleteLocked, Finish, Idle, FreeSteps, history
  <2> QED BY <2>1, <2>2, OnlyRemoves
<1>10. CASE MarkVerified(r)
  <2>0. PICK w \in User : w = requests[r].user /\ About(requests[r], w)
    BY <1>10, HasUser DEF MarkVerified, At
  <2> DEFINE q == [step |-> "consuming", user |-> w, nr |-> requests[r].otp.nr,
                   reset |-> requests[r].reset]
  <2>1. /\ Go(r, q) /\ Elsewhere(w)
        /\ UNCHANGED <<otp, limit, generated, allowed, guesses, consumed>>
    BY <1>10, <2>0 DEF MarkVerified, Elsewhere, history
  <2>2. q.step = "consuming" /\ q.user = w /\ q.nr = requests[r].otp.nr
    OBVIOUS
  <2> HIDE DEF q
  <2>3. requests'[r] = q
    BY <2>1 DEF Go, TypeOK
  <2>4. ASSUME ~overlapped[w] PROVE UserCounts(w)' /\ HandCounts(r)'
    <3>1. UserCounts(w) /\ HandCounts(r) /\ At(r, "marking")
      BY <1>10, <2>0, <2>4, OwnCounts DEF MarkVerified
    <3>2. UserCounts(w)'
      BY <2>1, <3>1 DEF UserCounts, RecordCounts
    <3>3. HandCounts(r)'
      BY <2>0, <2>1, <2>2, <2>3, <3>1 DEF HandCounts, At
    <3> QED BY <3>2, <3>3
  <2> QED BY <2>0, <2>1, <2>2, <2>4, OneUser
<1>11. CASE ConsumeOtp(r)
  <2>1. PICK w \in User : w = requests[r].user /\ About(requests[r], w)
    BY <1>11, HasUser DEF ConsumeOtp, At
  <2>2. PICK n \in Serial : n = requests[r].nr
    BY <1>11, RequestShapes DEF ConsumeOtp
  <2>3. PICK q : /\ Go(r, q)
                 /\ \/ q = [step |-> "changing", user |-> w, nr |-> n]
                    \/ q = Idle
    BY <1>11, <2>1, <2>2 DEF ConsumeOtp
  <2>4. q.step \in FreeSteps /\ (q = Idle \/ q.user = w)
    BY <2>3 DEF Idle, FreeSteps
  <2>5. HandCounts(r)'
    BY <2>3, <2>4, FreeHand DEF Go, TypeOK
  <2>6. /\ otp'[w] = NoOtp /\ consumed'[w] = consumed[w] \cup {n} /\ Elsewhere(w)
        /\ UNCHANGED <<limit, generated, allowed, guesses>>
    BY <1>11, <2>1, <2>2 DEF ConsumeOtp, Elsewhere, TypeOK
  <2>7. ASSUME ~overlapped[w] PROVE UserCounts(w)'
    <3>1. UserCounts(w) /\ n <= generated[w]
      BY <1>11, <2>1, <2>2, <2>7, OwnCounts DEF ConsumeOtp, HandCounts
    <3> QED BY <2>6, <3>1 DEF UserCounts, RecordCounts
  <2> QED BY <2>1, <2>3, <2>4, <2>5, <2>6, <2>7, OneUser
<1>12. CASE ChangePassword(r)
  <2>1. PICK w \in User : w = requests[r].user /\ About(requests[r], w)
    BY <1>12, HasUser DEF ChangePassword, At
  <2>2. /\ Go(r, Idle) /\ Idle.step \in FreeSteps
        /\ otp' = otp
        /\ UNCHANGED <<limit, generated, allowed, guesses, consumed>>
    BY <1>12, <2>1 DEF ChangePassword, Finish, Idle, FreeSteps, history
  <2> QED BY <2>1, <2>2, OnlyRemoves
<1>13. ASSUME NEW code \in Code, NEW tenant \in SUBSET User, MissByCode(r, code, tenant)
       PROVE  OneByOneInv'
  BY <1>13 DEF MissByCode, store, OneByOneInv, Watched, UserCounts, HandCounts, RecordCounts, At
<1> QED BY <1>1, <1>2, <1>3, <1>4, <1>5, <1>6, <1>7, <1>8, <1>9, <1>10, <1>11, <1>12, <1>13
        DEF Verify

(* Every step keeps the counts of the users whose requests do not overlap. *)
LEMMA OneByOneStep ==
  ASSUME TypeOK, Promises, OneByOneInv, [Next]_vars
  PROVE  OneByOneInv'
<1>1. ASSUME NEW r \in Request, Generate(r) PROVE OneByOneInv'
  BY <1>1, OneByOneGenerate
<1>2. ASSUME NEW r \in Request, Verify(r) PROVE OneByOneInv'
  BY <1>2, OneByOneVerify
<1>3. ASSUME NEW r \in Request, Fail(r) PROVE OneByOneInv'
  <2>1. PICK w \in User : w = requests[r].user /\ About(requests[r], w)
    BY <1>3 DEF Fail, TypeOK, RequestState, Idle, About
  <2>2. /\ Go(r, Idle) /\ Idle.step \in FreeSteps
        /\ otp' = otp
        /\ UNCHANGED <<limit, generated, allowed, guesses, consumed>>
    BY <1>3 DEF Fail, Finish, Idle, FreeSteps, store, history
  <2> QED BY <2>1, <2>2, OnlyRemoves
<1>4. ASSUME NEW u \in User, ExpireOtp(u) PROVE OneByOneInv'
  <2>1. /\ otp'[u] = NoOtp /\ \A w \in User : w # u => otp'[w] = otp[w]
        /\ UNCHANGED <<limit, requests, history, overlapped>>
    BY <1>4 DEF ExpireOtp, TypeOK
  <2>2. ASSUME NEW w \in User, ~overlapped[w] PROVE UserCounts(w)'
    <3>1. UserCounts(w)
      BY <2>2 DEF OneByOneInv
    <3> QED BY <2>1, <3>1 DEF UserCounts, RecordCounts, history
  <2>3. ASSUME NEW r \in Request, NEW w \in User, About(requests[r], w), ~overlapped[w]
        PROVE  HandCounts(r)'
    <3>1. HandCounts(r) /\ requests[r].user = w /\ (otp'[w] = NoOtp \/ otp'[w] = otp[w])
      BY <2>1, <2>3 DEF OneByOneInv, About
    <3> QED BY <2>1, <3>1 DEF HandCounts, At, history
  <2> QED BY <2>1, <2>2, <2>3 DEF OneByOneInv, Watched
<1>5. ASSUME NEW u \in User, EndWindow(u) PROVE OneByOneInv'
  <2>1. /\ allowed'[u] = 0 /\ limit'[u] = 0
        /\ \A w \in User : w # u => allowed'[w] = allowed[w] /\ limit'[w] = limit[w]
        /\ UNCHANGED <<otp, requests, generated, guesses, consumed, overlapped>>
    BY <1>5 DEF EndWindow, TypeOK
  <2>2. ASSUME NEW w \in User, ~overlapped[w] PROVE UserCounts(w)'
    <3>1. UserCounts(w)
      BY <2>2 DEF OneByOneInv
    <3> QED BY <2>1, <3>1 DEF UserCounts, RecordCounts
  <2>3. ASSUME NEW r \in Request, NEW w \in User, About(requests[r], w), ~overlapped[w]
        PROVE  HandCounts(r)'
    <3>1. /\ HandCounts(r) /\ requests[r].user = w /\ (allowed'[w] = 0 \/ allowed'[w] = allowed[w])
          /\ At(r, "counting") => requests[r].count \in Nat
      BY <2>1, <2>3, RequestShapes DEF OneByOneInv, About
    <3> QED BY <2>1, <3>1 DEF HandCounts, At
  <2> QED BY <2>1, <2>2, <2>3 DEF OneByOneInv, Watched
<1>6. CASE UNCHANGED vars
  BY <1>6 DEF vars, store, history, OneByOneInv, Watched, UserCounts, HandCounts, RecordCounts, At
<1> QED BY <1>1, <1>2, <1>3, <1>4, <1>5, <1>6 DEF Next

(* For a user whose requests never overlap, whatever other users do and    *)
(* whatever fails between two statements: checkRateLimit allows            *)
(* MaxRequests in a window, MaxAttempts wrong codes that come with their   *)
(* user are answered for an OTP, each of them counted, and a spent OTP is  *)
(* gone.                                                                   *)
THEOREM LimitsHoldOneByOneHolds == Spec => []LimitsHoldOneByOne
<1>1. Init => OneByOneInv
  BY EmailOtpAssumption
  DEF Init, OneByOneInv, Watched, UserCounts, HandCounts, RecordCounts, At, About, Idle
<1>2. IInv /\ OneByOneInv /\ [Next]_vars => OneByOneInv'
  BY OneByOneStep DEF IInv
<1>3. IInv /\ OneByOneInv => LimitsHoldOneByOne
  <2> SUFFICES ASSUME IInv, OneByOneInv, NEW u \in User, ~overlapped[u]
               PROVE  /\ allowed[u] <= MaxRequests
                      /\ \A n \in Serial : guesses[u][n] <= MaxAttempts
                      /\ otp[u] # NoOtp => /\ otp[u].nr \notin consumed[u]
                                           /\ otp[u].attempts = guesses[u][otp[u].nr]
    BY DEF LimitsHoldOneByOne
  <2>1. UserCounts(u) /\ limit[u] <= MaxRequests /\ TypeOK
    BY DEF IInv, Promises, LimitNeverPassed, OneByOneInv
  <2>2. allowed[u] \in Nat /\ limit[u] \in Nat
    BY <2>1, UsersTyped
  <2> QED BY <2>1, <2>2, EmailOtpAssumption DEF UserCounts, RecordCounts
<1> QED BY <1>1, <1>2, <1>3, IInvInvariant, PTL DEF Spec

-----------------------------------------------------------------------------
(* Two requests at a time *)

(* Both requests play for more guesses of one OTP.  Where a request stands *)
(* is the number of attempts it can bring Redis back to before it counts   *)
(* again: what Redis holds, or what the request has read and will write,   *)
(* and short of the limit as long as it owes an answer.                    *)
Lower(a, b) == IF a <= b THEN a ELSE b

(* The attempts the stored record shows of OTP n; all of them if it is     *)
(* gone.                                                                   *)
Attempts(u, n) ==
  IF otp[u] # NoOtp /\ otp[u].nr = n THEN Lower(otp[u].attempts, MaxAttempts) ELSE MaxAttempts

(* Requests that have read a record and not written it back.               *)
Owing == {"guessing", "counted", "writing"}

(* Request r has a guess at OTP n under way.                               *)
Owes(r, u, n) ==
  /\ requests[r].step \in Owing
  /\ requests[r].user = u /\ requests[r].nr = n

(* Request r holds a copy of OTP n that it may write back.                 *)
Holds(r, u, n) ==
  /\ requests[r].step \in {"counted", "writing"}
  /\ requests[r].user = u /\ requests[r].record.nr = n

(* The attempts that would show if r wrote back what it holds.             *)
InHand(r, u, n) ==
  Lower(IF Holds(r, u, n) THEN requests[r].record.attempts - 1 ELSE MaxAttempts,
        IF Owes(r, u, n) THEN MaxAttempts - 1 ELSE MaxAttempts)

(* The lowest number of attempts that r or the store may still show.       *)
Level(r, u, n) == Lower(InHand(r, u, n), Attempts(u, n))

(* Twice the guesses that are left to two requests at levels a and b: each *)
(* time the lower one falls behind the other can go up to the limit.       *)
Twice(d) == d * (d + 3)
Left(a, b) ==
  Twice(MaxAttempts - Lower(a, b) - 1)
    + 2 * (MaxAttempts - (IF a <= b THEN b ELSE a) + 1)

(* What a request has in hand was generated.                               *)
HandKnown(r) ==
  /\ requests[r].step \in Owing => requests[r].nr <= generated[requests[r].user]
  /\ requests[r].step \in {"counted", "writing"} =>
       requests[r].record.nr <= generated[requests[r].user] /\ requests[r].record.attempts >= 1

(* OTPs are numbered as generated, and only generated ones are guessed     *)
(* at.                                                                     *)
NumbersKnown ==
  /\ \A u \in User : otp[u] # NoOtp => otp[u].nr <= generated[u]
  /\ \A u \in User, n \in Serial : n > generated[u] => guesses[u][n] = 0
  /\ \A r \in Request : HandKnown(r)

(* The guesses made at an OTP and those two requests can still make        *)
(* together stay below the bound.                                          *)
GuessesLeft(a, b) ==
  \A u \in User, n \in Serial : n <= generated[u] =>
    2 * guesses[u][n] + Left(Level(a, u, n), Level(b, u, n)) <= MaxAttempts * (MaxAttempts + 3)

(* The invariant of two concurrent requests.                               *)
TwoInv(a, b) == NumbersKnown /\ GuessesLeft(a, b)

(* The lower of two numbers.                                               *)
LEMMA LowerIs ==
  ASSUME NEW a \in Int, NEW b \in Int
  PROVE  Lower(a, b) \in {a, b} /\ Lower(a, b) <= a /\ Lower(a, b) <= b
  BY DEF Lower

(* A level more leaves room for the guesses it allows.                     *)
LEMMA TwiceGrows ==
  ASSUME NEW d \in Int, NEW e \in Int, -1 <= d, d < e
  PROVE  Twice(d) + 2 * (d + 2) <= Twice(e)
<1>1. PICK k \in Nat : e = d + 1 + k
  <2>1. e - d - 1 \in Nat /\ e = d + 1 + (e - d - 1)
    OBVIOUS
  <2> QED BY <2>1
<1>2. PICK c \in Nat : d = c - 1
  <2>1. d + 1 \in Nat /\ d = (d + 1) - 1
    OBVIOUS
  <2> QED BY <2>1
<1>3. Twice(d) + 2 * (d + 2) = (c - 1) * (c + 2) + 2 * (c + 1)
  BY <1>2 DEF Twice
<1>4. Twice(e) = (c + k) * (c + k + 3)
  BY <1>1, <1>2 DEF Twice
<1>5. (c - 1) * (c + 2) + 2 * (c + 1) = c * c + 3 * c
  BY <1>2
<1>6. (c + k) * (c + k + 3) = c * c + 3 * c + 2 * (c * k) + k * k + 3 * k
  BY <1>1, <1>2
<1>7. c * k \in Nat /\ k * k \in Nat
  BY <1>1, <1>2
<1>8. c * c \in Nat
  BY <1>2
<1> QED BY <1>1, <1>2, <1>3, <1>4, <1>5, <1>6, <1>7, <1>8

(* The guesses left at a level are a number.                               *)
LEMMA TwiceTyped ==
  ASSUME NEW d \in Int
  PROVE  Twice(d) \in Int
  BY DEF Twice

(* Higher levels leave fewer guesses.                                      *)
LEMMA LeftFalls ==
  ASSUME NEW a \in 0 .. MaxAttempts, NEW b \in 0 .. MaxAttempts,
         NEW c \in 0 .. MaxAttempts, NEW d \in 0 .. MaxAttempts, a <= c, b <= d
  PROVE  Left(a, b) \in Int /\ Left(c, d) \in Int /\ Left(c, d) <= Left(a, b)
<1>1. MaxAttempts \in Nat
  BY EmailOtpAssumption
<1>2. /\ Lower(a, b) \in Int /\ Lower(c, d) \in Int
      /\ Lower(a, b) <= Lower(c, d) /\ Lower(c, d) <= MaxAttempts
  BY <1>1 DEF Lower
<1> DEFINE low == MaxAttempts - Lower(c, d) - 1
           high == MaxAttempts - Lower(a, b) - 1
<1>3. low \in Int /\ high \in Int /\ -1 <= low /\ low <= high
  BY <1>1, <1>2
<1>4. Twice(low) \in Int /\ Twice(high) \in Int
  BY <1>3, TwiceTyped
<1>5. Twice(low) <= Twice(high)
  <2>1. CASE low < high
    <3> HIDE DEF low, high
    <3>1. Twice(low) + 2 * (low + 2) <= Twice(high)
      BY <1>3, <2>1, TwiceGrows
    <3> QED BY <1>3, <1>4, <3>1
  <2>2. CASE low = high
    <3> HIDE DEF low, high
    <3> QED BY <1>4, <2>2
  <2> QED BY <1>3, <2>1, <2>2
<1>6. /\ Left(a, b) = Twice(high) + 2 * (MaxAttempts - (IF a <= b THEN b ELSE a) + 1)
      /\ Left(c, d) = Twice(low) + 2 * (MaxAttempts - (IF c <= d THEN d ELSE c) + 1)
  BY DEF Left
<1> HIDE DEF low, high
<1> QED BY <1>1, <1>4, <1>5, <1>6

(* It does not matter which of the two requests is which.                  *)
LEMMA LeftSwaps ==
  ASSUME NEW a \in 0 .. MaxAttempts, NEW b \in 0 .. MaxAttempts
  PROVE  Left(a, b) = Left(b, a)
<1>1. Lower(a, b) = Lower(b, a) /\ (IF a <= b THEN b ELSE a) = (IF b <= a THEN a ELSE b)
  BY EmailOtpAssumption DEF Lower
<1> QED BY <1>1 DEF Left

(* Nothing answered yet, and nothing left.                                 *)
LEMMA LeftBounds ==
  ASSUME NEW a \in 0 .. MaxAttempts, NEW b \in 0 .. MaxAttempts
  PROVE  Left(a, b) \in Int /\ 0 <= Left(a, b) /\ Left(a, b) <= MaxAttempts * (MaxAttempts + 3)
<1>1. MaxAttempts \in Nat /\ 0 \in 0 .. MaxAttempts /\ MaxAttempts \in 0 .. MaxAttempts
  BY EmailOtpAssumption
<1>2. Left(a, b) \in Int /\ Left(a, b) <= Left(0, 0) /\ Left(MaxAttempts, MaxAttempts) <= Left(a, b)
  BY <1>1, LeftFalls
<1>3. Left(MaxAttempts, MaxAttempts) = 0
  BY <1>1 DEF Left, Lower, Twice
<1>4. Left(0, 0) = MaxAttempts * (MaxAttempts + 3)
  <2>1. Left(0, 0) = (MaxAttempts - 1) * (MaxAttempts + 2) + 2 * (MaxAttempts + 1)
    BY <1>1 DEF Left, Lower, Twice
  <2> QED BY <1>1, <2>1
<1> QED BY <1>2, <1>3, <1>4

(* The request at h writes its count back and goes on from there.          *)
LEMMA LeftAfterWrite ==
  ASSUME NEW h \in 0 .. MaxAttempts, NEW l \in 0 .. MaxAttempts, h < MaxAttempts
  PROVE  /\ h + 1 \in 0 .. MaxAttempts /\ Lower(l, h + 1) \in 0 .. MaxAttempts
         /\ Left(h + 1, Lower(l, h + 1)) + 2 <= Left(h, l)
<1>1. MaxAttempts \in Nat
  BY EmailOtpAssumption
<1>2. CASE l <= h
  BY <1>1, <1>2, TwiceTyped DEF Left, Lower
<1>3. CASE l > h
  <2>1. Lower(l, h + 1) = h + 1 /\ Lower(h + 1, h + 1) = h + 1 /\ Lower(h, l) = h
    BY <1>1, <1>3 DEF Lower
  <2> DEFINE d == MaxAttempts - (h + 1) - 1
  <2>2. d \in Int /\ d + 1 \in Int /\ -1 <= d /\ d = MaxAttempts - h - 2
    BY <1>1
  <2>3. Left(h + 1, Lower(l, h + 1)) = Twice(d) + 2 * (MaxAttempts - (h + 1) + 1)
    BY <2>1 DEF Left
  <2>4. Left(h, l) = Twice(d + 1) + 2 * (MaxAttempts - l + 1)
    <3>1. MaxAttempts - Lower(h, l) - 1 = d + 1 /\ (IF h <= l THEN l ELSE h) = l
      BY <1>1, <1>3, <2>1
    <3> QED BY <3>1 DEF Left
  <2> HIDE DEF d
  <2>5. Twice(d) + 2 * (d + 2) <= Twice(d + 1)
    BY <2>2, TwiceGrows
  <2>6. Twice(d) \in Int /\ Twice(d + 1) \in Int
    BY <2>2, TwiceTyped
  <2> QED BY <1>1, <2>1, <2>2, <2>3, <2>4, <2>5, <2>6
<1> QED BY <1>1, <1>2, <1>3

(* The numbers when a wrong code is answered: h is where the request that  *)
(* answers stood, l where the other did, c is what Redis holds then.       *)
LEMMA LeftAfterCount ==
  ASSUME NEW h \in 0 .. MaxAttempts, NEW l \in 0 .. MaxAttempts, NEW m \in 0 .. MaxAttempts,
         NEW c \in 0 .. MaxAttempts, h < c, l <= m
  PROVE  Left(c, Lower(m, c)) \in Int /\ Left(h, l) \in Int /\ Left(c, Lower(m, c)) + 2 <= Left(h, l)
<1>1. MaxAttempts \in Nat
  BY EmailOtpAssumption
<1>2. h < MaxAttempts /\ h + 1 <= c
  BY <1>1
<1>3. PICK x \in 0 .. MaxAttempts : x = h + 1
  BY <1>2, LeftAfterWrite
<1>4. PICK y \in 0 .. MaxAttempts : y = Lower(l, h + 1)
  BY <1>2, LeftAfterWrite
<1>5. PICK z \in 0 .. MaxAttempts : z = Lower(m, c)
  BY DEF Lower
<1>6. y <= z
  BY <1>1, <1>2, <1>4, <1>5 DEF Lower
<1>7. Left(x, y) \in Int /\ Left(c, z) \in Int /\ Left(c, z) <= Left(x, y)
  BY <1>2, <1>3, <1>6, LeftFalls
<1>8. Left(x, y) + 2 <= Left(h, l)
  BY <1>2, <1>3, <1>4, LeftAfterWrite
<1>9. Left(h, l) \in Int
  BY LeftBounds
<1> QED BY <1>5, <1>7, <1>8, <1>9

(* Levels are numbers of attempts.                                         *)
LEMMA LevelsTyped ==
  ASSUME TypeOK, NumbersKnown, NEW r \in Request, NEW u \in User, NEW n \in Serial
  PROVE  /\ InHand(r, u, n) \in 0 .. MaxAttempts
         /\ Attempts(u, n) \in 0 .. MaxAttempts
         /\ Level(r, u, n) \in 0 .. MaxAttempts
         /\ Level(r, u, n) <= InHand(r, u, n) /\ Level(r, u, n) <= Attempts(u, n)
<1>1. MaxAttempts \in Nat /\ MaxAttempts >= 1
  BY EmailOtpAssumption
<1>2. Attempts(u, n) \in 0 .. MaxAttempts
  <2>1. otp[u] # NoOtp => otp[u].attempts \in Nat
    BY UsersTyped DEF OtpRecord
  <2> QED BY <1>1, <2>1 DEF Attempts, Lower
<1>3. InHand(r, u, n) \in 0 .. MaxAttempts
  <2>1. Holds(r, u, n) => requests[r].record.attempts \in Nat /\ requests[r].record.attempts >= 1
    BY RequestShapes DEF Holds, At, OtpRecord, NumbersKnown, HandKnown
  <2> QED BY <1>1, <2>1 DEF InHand, Lower
<1> QED BY <1>1, <1>2, <1>3, LowerIs DEF Level

(* Levels are numbers of attempts, as a state predicate.                   *)
LevelsInRange ==
  \A r \in Request, u \in User, n \in Serial :
    /\ InHand(r, u, n) \in 0 .. MaxAttempts
    /\ Attempts(u, n) \in 0 .. MaxAttempts
    /\ Level(r, u, n) \in 0 .. MaxAttempts

(* ... and still are after a step.                                         *)
LEMMA LevelsTypedNext == TypeOK' /\ NumbersKnown' => LevelsInRange'
<1>1. TypeOK /\ NumbersKnown => LevelsInRange
  BY LevelsTyped DEF LevelsInRange
<1> QED BY <1>1, PTL

(* A request that owes nothing can bring nothing back.                     *)
LEMMA NothingOwed ==
  ASSUME TypeOK, NumbersKnown, NEW r \in Request, requests'[r].step \notin Owing
  PROVE  /\ HandKnown(r)'
         /\ \A u \in User, n \in Serial : InHand(r, u, n)' = MaxAttempts
         /\ \A u \in User, n \in Serial : Level(r, u, n) <= InHand(r, u, n)'
<1>1. HandKnown(r)'
  BY DEF HandKnown, Owing
<1>2. MaxAttempts \in Nat
  BY EmailOtpAssumption
<1>3. \A u \in User, n \in Serial : InHand(r, u, n)' = MaxAttempts
  BY <1>2 DEF InHand, Holds, Owes, Owing, Lower
<1>4. \A u \in User, n \in Serial : Level(r, u, n) <= MaxAttempts
  BY <1>2, LevelsTyped
<1> QED BY <1>1, <1>3, <1>4

(* One pair of levels only rises: the answers left do not.                 *)
LEMMA LevelsRise ==
  ASSUME TypeOK, TypeOK', NumbersKnown, NumbersKnown', NEW a \in Request, NEW b \in Request,
         NEW u \in User, NEW n \in Serial,
         2 * guesses[u][n] + Left(Level(a, u, n), Level(b, u, n))
           <= MaxAttempts * (MaxAttempts + 3),
         guesses'[u][n] = guesses[u][n],
         Level(a, u, n) <= Level(a, u, n)', Level(b, u, n) <= Level(b, u, n)'
  PROVE  (2 * guesses[u][n] + Left(Level(a, u, n), Level(b, u, n))
            <= MaxAttempts * (MaxAttempts + 3))'
<1>1. PICK x \in 0 .. MaxAttempts : x = Level(a, u, n)
  BY LevelsTyped
<1>2. PICK y \in 0 .. MaxAttempts : y = Level(b, u, n)
  BY LevelsTyped
<1>3. PICK v \in 0 .. MaxAttempts : v = Level(a, u, n)'
  BY LevelsTypedNext DEF LevelsInRange
<1>4. PICK w \in 0 .. MaxAttempts : w = Level(b, u, n)'
  BY LevelsTypedNext DEF LevelsInRange
<1>5. Left(x, y) \in Int /\ Left(v, w) \in Int /\ Left(v, w) <= Left(x, y)
  BY <1>1, <1>2, <1>3, <1>4, LeftFalls
<1>6. guesses[u][n] \in Nat /\ MaxAttempts * (MaxAttempts + 3) \in Int
  BY UsersTyped, EmailOtpAssumption
<1>7. Left(Level(a, u, n), Level(b, u, n))' = Left(v, w)
  BY <1>3, <1>4 DEF Left
<1>8. 2 * guesses[u][n] + Left(x, y) <= MaxAttempts * (MaxAttempts + 3)
  BY <1>1, <1>2
<1> QED BY <1>5, <1>6, <1>7, <1>8

(* Steps of one request that answer nothing and store nothing new.         *)
LEMMA QuietStep ==
  ASSUME TypeOK, TypeOK', NEW a \in Request, NEW b \in Request, TwoInv(a, b),
         NEW r \in Request, \A s \in Request : s # r => requests'[s] = requests[s],
         UNCHANGED <<generated, guesses>>,
         \A u \in User : otp'[u] = otp[u] \/ otp'[u] = NoOtp,
         HandKnown(r)',
         \A u \in User, n \in Serial : Level(r, u, n) <= InHand(r, u, n)'
  PROVE  TwoInv(a, b)'
<1>1. NumbersKnown /\ GuessesLeft(a, b)
  BY DEF TwoInv
<1>2. NumbersKnown'
  <2>1. \A s \in Request : HandKnown(s)'
    BY <1>1 DEF NumbersKnown, HandKnown
  <2> QED BY <1>1, <2>1 DEF NumbersKnown
<1>3. MaxAttempts \in Nat
  BY EmailOtpAssumption
<1>4. ASSUME NEW u \in User, NEW n \in Serial PROVE Attempts(u, n) <= Attempts(u, n)'
  <2>1. Attempts(u, n) <= MaxAttempts /\ Attempts(u, n) \in Int
    BY <1>1, LevelsTyped, <1>3
  <2> QED BY <2>1 DEF Attempts
<1>5. ASSUME NEW s \in Request, NEW u \in User, NEW n \in Serial
      PROVE  Level(s, u, n) <= Level(s, u, n)'
  <2>1. Level(s, u, n) <= InHand(s, u, n)'
    <3>1. s # r => InHand(s, u, n)' = InHand(s, u, n)
      BY DEF InHand, Holds, Owes
    <3> QED BY <1>1, <3>1, LevelsTyped
  <2>2. Level(s, u, n) <= Attempts(u, n)'
    <3>1. Level(s, u, n) <= Attempts(u, n) /\ Level(s, u, n) \in Int /\ Attempts(u, n) \in Int
      BY <1>1, <1>3, LevelsTyped
    <3>2. Attempts(u, n)' \in Int
      BY <1>2, <1>3, LevelsTypedNext DEF LevelsInRange
    <3> QED BY <1>4, <3>1, <3>2
  <2>3. PICK x \in Int : x = InHand(s, u, n)'
    BY <1>2, <1>3, LevelsTypedNext DEF LevelsInRange
  <2>4. PICK y \in Int : y = Attempts(u, n)'
    BY <1>2, <1>3, LevelsTypedNext DEF LevelsInRange
  <2>5. Level(s, u, n)' = Lower(x, y)
    BY <2>3, <2>4 DEF Level, Lower
  <2> QED BY <2>1, <2>2, <2>3, <2>4, <2>5 DEF Lower
<1>6. GuessesLeft(a, b)'
  <2> SUFFICES ASSUME NEW u \in User, NEW n \in Serial, n <= generated[u]
               PROVE  (2 * guesses[u][n] + Left(Level(a, u, n), Level(b, u, n))
                        <= MaxAttempts * (MaxAttempts + 3))'
    BY DEF GuessesLeft
  <2> QED BY <1>1, <1>2, <1>5, LevelsRise DEF GuessesLeft
<1> QED BY <1>2, <1>6 DEF TwoInv

(* A new OTP: nothing was answered for it.                                 *)
LEMMA TwoStore ==
  ASSUME TypeOK, TypeOK', NEW a \in Request, NEW b \in Request, TwoInv(a, b),
         NEW r \in Request, NEW code \in Code, StoreOtp(r, code)
  PROVE  TwoInv(a, b)'
<1>1. NumbersKnown /\ GuessesLeft(a, b)
  BY DEF TwoInv
<1>2. PICK w \in User : w = requests[r].user
  BY RequestShapes DEF StoreOtp, At
<1>3. PICK k \in Nat : k = generated[w] /\ k + 1 \in Serial
  <2>1. generated[w] \in 0 .. MaxOtps /\ generated[w] < MaxOtps
    BY <1>2, UsersTyped DEF StoreOtp
  <2> QED BY <2>1, EmailOtpAssumption DEF Serial
<1>4. /\ otp'[w].nr = k + 1 /\ otp'[w] # NoOtp
      /\ generated'[w] = k + 1
      /\ \A u \in User : u # w => otp'[u] = otp[u] /\ generated'[u] = generated[u]
      /\ guesses' = guesses
      /\ requests'[r].step = "idle"
      /\ \A s \in Request : s # r => requests'[s] = requests[s]
  <2>1. otp'[w] = [nr |-> k + 1, code |-> code, attempts |-> 0]
    BY <1>2, <1>3 DEF StoreOtp, TypeOK
  <2>2. otp'[w] # NoOtp
    BY <1>3, <2>1, EmailOtpAssumption DEF OtpRecord
  <2> QED BY <1>2, <1>3, <2>1, <2>2 DEF StoreOtp, Finish, Go, Idle, TypeOK
<1>5. requests'[r].step \notin Owing
  BY <1>4 DEF Owing
<1>6. \A u \in User : generated[u] \in Nat /\ generated'[u] \in Nat /\ generated[u] <= generated'[u]
  <2>1. \A u \in User : generated[u] \in Nat
    BY UsersTyped, EmailOtpAssumption
  <2> QED BY <1>3, <1>4, <2>1
<1>7. NumbersKnown'
  <2>1. HandKnown(r)'
    BY <1>1, <1>5, NothingOwed
  <2>2. ASSUME NEW s \in Request, s # r PROVE HandKnown(s)'
    <3>1. HandKnown(s) /\ requests'[s] = requests[s]
      BY <1>1, <1>4, <2>2 DEF NumbersKnown
    <3>2. requests[s].step \in Owing => requests[s].user \in User /\ requests[s].nr \in Serial
      BY RequestShapes DEF At, Owing
    <3>3. requests[s].step \in {"counted", "writing"} =>
            requests[s].user \in User /\ requests[s].record.nr \in Serial
      BY RequestShapes DEF At, OtpRecord
    <3>4. \A n \in Serial : n \in Nat
      BY EmailOtpAssumption DEF Serial
    <3> QED BY <1>6, <3>1, <3>2, <3>3, <3>4 DEF HandKnown
  <2>3. \A u \in User : otp'[u] # NoOtp => otp'[u].nr <= generated'[u]
    BY <1>1, <1>3, <1>4 DEF NumbersKnown
  <2>4. \A u \in User, n \in Serial : n > generated'[u] => guesses'[u][n] = 0
    BY <1>1, <1>4, <1>6, EmailOtpAssumption DEF NumbersKnown, Serial
  <2> QED BY <2>1, <2>2, <2>3, <2>4 DEF NumbersKnown
<1>8. GuessesLeft(a, b)'
  <2> SUFFICES ASSUME NEW u \in User, NEW n \in Serial, n <= generated'[u]
               PROVE  (2 * guesses[u][n] + Left(Level(a, u, n), Level(b, u, n))
                        <= MaxAttempts * (MaxAttempts + 3))'
    BY DEF GuessesLeft
  <2>1. CASE n <= generated[u]
    <3>1. Attempts(u, n) <= Attempts(u, n)'
      <4>1. Attempts(u, n) \in 0 .. MaxAttempts /\ MaxAttempts \in Nat
        BY <1>1, LevelsTyped, EmailOtpAssumption
      <4>2. CASE u = w
        <5>1. otp'[u].nr # n
          BY <1>3, <1>4, <2>1, <4>2, EmailOtpAssumption DEF Serial
        <5> QED BY <4>1, <5>1 DEF Attempts
      <4>3. CASE u # w
        BY <1>4, <4>1, <4>3 DEF Attempts
      <4> QED BY <4>2, <4>3
    <3>2. ASSUME NEW s \in Request PROVE Level(s, u, n) <= Level(s, u, n)'
      <4>1. Level(s, u, n) <= InHand(s, u, n)'
        <5>1. s # r => InHand(s, u, n)' = InHand(s, u, n)
          BY <1>4 DEF InHand, Holds, Owes
        <5> QED BY <1>1, <1>5, <5>1, LevelsTyped, NothingOwed
      <4>2. PICK x \in Int : x = InHand(s, u, n)'
        BY <1>7, EmailOtpAssumption, LevelsTypedNext DEF LevelsInRange
      <4>3. PICK y \in Int : y = Attempts(u, n)'
        BY <1>7, EmailOtpAssumption, LevelsTypedNext DEF LevelsInRange
      <4>4. Level(s, u, n)' = Lower(x, y)
        BY <4>2, <4>3 DEF Level, Lower
      <4>5. Level(s, u, n) <= Attempts(u, n) /\ Level(s, u, n) \in Int /\ Attempts(u, n) \in Int
        BY <1>1, LevelsTyped, EmailOtpAssumption
      <4> QED BY <3>1, <4>1, <4>2, <4>3, <4>4, <4>5 DEF Lower
    <3> QED BY <1>1, <1>4, <1>7, <2>1, <3>2, LevelsRise DEF GuessesLeft
  <2>2. CASE ~(n <= generated[u])
    <3>1. guesses'[u][n] = 0
      BY <1>1, <1>4, <1>6, <2>2, EmailOtpAssumption DEF NumbersKnown, Serial
    <3>2. PICK x \in 0 .. MaxAttempts : x = Level(a, u, n)'
      BY <1>7, LevelsTypedNext DEF LevelsInRange
    <3>3. PICK y \in 0 .. MaxAttempts : y = Level(b, u, n)'
      BY <1>7, LevelsTypedNext DEF LevelsInRange
    <3>4. Left(x, y) \in Int /\ Left(x, y) <= MaxAttempts * (MaxAttempts + 3)
      BY LeftBounds
    <3>5. Left(Level(a, u, n), Level(b, u, n))' = Left(x, y)
      BY <3>2, <3>3 DEF Left
    <3> QED BY <3>1, <3>4, <3>5
  <2> QED BY <2>1, <2>2
<1> QED BY <1>7, <1>8 DEF TwoInv

(* One answer costs what is left two of its halves, or it was none for     *)
(* this OTP and Redis counts no less for it than before.                   *)
LEMMA AnswerCounts ==
  ASSUME TypeOK, NumbersKnown, NEW r \in Request,
         At(r, "counted") \/ At(r, "writing"), AnswerWrong(r),
         \/ otp' = otp /\ otp[requests[r].user] = NoOtp
         \/ otp' = [otp EXCEPT ![requests[r].user] = requests[r].record],
         NEW u \in User, NEW n \in Serial
  PROVE  /\ guesses'[u][n] \in {guesses[u][n], guesses[u][n] + 1}
         /\ \/ Level(r, u, n) < Attempts(u, n)'
            \/ guesses'[u][n] = guesses[u][n] /\ Attempts(u, n) <= Attempts(u, n)'
<1>1. PICK w \in User : w = requests[r].user
  BY RequestShapes
<1>2. PICK k \in Serial : k = requests[r].nr
  BY RequestShapes
<1>3. PICK o \in OtpRecord : o = requests[r].record
  BY RequestShapes
<1>4. o.attempts \in Nat /\ o.attempts >= 1 /\ MaxAttempts \in Nat /\ MaxAttempts >= 1 /\ o # NoOtp
  BY <1>3, EmailOtpAssumption DEF OtpRecord, NumbersKnown, HandKnown, At
<1>5. guesses' = [guesses EXCEPT ![w][k] = @ + 1]
  BY <1>1, <1>2 DEF AnswerWrong
<1>6. /\ guesses'[w][k] = guesses[w][k] + 1
      /\ u # w \/ n # k => guesses'[u][n] = guesses[u][n]
  BY <1>5 DEF TypeOK
<1>7. /\ Level(r, u, n) <= InHand(r, u, n) /\ Level(r, u, n) \in Int /\ InHand(r, u, n) \in Int
      /\ Attempts(u, n) \in Int /\ Attempts(u, n) <= MaxAttempts
  BY LevelsTyped, EmailOtpAssumption
<1>8. Owes(r, u, n) <=> u = w /\ n = k
  BY <1>1, <1>2 DEF Owes, Owing, At
<1>9. Holds(r, u, n) <=> u = w /\ n = o.nr
  BY <1>1, <1>3 DEF Holds, At
<1>10. InHand(r, u, n) = Lower(IF u = w /\ n = o.nr THEN o.attempts - 1 ELSE MaxAttempts,
                               IF u = w /\ n = k THEN MaxAttempts - 1 ELSE MaxAttempts)
  BY <1>3, <1>8, <1>9 DEF InHand
<1>11. CASE u # w
  <2>1. otp'[u] = otp[u]
    BY <1>1, <1>11 DEF TypeOK
  <2>2. Attempts(u, n)' = Attempts(u, n)
    BY <2>1 DEF Attempts
  <2> QED BY <1>6, <1>7, <1>11, <2>2
<1>12. CASE u = w /\ otp'[w] = NoOtp
  <2>1. Attempts(u, n)' = MaxAttempts
    BY <1>12 DEF Attempts
  <2>2. n = k => InHand(r, u, n) < MaxAttempts
    BY <1>4, <1>10, <1>12 DEF Lower
  <2> QED BY <1>4, <1>6, <1>7, <2>1, <2>2
<1>13. CASE u = w /\ otp'[w] = o /\ n = o.nr
  <2>1. Attempts(u, n)' = Lower(o.attempts, MaxAttempts)
    BY <1>4, <1>13 DEF Attempts, Lower
  <2>2. n = k => InHand(r, u, n) < Lower(o.attempts, MaxAttempts)
    BY <1>4, <1>10, <1>13 DEF Lower
  <2>3. n # k => \/ InHand(r, u, n) < Lower(o.attempts, MaxAttempts)
                 \/ Lower(o.attempts, MaxAttempts) = MaxAttempts
    BY <1>4, <1>10, <1>13 DEF Lower
  <2>4. Lower(o.attempts, MaxAttempts) \in Int
    BY <1>4 DEF Lower
  <2> QED BY <1>4, <1>6, <1>7, <2>1, <2>2, <2>3, <2>4
<1>14. CASE u = w /\ otp'[w] = o /\ n # o.nr
  <2>1. Attempts(u, n)' = MaxAttempts
    BY <1>14 DEF Attempts
  <2>2. n = k => InHand(r, u, n) < MaxAttempts
    BY <1>4, <1>10, <1>14 DEF Lower
  <2> QED BY <1>4, <1>6, <1>7, <2>1, <2>2
<1> QED
  <2>1. otp'[w] = NoOtp \/ otp'[w] = o
    BY <1>1, <1>3 DEF TypeOK
  <2> QED BY <1>11, <1>12, <1>13, <1>14, <2>1

(* The answer of one of two requests.                                      *)
LEMMA TwoAnswer ==
  ASSUME TypeOK, TypeOK', NEW r \in Request, NEW o \in Request, r # o,
         NumbersKnown, NumbersKnown',
         At(r, "counted") \/ At(r, "writing"), AnswerWrong(r),
         \/ otp' = otp /\ otp[requests[r].user] = NoOtp
         \/ otp' = [otp EXCEPT ![requests[r].user] = requests[r].record],
         NEW u \in User, NEW n \in Serial,
         2 * guesses[u][n] + Left(Level(r, u, n), Level(o, u, n))
           <= MaxAttempts * (MaxAttempts + 3)
  PROVE  (2 * guesses[u][n] + Left(Level(r, u, n), Level(o, u, n))
            <= MaxAttempts * (MaxAttempts + 3))'
<1>1. /\ requests'[r].step \notin Owing
      /\ requests'[o] = requests[o]
  BY AnswerTypeOK DEF Owing
<1>2. PICK c \in 0 .. MaxAttempts : c = Attempts(u, n)'
  BY LevelsTypedNext DEF LevelsInRange
<1>3. PICK m \in 0 .. MaxAttempts : m = InHand(o, u, n)
  BY LevelsTyped
<1>4. PICK h \in 0 .. MaxAttempts : h = Level(r, u, n)
  BY LevelsTyped
<1>5. PICK l \in 0 .. MaxAttempts : l = Level(o, u, n)
  BY LevelsTyped
<1>6. PICK d \in 0 .. MaxAttempts : d = Attempts(u, n)
  BY LevelsTyped
<1>7. l <= m /\ l = Lower(m, d) /\ h <= d
  BY <1>3, <1>4, <1>5, <1>6, LevelsTyped DEF Level
<1>8. Level(o, u, n)' = Lower(m, c)
  <2>1. InHand(o, u, n)' = m
    BY <1>1, <1>3 DEF InHand, Holds, Owes
  <2> QED BY <1>2, <2>1 DEF Level, Lower
<1>9. Level(r, u, n)' = c
  <2>1. InHand(r, u, n)' = MaxAttempts
    BY <1>1, NothingOwed
  <2> QED BY <1>2, <2>1, EmailOtpAssumption DEF Level, Lower
<1>10. Left(Level(r, u, n), Level(o, u, n))' = Left(c, Lower(m, c))
  BY <1>8, <1>9 DEF Left
<1>11. /\ guesses'[u][n] \in {guesses[u][n], guesses[u][n] + 1}
       /\ h < c \/ (guesses'[u][n] = guesses[u][n] /\ d <= c)
  BY <1>2, <1>4, <1>6, AnswerCounts
<1>12. guesses[u][n] \in Nat /\ MaxAttempts * (MaxAttempts + 3) \in Int
  BY UsersTyped, EmailOtpAssumption
<1>13. 2 * guesses[u][n] + Left(h, l) <= MaxAttempts * (MaxAttempts + 3)
  BY <1>4, <1>5
<1>14. CASE h < c
  <2>1. Left(c, Lower(m, c)) \in Int /\ Left(h, l) \in Int /\ Left(c, Lower(m, c)) + 2 <= Left(h, l)
    BY <1>7, <1>14, LeftAfterCount
  <2> QED BY <1>10, <1>11, <1>12, <1>13, <2>1
<1>15. CASE guesses'[u][n] = guesses[u][n] /\ d <= c
  <2>1. PICK z \in 0 .. MaxAttempts : z = Lower(m, c)
    BY DEF Lower
  <2>2. h <= c /\ l <= z
    BY <1>7, <1>15, <2>1, EmailOtpAssumption DEF Lower
  <2>3. Left(h, l) \in Int /\ Left(c, z) \in Int /\ Left(c, z) <= Left(h, l)
    BY <2>2, LeftFalls
  <2> QED BY <1>10, <1>12, <1>13, <1>15, <2>1, <2>3
<1> QED BY <1>11, <1>14, <1>15

(* The two requests are alike.                                             *)
LEMMA TwoSwaps ==
  ASSUME NEW a \in Request, NEW b \in Request
  PROVE  /\ TypeOK /\ TwoInv(a, b) => TwoInv(b, a)
         /\ TypeOK' /\ TwoInv(a, b)' => TwoInv(b, a)'
<1>1. TypeOK /\ TwoInv(a, b) => TwoInv(b, a)
  <2> SUFFICES ASSUME TypeOK, TwoInv(a, b), NEW u \in User, NEW n \in Serial, n <= generated[u]
               PROVE  2 * guesses[u][n] + Left(Level(b, u, n), Level(a, u, n))
                        <= MaxAttempts * (MaxAttempts + 3)
    BY DEF TwoInv, GuessesLeft
  <2>1. Left(Level(b, u, n), Level(a, u, n)) = Left(Level(a, u, n), Level(b, u, n))
    BY LevelsTyped, LeftSwaps DEF TwoInv
  <2> QED BY <2>1 DEF TwoInv, GuessesLeft
<1> QED BY <1>1, PTL

(* A wrong guess of either request is paid for by a level.                 *)
LEMMA TwoAnswered ==
  ASSUME TypeOK, TypeOK', NEW r \in Request, NEW o \in Request, r # o, TwoInv(r, o),
         At(r, "counted") \/ At(r, "writing"), AnswerWrong(r),
         \/ otp' = otp /\ otp[requests[r].user] = NoOtp
         \/ otp' = [otp EXCEPT ![requests[r].user] = requests[r].record],
         UNCHANGED generated
  PROVE  TwoInv(r, o)'
<1>1. NumbersKnown /\ GuessesLeft(r, o)
  BY DEF TwoInv
<1>2. PICK w \in User : w = requests[r].user
  BY RequestShapes
<1>3. PICK k \in Serial : k = requests[r].nr
  BY RequestShapes
<1>4. guesses' = [guesses EXCEPT ![w][k] = @ + 1]
  BY <1>2, <1>3 DEF AnswerWrong
<1>5. k <= generated[w] /\ requests[r].record.nr <= generated[w]
  BY <1>1, <1>2, <1>3 DEF NumbersKnown, HandKnown, Owing, At
<1>6. requests'[r].step \notin Owing /\ \A s \in Request : s # r => requests'[s] = requests[s]
  BY AnswerTypeOK DEF Owing
<1>7. NumbersKnown'
  <2>1. HandKnown(r)'
    BY <1>1, <1>6, NothingOwed
  <2>2. \A s \in Request : s # r => HandKnown(s)'
    BY <1>1, <1>6 DEF NumbersKnown, HandKnown
  <2>3. \A u \in User : otp'[u] # NoOtp => otp'[u].nr <= generated'[u]
    <3>1. \A u \in User : otp'[u] = otp[u] \/ (u = w /\ otp'[u] = requests[r].record)
      BY <1>2 DEF TypeOK
    <3> QED BY <1>1, <1>5, <3>1 DEF NumbersKnown
  <2>4. \A u \in User, n \in Serial : n > generated'[u] => guesses'[u][n] = 0
    <3>1. generated[w] \in Nat /\ k \in Nat
      BY <1>3, UsersTyped, EmailOtpAssumption DEF Serial
    <3>2. \A u \in User, n \in Serial : u # w \/ n # k => guesses'[u][n] = guesses[u][n]
      BY <1>4 DEF TypeOK
    <3> QED BY <1>1, <1>5, <3>1, <3>2 DEF NumbersKnown
  <2> QED BY <2>1, <2>2, <2>3, <2>4 DEF NumbersKnown
<1>8. GuessesLeft(r, o)'
  <2> SUFFICES ASSUME NEW u \in User, NEW n \in Serial, n <= generated[u]
               PROVE  (2 * guesses[u][n] + Left(Level(r, u, n), Level(o, u, n))
                        <= MaxAttempts * (MaxAttempts + 3))'
    BY DEF GuessesLeft
  <2> QED BY <1>1, <1>7, TwoAnswer DEF GuessesLeft
<1> QED BY <1>7, <1>8 DEF TwoInv

(* A step that ends a guess or has none leaves at least what there was.    *)
LEMMA FreeQuiet ==
  ASSUME TypeOK, TypeOK', NEW a \in Request, NEW b \in Request, TwoInv(a, b),
         NEW r \in Request, NEW q, Go(r, q), q.step \notin Owing,
         UNCHANGED <<generated, guesses>>,
         \A u \in User : otp'[u] = otp[u] \/ otp'[u] = NoOtp
  PROVE  TwoInv(a, b)'
<1>1. requests'[r] = q /\ \A s \in Request : s # r => requests'[s] = requests[s]
  BY DEF Go, TypeOK
<1>2. HandKnown(r)' /\ \A u \in User, n \in Serial : Level(r, u, n) <= InHand(r, u, n)'
  BY <1>1, NothingOwed DEF TwoInv
<1> QED BY <1>1, <1>2, QuietStep

(* A step that moves no request and stores nothing new.                    *)
LEMMA TwoStill ==
  ASSUME TypeOK, TypeOK', NEW a \in Request, NEW b \in Request, TwoInv(a, b),
         UNCHANGED <<requests, generated, guesses>>,
         \A u \in User : otp'[u] = otp[u] \/ otp'[u] = NoOtp
  PROVE  TwoInv(a, b)'
<1>1. HandKnown(a)'
  BY DEF HandKnown, TwoInv, NumbersKnown
<1>2. ASSUME NEW u \in User, NEW n \in Serial PROVE Level(a, u, n) <= InHand(a, u, n)'
  <2>1. InHand(a, u, n)' = InHand(a, u, n)
    BY DEF InHand, Holds, Owes
  <2> QED BY <2>1, LevelsTyped DEF TwoInv
<1> QED BY <1>1, <1>2, QuietStep

(* A new OTP starts with all guesses left.                                 *)
LEMMA TwoGenerate ==
  ASSUME TypeOK, TypeOK', NEW a \in Request, NEW b \in Request, TwoInv(a, b),
         NEW r \in Request, Generate(r)
  PROVE  TwoInv(a, b)'
<1> USE DEF Owing, store, history
<1>1. ASSUME NEW u \in User, ReadLimit(r, u) PROVE TwoInv(a, b)'
  BY <1>1, FreeQuiet DEF ReadLimit
<1>2. ASSUME NEW u \in User, RequestResend(r, u) PROVE TwoInv(a, b)'
  BY <1>2, FreeQuiet DEF RequestResend
<1>3. CASE ReadUnverified(r)
  <2>1. requests[r] = [step |-> "resending", user |-> requests[r].user]
    BY <1>3, RequestShapes DEF ReadUnverified, At
  <2>2. [requests[r] EXCEPT !.step = "clearing"].step \notin Owing
    BY <2>1
  <2> QED BY <1>3, <2>2, FreeQuiet DEF ReadUnverified
<1>4. CASE DeleteForResend(r)
  <2>1. \A u \in User : otp'[u] = otp[u] \/ otp'[u] = NoOtp
    BY <1>4 DEF DeleteForResend, TypeOK
  <2> QED BY <1>4, <2>1, FreeQuiet DEF DeleteForResend
<1>5. CASE WriteLimit(r)
  BY <1>5, FreeQuiet DEF WriteLimit
<1>6. ASSUME NEW code \in Code, StoreOtp(r, code) PROVE TwoInv(a, b)'
  BY <1>6, TwoStore
<1> QED BY <1>1, <1>2, <1>3, <1>4, <1>5, <1>6 DEF Generate

(* Verifying keeps the bound, whichever request verifies.                  *)
LEMMA TwoVerify ==
  ASSUME TypeOK, TypeOK', NEW a \in Request, NEW b \in Request, a # b, Request = {a, b},
         TwoInv(a, b), NEW r \in Request, Verify(r)
  PROVE  TwoInv(a, b)'
<1> USE DEF store, history
<1>1. ASSUME NEW u \in User, FindByCode(r, u) PROVE TwoInv(a, b)'
  BY <1>1, FreeQuiet DEF FindByCode, Owing
<1>2. ASSUME NEW u \in User, NEW code \in Code, SeeLocked(r, u, code) PROVE TwoInv(a, b)'
  BY <1>2, FreeQuiet DEF SeeLocked, Owing
<1>3. ASSUME NEW u \in User, NEW code \in Code, SeeWrong(r, u, code) PROVE TwoInv(a, b)'
  <2>1. /\ otp[u] \in OtpRecord /\ otp[u] # NoOtp /\ otp[u].attempts < MaxAttempts
        /\ otp[u].attempts \in Nat
    BY <1>3, UsersTyped DEF SeeWrong, OtpRecord
  <2>2. /\ requests'[r].step = "guessing" /\ requests'[r].user = u /\ requests'[r].nr = otp[u].nr
        /\ \A s \in Request : s # r => requests'[s] = requests[s]
        /\ otp' = otp /\ generated' = generated /\ guesses' = guesses
    BY <1>3 DEF SeeWrong, Go, TypeOK
  <2>3. HandKnown(r)'
    BY <2>1, <2>2 DEF HandKnown, TwoInv, NumbersKnown
  <2>4. ASSUME NEW v \in User, NEW n \in Serial PROVE Level(r, v, n) <= InHand(r, v, n)'
    <3>1. /\ Level(r, v, n) <= Attempts(v, n) /\ Level(r, v, n) \in Int
          /\ Attempts(v, n) \in Int /\ Level(r, v, n) <= MaxAttempts /\ MaxAttempts \in Nat
      BY LevelsTyped, EmailOtpAssumption DEF TwoInv
    <3>2. v = u /\ n = otp[u].nr => Attempts(v, n) <= MaxAttempts - 1
      BY <2>1, <3>1 DEF Attempts, Lower
    <3>3. InHand(r, v, n)' =
            Lower(MaxAttempts, IF v = u /\ n = otp[u].nr THEN MaxAttempts - 1 ELSE MaxAttempts)
      BY <2>2 DEF InHand, Holds, Owes, Owing
    <3> QED BY <3>1, <3>2, <3>3 DEF Lower
  <2> QED BY <2>2, <2>3, <2>4, QuietStep
<1>4. ASSUME NEW u \in User, NEW code \in Code, NEW reset \in BOOLEAN, SeeMatch(r, u, code, reset)
      PROVE  TwoInv(a, b)'
  BY <1>4, FreeQuiet DEF SeeMatch, Owing
<1>5. CASE ReadAttempts(r)
  <2>1. PICK u \in User : u = requests[r].user
    BY <1>5, RequestShapes DEF ReadAttempts
  <2>2. PICK k \in Serial : k = requests[r].nr
    BY <1>5, RequestShapes DEF ReadAttempts
  <2>3. /\ otp[u] \in OtpRecord /\ otp[u] # NoOtp /\ otp[u].attempts \in Nat
        /\ otp[u].nr <= generated[u] /\ k <= generated[u]
    BY <1>5, <2>1, <2>2, UsersTyped
    DEF ReadAttempts, OtpRecord, TwoInv, NumbersKnown, HandKnown, At, Owing
  <2> DEFINE o == [otp[u] EXCEPT !.attempts = @ + 1]
  <2>4. o.nr = otp[u].nr /\ o.attempts = otp[u].attempts + 1
    BY <2>3 DEF OtpRecord
  <2>5. Go(r, [step |-> "counted", user |-> u, nr |-> k, record |-> o])
    BY <1>5, <2>1, <2>2 DEF ReadAttempts
  <2> HIDE DEF o
  <2>6. /\ requests'[r].step = "counted" /\ requests'[r].user = u /\ requests'[r].nr = k
        /\ requests'[r].record = o
        /\ \A s \in Request : s # r => requests'[s] = requests[s]
        /\ otp' = otp /\ generated' = generated /\ guesses' = guesses
    BY <1>5, <2>5 DEF ReadAttempts, Go, TypeOK
  <2>7. HandKnown(r)'
    BY <2>3, <2>4, <2>6 DEF HandKnown
  <2>8. ASSUME NEW v \in User, NEW n \in Serial PROVE Level(r, v, n) <= InHand(r, v, n)'
    <3>1. /\ Level(r, v, n) <= Attempts(v, n) /\ Level(r, v, n) <= InHand(r, v, n)
          /\ Level(r, v, n) \in Int /\ Attempts(v, n) \in Int /\ InHand(r, v, n) \in Int
          /\ Level(r, v, n) <= MaxAttempts /\ MaxAttempts \in Nat
      BY LevelsTyped, EmailOtpAssumption DEF TwoInv
    <3>2. v = u /\ n = otp[u].nr => Attempts(v, n) <= otp[u].attempts
      BY <2>3, <3>1 DEF Attempts, Lower
    <3>3. v = u /\ n = k => InHand(r, v, n) <= MaxAttempts - 1
      BY <1>5, <2>1, <2>2, <3>1 DEF ReadAttempts, At, InHand, Holds, Owes, Owing, Lower
    <3>4. InHand(r, v, n)' =
            Lower(IF v = u /\ n = otp[u].nr THEN otp[u].attempts ELSE MaxAttempts,
                  IF v = u /\ n = k THEN MaxAttempts - 1 ELSE MaxAttempts)
      <4>1. Holds(r, v, n)' <=> v = u /\ n = otp[u].nr
        BY <2>4, <2>6 DEF Holds
      <4>2. Owes(r, v, n)' <=> v = u /\ n = k
        BY <2>6 DEF Owes, Owing
      <4>3. requests'[r].record.attempts - 1 = otp[u].attempts
        BY <2>3, <2>4, <2>6
      <4> QED BY <4>1, <4>2, <4>3 DEF InHand
    <3> QED BY <2>3, <3>1, <3>2, <3>3, <3>4 DEF Lower
  <2> QED BY <2>6, <2>7, <2>8, QuietStep
<1>6. CASE ReadTtl(r)
  <2>1. /\ requests[r] \in [step : {"counted", "writing"}, user : User, nr : Serial, record : OtpRecord]
        /\ requests[r].step = "counted"
    BY <1>6, RequestShapes DEF ReadTtl, At
  <2>2. /\ requests'[r].step = "writing" /\ requests'[r].user = requests[r].user
        /\ requests'[r].nr = requests[r].nr /\ requests'[r].record = requests[r].record
        /\ \A s \in Request : s # r => requests'[s] = requests[s]
        /\ otp' = otp /\ generated' = generated /\ guesses' = guesses
    BY <1>6, <2>1 DEF ReadTtl, Go, TypeOK
  <2>3. HandKnown(r)'
    BY <2>1, <2>2 DEF HandKnown, TwoInv, NumbersKnown, Owing
  <2>4. ASSUME NEW v \in User, NEW n \in Serial PROVE Level(r, v, n) <= InHand(r, v, n)'
    <3>1. Level(r, v, n) <= InHand(r, v, n)
      BY LevelsTyped DEF TwoInv
    <3>2. InHand(r, v, n)' = InHand(r, v, n)
      BY <2>1, <2>2 DEF InHand, Holds, Owes, Owing
    <3> QED BY <3>1, <3>2
  <2> QED BY <2>2, <2>3, <2>4, QuietStep
<1>7. ASSUME SkipAttempts(r) \/ WriteAttempts(r) PROVE TwoInv(a, b)'
  <2>1. /\ At(r, "counted") \/ At(r, "writing")
        /\ AnswerWrong(r)
        /\ \/ otp' = otp /\ otp[requests[r].user] = NoOtp
           \/ otp' = [otp EXCEPT ![requests[r].user] = requests[r].record]
        /\ UNCHANGED generated
    BY <1>7 DEF SkipAttempts, WriteAttempts
  <2>2. CASE r = a
    BY <2>1, <2>2, TwoAnswered
  <2>3. CASE r = b
    <3>1. TwoInv(b, a)
      BY TwoSwaps
    <3>2. TwoInv(b, a)'
      BY <2>1, <2>3, <3>1, TwoAnswered
    <3> QED BY <3>2, TwoSwaps
  <2> QED BY <2>2, <2>3
<1>8. ASSUME DeleteLocked(r) PROVE TwoInv(a, b)'
  <2>1. \A u \in User : otp'[u] = otp[u] \/ otp'[u] = NoOtp
    BY <1>8 DEF DeleteLocked, TypeOK
  <2> QED BY <1>8, <2>1, FreeQuiet DEF DeleteLocked, Finish, Idle, Owing
<1>9. CASE MarkVerified(r)
  BY <1>9, FreeQuiet DEF MarkVerified, Owing
<1>10. CASE ConsumeOtp(r)
  <2>1. \A u \in User : otp'[u] = otp[u] \/ otp'[u] = NoOtp
    BY <1>10 DEF ConsumeOtp, TypeOK
  <2>2. PICK q : /\ Go(r, q)
                 /\ \/ q = [step |-> "changing", user |-> requests[r].user, nr |-> requests[r].nr]
                    \/ q = Idle
    BY <1>10 DEF ConsumeOtp
  <2>3. q.step \notin Owing
    BY <2>2 DEF Owing, Idle
  <2> QED BY <1>10, <2>1, <2>2, <2>3, FreeQuiet DEF ConsumeOtp
<1>11. CASE ChangePassword(r)
  BY <1>11, FreeQuiet DEF ChangePassword, Finish, Idle, Owing
<1>12. ASSUME NEW code \in Code, NEW tenant \in SUBSET User, MissByCode(r, code, tenant)
       PROVE  TwoInv(a, b)'
  BY <1>12, TwoStill DEF MissByCode
<1> QED BY <1>1, <1>2, <1>3, <1>4, <1>5, <1>6, <1>7, <1>8, <1>9, <1>10, <1>11, <1>12 DEF Verify

(* Every step of two requests keeps the bound.                             *)
LEMMA TwoStep ==
  ASSUME TypeOK, TypeOK', NEW a \in Request, NEW b \in Request, a # b, Request = {a, b},
         TwoInv(a, b), [Next]_vars
  PROVE  TwoInv(a, b)'
<1>1. ASSUME NEW r \in Request, Generate(r) PROVE TwoInv(a, b)'
  BY <1>1, TwoGenerate
<1>2. ASSUME NEW r \in Request, Verify(r) PROVE TwoInv(a, b)'
  BY <1>2, TwoVerify
<1>3. ASSUME NEW r \in Request, Fail(r) PROVE TwoInv(a, b)'
  BY <1>3, FreeQuiet DEF Fail, Finish, Idle, Owing, store, history
<1>5. ASSUME NEW u \in User, ExpireOtp(u) \/ EndWindow(u) PROVE TwoInv(a, b)'
  <2>1. UNCHANGED <<requests, generated, guesses>>
    BY <1>5 DEF ExpireOtp, EndWindow, history
  <2>2. \A v \in User : otp'[v] = otp[v] \/ otp'[v] = NoOtp
    BY <1>5 DEF ExpireOtp, EndWindow, TypeOK
  <2> QED BY <2>1, <2>2, TwoStill
<1>6. CASE UNCHANGED vars
  BY <1>6, TwoStill DEF vars, store, history
<1> QED BY <1>1, <1>2, <1>3, <1>5, <1>6 DEF Next

(* Two requests in progress at a time lose updates of the attempts, and    *)
(* set the count back, but never more than M(M + 3)/2 wrong codes are      *)
(* answered for one OTP, whatever M is configured.                         *)
THEOREM GuessesBoundedHolds ==
  ASSUME NEW a \in Request, NEW b \in Request, a # b, Request = {a, b}
  PROVE  Spec => []GuessesBounded
<1>1. Init => TwoInv(a, b)
  <2> SUFFICES ASSUME Init PROVE NumbersKnown /\ GuessesLeft(a, b)
    BY DEF TwoInv
  <2>1. NumbersKnown
    BY DEF Init, NumbersKnown, HandKnown, Owing, Idle
  <2>2. \A u \in User, n \in Serial : n > generated[u]
    BY EmailOtpAssumption DEF Init, Serial
  <2>3. \A u \in User, n \in Serial : ~(n <= generated[u])
    BY <2>2, EmailOtpAssumption DEF Init, Serial
  <2> QED BY <2>1, <2>3 DEF GuessesLeft
<1>2. TypeOK /\ TypeOK' /\ TwoInv(a, b) /\ [Next]_vars => TwoInv(a, b)'
  BY TwoStep
<1>3. TypeOK /\ TwoInv(a, b) => GuessesBounded
  <2> SUFFICES ASSUME TypeOK, TwoInv(a, b), NEW u \in User, NEW n \in Serial
               PROVE  guesses[u][n] <= (MaxAttempts * (MaxAttempts + 3)) \div 2
    BY DEF GuessesBounded
  <2>1. PICK m \in Nat : m = MaxAttempts * (MaxAttempts + 3)
    BY EmailOtpAssumption
  <2>2. PICK g \in Nat : g = guesses[u][n]
    BY UsersTyped
  <2>3. 2 * g <= m
    <3>1. CASE n <= generated[u]
      <4>1. PICK x \in Int : x = Left(Level(a, u, n), Level(b, u, n)) /\ 0 <= x
        BY LevelsTyped, LeftBounds DEF TwoInv
      <4>2. 2 * g + x <= m
        BY <2>1, <2>2, <3>1, <4>1 DEF TwoInv, GuessesLeft
      <4> QED BY <4>1, <4>2
    <3>2. CASE ~(n <= generated[u])
      <4>1. n > generated[u]
        BY <3>2, UsersTyped, EmailOtpAssumption DEF Serial
      <4> QED BY <2>1, <2>2, <4>1 DEF TwoInv, NumbersKnown
    <3> QED BY <3>1, <3>2
  <2>4. g <= m \div 2
    BY <2>3
  <2> QED BY <2>1, <2>2, <2>4
<1> QED BY <1>1, <1>2, <1>3, TypeCorrect, PTL DEF Spec

-----------------------------------------------------------------------------
(* The audit trail.                                                        *)

(* The callers log nothing else.                                           *)
IsLogged(x) ==
  \/ IsGoogleSignIn(x) \/ IsGoogleChange(x)
  \/ IsOtpEvent(x) \/ IsOtpRefusal(x)
  \/ IsTenantlessEvent(x) \/ IsMembershipEvent(x)
  \/ IsInvitationEvent(x) \/ IsInvitationRefusal(x)

EventsAreLogged == \A e \in Event : events[e] # Unheard => IsLogged(events[e])

(* What is left to do of a call is of its kind, and a notification is made *)
(* for a row to point to.                                                  *)
TasksInOrder ==
  \A e \in Event :
    /\ todo[e] # {} => events[e] # Unheard /\ todo[e] \subseteq TasksOf(events[e])
    /\ "notification" \in todo[e] => "row" \in todo[e]

(* What was ever stored of a call has been done, of a call that stores it, *)
(* for a tenant that there is.                                             *)
StoredInOrder ==
  \A e \in Event :
    /\ notifications[e] # "none" =>
         /\ events[e] # Unheard /\ "notification" \notin todo[e]
         /\ events[e].service \in {"auth", "tenant"}
         /\ events[e].tenant \in Tenant
    /\ rows[e] # "none" =>
         /\ events[e] # Unheard /\ "row" \notin todo[e]
         /\ events[e].service \in {"auth", "tenant", "invitation"}
         /\ events[e].service # "invitation" => events[e].tenant \in Tenant

(* What the retention job found was old enough and stays so.               *)
FoundIsOld ==
  \A e \in found : notifications[e] # "none" /\ Age(e) >= NotificationDays

(* HalvesMatch, also while the row is on its way.                          *)
HalvesFollow ==
  \A e \in Event :
    notifications[e] \in {"there", "dismissed"} /\ e \notin failed =>
      "row" \in todo[e] \/ rows[e] = "there" \/ Age(e) >= AuditDays

(* The inductive invariant of the trail.                                   *)
AuditInv ==
  /\ AuditTypeOK
  /\ EventsAreLogged
  /\ TasksInOrder
  /\ StoredInOrder
  /\ FoundIsOld
  /\ HalvesFollow
  /\ RowsKept
  /\ alerts = {} /\ reported = 0

(* The initial state, in which nothing was logged.                         *)
LEMMA AuditInitHolds ==
  ASSUME AuditInit
  PROVE  AuditInv
BY AuditAssumption DEF AuditInit, AuditInv, AuditTypeOK, EventsAreLogged, TasksInOrder,
       StoredInOrder, FoundIsOld, HalvesFollow, RowsKept

(* What a call logs is told by the service it goes to.                     *)
LEMMA LoggedByService ==
  ASSUME NEW x, IsLogged(x)
  PROVE  /\ x.service \in {"auth", "otp", "tenant", "invitation"}
         /\ x.service = "auth" => x.action \in GoogleActions /\ x.ip = Missing
         /\ x.service = "otp" => x.action \in OtpActions
         /\ x.service = "tenant" /\ x.tenant # Missing =>
              x.action \in MembershipActions /\ x.ip = Missing
         /\ x.service = "invitation" => (x.action \in InvitationRefusals <=> ~x.success)
BY DEF IsLogged, IsGoogleSignIn, IsGoogleChange, IsOtpEvent, IsOtpRefusal,
       IsTenantlessEvent, IsMembershipEvent, IsInvitationEvent,
       IsInvitationRefusal, GoogleActions, OtpActions, OtpGenerations,
       OtpVerifications, InvitationRefusals, InvitationActions

(* What is to be done of it.                                               *)
LEMMA TasksByService ==
  ASSUME NEW x, IsLogged(x)
  PROVE  /\ x.service \in {"auth", "tenant"} => TasksOf(x) = {"notification", "row"}
         /\ x.service = "otp" => TasksOf(x) = {"suspicious", "pattern"}
         /\ x.service = "invitation" => TasksOf(x) = {"row"}
BY LoggedByService DEF TasksOf

(* The actions of a step, one by one.                                      *)
LEMMA AuditSteps ==
  ASSUME [AuditNext]_auditVars
  PROVE  \/ \E e \in Event : \E x \in Shapes : IsLogged(x) /\ Log(e, x) /\ day' = day
         \/ \E e \in Event : StoreNotification(e) /\ day' = day
         \/ \E e \in Event : StoreRow(e) /\ day' = day
         \/ \E e \in Event : StoreInvitationRow(e) /\ day' = day
         \/ \E e \in Event : FailToStore(e) /\ day' = day
         \/ \E e \in Event : CheckSuspiciousActivity(e) /\ day' = day
         \/ \E e \in Event : CheckOtpPatterns(e) /\ day' = day
         \/ \E e \in Event : Dismiss(e) /\ day' = day
         \/ ReadOtpStatistics /\ day' = day
         \/ \E t \in Tenant \cup {Missing} : ReadOtpMetrics(t) /\ day' = day
         \/ FindExpired /\ day' = day
         \/ \E e \in Event : DeleteExpired(e) /\ day' = day
         \/ StopRetention /\ day' = day
         \/ CleanupAuditLogs /\ day' = day
         \/ \E i \in Invitation : PurgeInvitationLogs(i) /\ day' = day
         \/ \E i \in Invitation : PurgeInvitation(i) /\ day' = day
         \/ \E u \in Account : DeleteUser(u) /\ day' = day
         \/ Tick
         \/ UNCHANGED auditVars
<1>1. CASE Tick
  BY <1>1
<1>2. CASE UNCHANGED auditVars
  BY <1>2
<1>3. CASE Step /\ UNCHANGED day
  <2>1. ASSUME NEW e \in Event, Call(e)
        PROVE  \/ \E x \in Shapes : IsLogged(x) /\ Log(e, x)
               \/ StoreNotification(e) \/ StoreRow(e) \/ StoreInvitationRow(e)
               \/ FailToStore(e) \/ CheckSuspiciousActivity(e)
               \/ CheckOtpPatterns(e) \/ Dismiss(e)
    BY <2>1 DEF Call, LogAuthEvent, LogOtpEvent, LogTenantManagementEvent,
         LogInvitationEvent, IsLogged
  <2> QED BY <1>3, <2>1 DEF Step
<1> QED BY <1>1, <1>2, <1>3 DEF AuditNext

(* The variables keep their types.                                         *)
LEMMA AuditTypeStep ==
  ASSUME AuditInv, [AuditNext]_auditVars, alerts' = {}, reported' = 0
  PROVE  AuditTypeOK'
<1> USE DEF AuditTypeOK
<1>t. AuditTypeOK
  BY DEF AuditInv
<1>1. ASSUME NEW e \in Event, NEW x \in Shapes, IsLogged(x), Log(e, x), day' = day
      PROVE  AuditTypeOK'
  <2>1. TasksOf(x) \subseteq Task
    BY <1>1, LoggedByService, TasksByService DEF Task
  <2>2. events' \in [Event -> Shape \cup {Unheard}]
    BY <1>1, <1>t, AuditAssumption DEF Log
  <2>3. todo' \in [Event -> SUBSET Task]
    BY <1>1, <1>t, <2>1 DEF Log
  <2> QED BY <1>1, <1>t, <2>2, <2>3 DEF Log, tables, jobs
<1>2. ASSUME NEW e \in Event, todo' = [todo EXCEPT ![e] = @ \ {"notification", "row"}]
      PROVE  todo' \in [Event -> SUBSET Task]
  BY <1>2, <1>t
<1>3. ASSUME NEW e \in Event, NEW task, todo' = [todo EXCEPT ![e] = @ \ {task}]
      PROVE  todo' \in [Event -> SUBSET Task]
  BY <1>3, <1>t
<1>4. ASSUME NEW e \in Event, StoreNotification(e), day' = day
      PROVE  AuditTypeOK'
  BY <1>4, <1>3, <1>t DEF StoreNotification, jobs
<1>5. ASSUME NEW e \in Event, StoreRow(e), day' = day
      PROVE  AuditTypeOK'
  BY <1>5, <1>3, <1>t DEF StoreRow, jobs
<1>6. ASSUME NEW e \in Event, StoreInvitationRow(e), day' = day
      PROVE  AuditTypeOK'
  BY <1>6, <1>3, <1>t DEF StoreInvitationRow, jobs
<1>7. ASSUME NEW e \in Event, FailToStore(e), day' = day
      PROVE  AuditTypeOK'
  BY <1>7, <1>2, <1>t DEF FailToStore, tables, jobs
<1>8. ASSUME NEW e \in Event,
             CheckSuspiciousActivity(e) \/ CheckOtpPatterns(e), day' = day
      PROVE  AuditTypeOK'
  BY <1>8, <1>3, <1>t DEF CheckSuspiciousActivity, CheckOtpPatterns, tables, jobs
<1>9. ASSUME NEW e \in Event, Dismiss(e) \/ DeleteExpired(e), day' = day
      PROVE  AuditTypeOK'
  BY <1>9, <1>t DEF Dismiss, DeleteExpired, jobs
<1>10. CASE FindExpired /\ day' = day
  BY <1>10, <1>t DEF FindExpired, tables
<1>11. CASE CleanupAuditLogs /\ day' = day
  BY <1>11, <1>t DEF CleanupAuditLogs, jobs
<1>12. ASSUME NEW i \in Invitation, PurgeInvitationLogs(i) \/ PurgeInvitation(i), day' = day
       PROVE  AuditTypeOK'
  BY <1>12, <1>t DEF PurgeInvitationLogs, PurgeInvitation, jobs
<1>13. ASSUME NEW u \in Account, DeleteUser(u), day' = day
       PROVE  AuditTypeOK'
  BY <1>13, <1>t DEF DeleteUser, jobs
<1>14. CASE Tick
  BY <1>14, <1>t, AuditAssumption DEF Tick, tables, jobs
<1>15. CASE found' \in {found, {}} /\ UNCHANGED <<tables, events, todo, purging, failed, day>>
  BY <1>15, <1>t DEF tables
<1> QED
  BY <1>1, <1>4, <1>5, <1>6, <1>7, <1>8, <1>9, <1>10, <1>11, <1>12, <1>13, <1>14, <1>15, AuditSteps
  DEF ReadOtpStatistics, ReadOtpMetrics, StopRetention, auditVars,
      tables, jobs

(* What was logged stays as it was.                                        *)
LEMMA EventsStay ==
  ASSUME AuditInv, [AuditNext]_auditVars, NEW e \in Event
  PROVE  /\ events[e] # Unheard => events'[e] = events[e]
         /\ events'[e] # events[e] => todo[e] = {}
<1>1. ASSUME NEW d \in Event, NEW x \in Shapes, Log(d, x)
      PROVE  /\ events[e] # Unheard => events'[e] = events[e]
             /\ events'[e] # events[e] => todo[e] = {}
  BY <1>1 DEF Log, AuditInv, AuditTypeOK, TasksInOrder
<1>2. CASE events' = events
  BY <1>2
<1> QED
  BY <1>1, <1>2, AuditSteps
  DEF StoreNotification, StoreRow, StoreInvitationRow, FailToStore,
      CheckSuspiciousActivity, CheckOtpPatterns, Dismiss,
      ReadOtpStatistics, ReadOtpMetrics, FindExpired, DeleteExpired,
      StopRetention, CleanupAuditLogs, PurgeInvitationLogs,
      PurgeInvitation, DeleteUser, Tick, auditVars

(* What is logged is what the callers log.                                 *)
LEMMA EventsAreLoggedStep ==
  ASSUME AuditInv, [AuditNext]_auditVars
  PROVE  EventsAreLogged'
<1> SUFFICES ASSUME NEW e \in Event, events'[e] # Unheard
             PROVE  IsLogged(events'[e])
  BY DEF EventsAreLogged, IsLogged, IsGoogleSignIn, IsGoogleChange, IsOtpEvent,
         IsOtpRefusal, IsTenantlessEvent, IsMembershipEvent,
         IsInvitationEvent, IsInvitationRefusal
<1>1. CASE events[e] # Unheard
  BY <1>1, EventsStay DEF AuditInv, EventsAreLogged
<1>2. ASSUME NEW d \in Event, NEW x \in Shapes, IsLogged(x), Log(d, x), events[e] = Unheard
      PROVE  IsLogged(events'[e])
  BY <1>2 DEF Log, AuditInv, AuditTypeOK
<1>3. CASE events' = events
  BY <1>3 DEF AuditInv, EventsAreLogged
<1> QED
  BY <1>1, <1>2, <1>3, AuditSteps
  DEF StoreNotification, StoreRow, StoreInvitationRow, FailToStore,
      CheckSuspiciousActivity, CheckOtpPatterns, Dismiss,
      ReadOtpStatistics, ReadOtpMetrics, FindExpired, DeleteExpired,
      StopRetention, CleanupAuditLogs, PurgeInvitationLogs,
      PurgeInvitation, DeleteUser, Tick, auditVars

(* What is left of a call gets less, both halves are dropped together, and *)
(* the notification is the first to be stored.                             *)
LEMMA TasksInOrderStep ==
  ASSUME AuditInv, [AuditNext]_auditVars
  PROVE  TasksInOrder'
<1> USE DEF AuditInv, AuditTypeOK, TasksInOrder
<1>1. ASSUME NEW d \in Event, NEW x \in Shapes, IsLogged(x), Log(d, x)
      PROVE  TasksInOrder'
  BY <1>1, LoggedByService, TasksByService, AuditAssumption DEF Log
<1>2. ASSUME NEW d \in Event, StoreNotification(d)
      PROVE  TasksInOrder'
  BY <1>2 DEF StoreNotification
<1>3. ASSUME NEW d \in Event, StoreRow(d) \/ StoreInvitationRow(d)
      PROVE  TasksInOrder'
  BY <1>3, TasksByService DEF StoreRow, StoreInvitationRow, EventsAreLogged
<1>4. ASSUME NEW d \in Event, FailToStore(d)
      PROVE  TasksInOrder'
  BY <1>4 DEF FailToStore
<1>5. ASSUME NEW d \in Event, CheckSuspiciousActivity(d) \/ CheckOtpPatterns(d)
      PROVE  TasksInOrder'
  BY <1>5 DEF CheckSuspiciousActivity, CheckOtpPatterns
<1>6. CASE UNCHANGED <<events, todo>>
  BY <1>6
<1> QED
  BY <1>1, <1>2, <1>3, <1>4, <1>5, <1>6, AuditSteps
  DEF Dismiss, ReadOtpStatistics, ReadOtpMetrics, FindExpired,
      DeleteExpired, StopRetention, CleanupAuditLogs,
      PurgeInvitationLogs, PurgeInvitation, DeleteUser, Tick, auditVars

(* What a call has left to do, it has not done.                            *)
LEMMA AuditTasks ==
  ASSUME AuditInv, NEW e \in Event
  PROVE  /\ todo[e] # {} => events[e] # Unheard /\ IsLogged(events[e])
         /\ "notification" \in todo[e] =>
              /\ "row" \in todo[e]
              /\ events[e].service \in {"auth", "tenant"}
              /\ notifications[e] = "none" /\ rows[e] = "none"
         /\ "row" \in todo[e] =>
              events[e].service \in {"auth", "tenant", "invitation"} /\ rows[e] = "none"
<1>1. ASSUME todo[e] # {}
      PROVE  events[e] # Unheard /\ IsLogged(events[e]) /\ todo[e] \subseteq TasksOf(events[e])
  BY <1>1 DEF AuditInv, TasksInOrder, EventsAreLogged
<1>2. ASSUME "row" \in todo[e]
      PROVE  events[e].service \in {"auth", "tenant", "invitation"} /\ rows[e] = "none"
  BY <1>1, <1>2, LoggedByService, TasksByService DEF AuditInv, StoredInOrder
<1>3. ASSUME "notification" \in todo[e]
      PROVE  /\ "row" \in todo[e]
             /\ events[e].service \in {"auth", "tenant"}
             /\ notifications[e] = "none" /\ rows[e] = "none"
  BY <1>1, <1>2, <1>3, LoggedByService, TasksByService DEF AuditInv, StoredInOrder, TasksInOrder
<1> QED BY <1>1, <1>2, <1>3

(* What is stored is what was left to do, and then is not.                 *)
LEMMA StoredInOrderStep ==
  ASSUME AuditInv, [AuditNext]_auditVars
  PROVE  StoredInOrder'
<1> USE DEF StoredInOrder
<1>t. AuditTypeOK /\ StoredInOrder
  BY DEF AuditInv
<1>1. ASSUME NEW d \in Event, NEW x \in Shapes, Log(d, x)
      PROVE  StoredInOrder'
  BY <1>1, <1>t DEF Log, tables, AuditTypeOK
<1>2. ASSUME NEW d \in Event, StoreNotification(d)
      PROVE  StoredInOrder'
  BY <1>2, <1>t, AuditTasks DEF StoreNotification, Known, AuditTypeOK
<1>3. ASSUME NEW d \in Event, StoreRow(d)
      PROVE  StoredInOrder'
  BY <1>3, <1>t, AuditTasks DEF StoreRow, Known, AuditTypeOK
<1>4. ASSUME NEW d \in Event, StoreInvitationRow(d)
      PROVE  StoredInOrder'
  BY <1>4, <1>t, AuditTasks DEF StoreInvitationRow, AuditTypeOK
<1>5. ASSUME NEW d \in Event,
             \/ FailToStore(d)
             \/ CheckSuspiciousActivity(d) \/ CheckOtpPatterns(d)
      PROVE  StoredInOrder'
  BY <1>5, <1>t
  DEF FailToStore, CheckSuspiciousActivity, CheckOtpPatterns, tables,
      AuditTypeOK
<1>6. ASSUME NEW d \in Event, Dismiss(d) \/ DeleteExpired(d), AuditInv
      PROVE  StoredInOrder'
  BY <1>6, <1>t DEF Dismiss, DeleteExpired, AuditTypeOK, AuditInv, FoundIsOld
<1>7. ASSUME UNCHANGED <<notifications, events, todo>>,
             \A e \in Event : rows'[e] # "none" => rows[e] # "none"
      PROVE  StoredInOrder'
  BY <1>7, <1>t
<1>8. CASE CleanupAuditLogs
  BY <1>7, <1>8, <1>t DEF CleanupAuditLogs, Trail, AuditTypeOK
<1>9. ASSUME NEW i \in Invitation, PurgeInvitationLogs(i) \/ PurgeInvitation(i)
      PROVE  StoredInOrder'
  BY <1>7, <1>9, <1>t
  DEF PurgeInvitationLogs, PurgeInvitation, InvitationLogs, InvitationTrail,
      AuditTypeOK
<1>10. ASSUME NEW u \in Account, DeleteUser(u)
       PROVE  StoredInOrder'
  BY <1>7, <1>10, <1>t DEF DeleteUser, Trail, InvitationLogs, InvitationTrail, AuditTypeOK
<1>11. CASE UNCHANGED <<events, todo, notifications, rows>>
  BY <1>11, <1>t
<1> QED
  BY <1>1, <1>2, <1>3, <1>4, <1>5, <1>6, <1>8, <1>9, <1>10, <1>11, AuditSteps
  DEF ReadOtpStatistics, ReadOtpMetrics, FindExpired, StopRetention,
      Tick, auditVars, tables

(* Days only pass, and what was stored is not stored again.                *)
LEMMA FoundIsOldStep ==
  ASSUME AuditInv, [AuditNext]_auditVars
  PROVE  FoundIsOld'
<1> USE DEF FoundIsOld, Age
<1>t. AuditTypeOK /\ FoundIsOld /\ NotificationDays \in Nat
  BY AuditAssumption DEF AuditInv
<1>1. ASSUME NEW d \in Event, StoreNotification(d), day' = day
      PROVE  FoundIsOld'
  BY <1>1, <1>t, AuditTasks DEF StoreNotification, jobs, AuditTypeOK
<1>2. ASSUME NEW d \in Event, StoreInvitationRow(d), day' = day
      PROVE  FoundIsOld'
  <2>1. notifications[d] = "none"
    BY <1>2 DEF StoreInvitationRow, AuditInv, StoredInOrder
  <2> QED BY <1>2, <2>1, <1>t DEF StoreInvitationRow, jobs, AuditTypeOK
<1>3. ASSUME NEW d \in Event, Dismiss(d) \/ DeleteExpired(d), day' = day
      PROVE  FoundIsOld'
  BY <1>3, <1>t DEF Dismiss, DeleteExpired, jobs, AuditTypeOK
<1>4. CASE FindExpired /\ day' = day
  BY <1>4, <1>t DEF FindExpired, tables, AuditTypeOK
<1>5. ASSUME NEW u \in Account, DeleteUser(u), day' = day
      PROVE  FoundIsOld'
  BY <1>5, <1>t DEF DeleteUser, jobs, AuditTypeOK
<1>6. CASE Tick
  BY <1>6, <1>t DEF Tick, tables, jobs, AuditTypeOK
<1>7. CASE found' \in {found, {}} /\ UNCHANGED <<notifications, storedOn, day>>
  BY <1>7, <1>t
<1> QED
  BY <1>1, <1>2, <1>3, <1>4, <1>5, <1>6, <1>7, AuditSteps
  DEF Log, StoreRow, FailToStore, CheckSuspiciousActivity,
      CheckOtpPatterns, ReadOtpStatistics, ReadOtpMetrics, StopRetention,
      CleanupAuditLogs, PurgeInvitationLogs, PurgeInvitation, auditVars,
      tables, jobs

(* A row follows its notification, and goes with it or by its own age.     *)
LEMMA HalvesFollowStep ==
  ASSUME AuditInv, [AuditNext]_auditVars
  PROVE  HalvesFollow'
<1> USE DEF HalvesFollow, Age
<1>t. AuditTypeOK /\ HalvesFollow /\ AuditDays \in Nat
  BY AuditAssumption DEF AuditInv
<1>1. ASSUME NEW d \in Event, NEW x \in Shapes, Log(d, x), day' = day
      PROVE  HalvesFollow'
  <2>1. events[d] = Unheard => notifications[d] = "none"
    BY DEF AuditInv, StoredInOrder
  <2> QED BY <1>1, <2>1, <1>t DEF Log, tables, AuditTypeOK
<1>2. ASSUME NEW d \in Event, StoreNotification(d), day' = day
      PROVE  HalvesFollow'
  BY <1>2, <1>t, AuditTasks DEF StoreNotification, AuditTypeOK
<1>3. ASSUME NEW d \in Event, StoreRow(d), day' = day
      PROVE  HalvesFollow'
  BY <1>3, <1>t DEF StoreRow, AuditTypeOK
<1>4. ASSUME NEW d \in Event, StoreInvitationRow(d), day' = day
      PROVE  HalvesFollow'
  BY <1>4, <1>t DEF StoreInvitationRow, AuditTypeOK
<1>5. ASSUME NEW d \in Event, FailToStore(d), day' = day
      PROVE  HalvesFollow'
  BY <1>5, <1>t DEF FailToStore, tables, AuditTypeOK
<1>6. ASSUME NEW d \in Event,
             CheckSuspiciousActivity(d) \/ CheckOtpPatterns(d), day' = day
      PROVE  HalvesFollow'
  BY <1>6, <1>t DEF CheckSuspiciousActivity, CheckOtpPatterns, tables, AuditTypeOK
<1>7. ASSUME NEW d \in Event, Dismiss(d) \/ DeleteExpired(d), day' = day
      PROVE  HalvesFollow'
  BY <1>7, <1>t DEF Dismiss, DeleteExpired, AuditTypeOK
<1>8. CASE CleanupAuditLogs /\ day' = day
  BY <1>8, <1>t DEF CleanupAuditLogs, AuditTypeOK
<1>9. ASSUME NEW i \in Invitation, PurgeInvitationLogs(i) \/ PurgeInvitation(i),
             day' = day
      PROVE  HalvesFollow'
  <2>1. \A e \in Event : e \in InvitationLogs(i) => notifications[e] = "none"
    BY DEF AuditInv, StoredInOrder, InvitationLogs, InvitationTrail
  <2> QED BY <1>9, <2>1, <1>t DEF PurgeInvitationLogs, PurgeInvitation, AuditTypeOK
<1>10. ASSUME NEW u \in Account, DeleteUser(u), day' = day
       PROVE  HalvesFollow'
  <2>1. \A i \in invitations, e \in Event : e \in InvitationLogs(i) => notifications[e] = "none"
    BY DEF AuditInv, StoredInOrder, InvitationLogs, InvitationTrail
  <2>2. \A e \in Event :
          notifications'[e] \in {"there", "dismissed"} =>
            /\ notifications'[e] = notifications[e]
            /\ rows'[e] = rows[e]
    BY <1>10, <2>1 DEF DeleteUser, AuditTypeOK
  <2> QED BY <1>10, <2>2, <1>t DEF DeleteUser
<1>11. CASE Tick
  BY <1>11, <1>t DEF Tick, tables, AuditTypeOK
<1>12. CASE UNCHANGED <<tables, todo, failed, day>>
  BY <1>12, <1>t DEF tables
<1> QED
  BY <1>1, <1>2, <1>3, <1>4, <1>5, <1>6, <1>7, <1>8, <1>9, <1>10, <1>11, <1>12, AuditSteps
  DEF ReadOtpStatistics, ReadOtpMetrics, FindExpired, StopRetention,
      auditVars

(* A row goes with what takes it, and nothing makes up for that later.     *)
LEMMA RowsKeptStep ==
  ASSUME AuditInv, [AuditNext]_auditVars
  PROVE  RowsKept'
<1> USE DEF RowsKept, Age
<1>t. /\ AuditTypeOK /\ RowsKept
      /\ AuditDays \in Nat /\ NotificationDays \in Nat
      /\ \A e \in Event : rows[e] # "none" => events[e] # Unheard
  BY AuditAssumption DEF AuditInv, StoredInOrder
<1>1. ASSUME NEW d \in Event, NEW x \in Shapes, Log(d, x), day' = day
      PROVE  RowsKept'
  BY <1>1, <1>t DEF Log, tables, jobs, AuditTypeOK
<1>2. ASSUME NEW d \in Event, StoreNotification(d), day' = day
      PROVE  RowsKept'
  BY <1>2, <1>t, AuditTasks DEF StoreNotification, jobs, AuditTypeOK
<1>3. ASSUME NEW d \in Event, StoreRow(d), day' = day
      PROVE  RowsKept'
  BY <1>3, <1>t DEF StoreRow, jobs, AuditTypeOK
<1>4. ASSUME NEW d \in Event, StoreInvitationRow(d), day' = day
      PROVE  RowsKept'
  BY <1>4, <1>t DEF StoreInvitationRow, jobs, AuditTypeOK
<1>5. ASSUME NEW d \in Event, Dismiss(d), day' = day
      PROVE  RowsKept'
  BY <1>5, <1>t DEF Dismiss, jobs, AuditTypeOK
<1>6. ASSUME NEW d \in Event, DeleteExpired(d), day' = day
      PROVE  RowsKept'
  <2>1. Age(d) >= NotificationDays
    BY <1>6 DEF DeleteExpired, AuditInv, FoundIsOld
  <2> QED BY <1>6, <2>1, <1>t DEF DeleteExpired, AuditTypeOK
<1>7. CASE CleanupAuditLogs /\ day' = day
  BY <1>7, <1>t DEF CleanupAuditLogs, Trail, jobs, AuditTypeOK
<1>8. ASSUME NEW i \in Invitation, PurgeInvitationLogs(i), day' = day
      PROVE  RowsKept'
  BY <1>8, <1>t
  DEF PurgeInvitationLogs, InvitationLogs, InvitationTrail, AuditTypeOK
<1>9. ASSUME NEW i \in Invitation, PurgeInvitation(i), day' = day
      PROVE  RowsKept'
  BY <1>9, <1>t
  DEF PurgeInvitation, InvitationLogs, InvitationTrail, jobs, AuditTypeOK
<1>10. ASSUME NEW u \in Account, DeleteUser(u), day' = day
       PROVE  RowsKept'
  <2>1. /\ users' \subseteq users /\ u \notin users'
        /\ UNCHANGED <<events, purging, storedOn, day>>
        /\ \A e \in Event : notifications[e] = "gone" => notifications'[e] = "gone"
    BY <1>10 DEF DeleteUser, jobs, AuditTypeOK
  <2>2. ASSUME NEW e \in Event, rows'[e] = "gone", rows[e] # "gone"
        PROVE  \/ /\ events[e].service = "invitation"
                  /\ InvitedBy[events[e].invitation] = u
               \/ notifications'[e] = "gone" /\ events[e].user = u
    BY <1>10, <2>2 DEF DeleteUser, InvitationLogs, InvitationTrail, AuditTypeOK
  <2> QED BY <2>1, <2>2, <1>t
<1>11. CASE Tick
  BY <1>11, <1>t DEF Tick, tables, jobs, AuditTypeOK
<1>12. CASE UNCHANGED <<tables, events, purging, day>>
  BY <1>12, <1>t DEF tables
<1> QED
  BY <1>1, <1>2, <1>3, <1>4, <1>5, <1>6, <1>7, <1>8, <1>9, <1>10, <1>11, <1>12, AuditSteps
  DEF FailToStore, CheckSuspiciousActivity, CheckOtpPatterns,
      ReadOtpStatistics, ReadOtpMetrics, FindExpired, StopRetention,
      auditVars, jobs

(* A row of notification_audit_logs is of a service that is not the OTPs', *)
(* without an address, and of a tenant that there is.                      *)
LEMMA TrailRows ==
  ASSUME AuditInv, NEW e \in Trail
  PROVE  /\ events[e].service \in {"auth", "tenant"}
         /\ events[e].tenant \in Tenant
         /\ events[e].ip = Missing
         /\ events[e].service = "auth" => events[e].action \in GoogleActions
         /\ events[e].service = "tenant" => events[e].action \in MembershipActions
         /\ events[e].action \notin OtpActions \cup TenantlessActions \cup {"otp_expired"}
<1>1. /\ e \in Event /\ events[e].service \in {"auth", "tenant"}
      /\ events[e].tenant \in Tenant
      /\ IsLogged(events[e])
  BY DEF AuditInv, StoredInOrder, EventsAreLogged, Trail
<1>2. events[e].tenant # Missing
  BY <1>1, AuditAssumption
<1>3. /\ events[e].ip = Missing
      /\ events[e].service = "auth" => events[e].action \in GoogleActions
      /\ events[e].service = "tenant" => events[e].action \in MembershipActions
  BY <1>1, <1>2, LoggedByService
<1> QED
  BY <1>1, <1>3
  DEF GoogleActions, MembershipActions, OtpActions, OtpGenerations,
      OtpVerifications, TenantlessActions

(* So no check of an OTP event has a row to count.                         *)
LEMMA NothingToFind ==
  ASSUME AuditInv, NEW x, IsLogged(x), x.service = "otp"
  PROVE  SuspicionsAbout(x) = {} /\ PatternsAbout(x) = {}
<1>0. Cardinality({}) = 0
  BY FS_EmptySet
<1>1. /\ FailureLimit > 0 /\ ChangesLimit > 0 /\ VerificationLimit > 0
      /\ GenerationLimit > 0 /\ RefusalLimit > 0
      /\ {FailureLimit, ChangesLimit, VerificationLimit, GenerationLimit, RefusalLimit} \subseteq Nat
  BY AuditAssumption
<1>2. x.action \in OtpActions
  BY LoggedByService
<1>3. ASSUME NEW actions \in SUBSET OtpActions
      PROVE  OtpRowsOf(x, actions) = {}
  BY <1>3, TrailRows DEF OtpRowsOf
<1>4. /\ OtpGenerations \subseteq OtpActions
      /\ {"otp_verification_failed"} \subseteq OtpActions
  BY DEF OtpActions, OtpVerifications
<1>5. SuspicionsAbout(x) = {}
  <2>1. x.ip # Missing => FailuresFrom(x) = {}
    BY TrailRows DEF FailuresFrom, Recent
  <2>2. x.action \notin {"google_link", "google_unlink"}
    BY <1>2 DEF OtpActions, OtpGenerations, OtpVerifications
  <2>3. ~(Cardinality({}) >= FailureLimit)
    BY <1>0, <1>1
  <2> QED BY <2>1, <2>2, <2>3 DEF SuspicionsAbout
<1>6. PatternsAbout(x) = {}
  <2>1. RefusalsFrom(x) = {}
    BY TrailRows DEF RefusalsFrom, Recent, OtpActions
  <2>2. /\ Recent(OtpRowsOf(x, {"otp_verification_failed"})) = {}
        /\ Recent(OtpRowsOf(x, OtpGenerations)) = {}
        /\ LastOf(OtpRowsOf(x, OtpGenerations)) = {}
    BY <1>3, <1>4 DEF Recent, LastOf
  <2>3. /\ ~(Cardinality({}) >= VerificationLimit)
        /\ ~(Cardinality({}) >= GenerationLimit)
        /\ ~(Cardinality({}) >= RefusalLimit)
    BY <1>0, <1>1
  <2> QED BY <2>1, <2>2, <2>3 DEF PatternsAbout
<1> QED BY <1>5, <1>6

(* Nor has a report.                                                       *)
LEMMA NothingToReport ==
  ASSUME AuditInv
  PROVE  /\ ReadOtpStatistics => reported' = 0
         /\ \A t \in Tenant \cup {Missing} : ReadOtpMetrics(t) => reported' = 0
<1>0. Cardinality({}) = 0
  BY FS_EmptySet
<1>1. ASSUME ReadOtpStatistics
      PROVE  reported' = 0
  <2>1. OtpLogs = {}
    BY TrailRows DEF OtpLogs
  <2>2. PICK actions :
          reported' = Cardinality({e \in OtpLogs : events[e].action \in actions})
    BY <1>1 DEF ReadOtpStatistics
  <2>3. {e \in OtpLogs : events[e].action \in actions} = {}
    BY <2>1
  <2> QED BY <1>0, <2>2, <2>3
<1>2. ASSUME NEW t \in Tenant \cup {Missing}, ReadOtpMetrics(t)
      PROVE  reported' = 0
  <2>1. ASSUME NEW actions, actions \subseteq OtpActions \cup {"otp_expired"}
        PROVE  TenantRows(t, actions) = {}
    BY <2>1, TrailRows DEF TenantRows
  <2>2. /\ GenerationEvents(t) = {} /\ VerificationEvents(t) = {}
        /\ SecurityEvents(t) = {} /\ BehaviorEvents(t) = {}
    BY <2>1
    DEF GenerationEvents, VerificationEvents, SecurityEvents,
        BehaviorEvents, OtpActions, OtpGenerations, OtpVerifications
  <2> QED BY <1>0, <1>2, <2>2 DEF ReadOtpMetrics
<1> QED BY <1>1, <1>2

(* Nothing is found and nothing reported by any step.                      *)
LEMMA NothingFoundStep ==
  ASSUME AuditInv, [AuditNext]_auditVars
  PROVE  alerts' = {} /\ reported' = 0
<1>0. alerts = {} /\ reported = 0
  BY DEF AuditInv
<1>1. ASSUME NEW e \in Event, CheckSuspiciousActivity(e) \/ CheckOtpPatterns(e)
      PROVE  alerts' = {} /\ reported' = 0
  <2>1. todo[e] \cap {"suspicious", "pattern"} # {}
    BY <1>1 DEF CheckSuspiciousActivity, CheckOtpPatterns
  <2>2. IsLogged(events[e]) /\ todo[e] \subseteq TasksOf(events[e])
    BY <2>1, AuditTasks DEF AuditInv, TasksInOrder
  <2>3. events[e].service = "otp"
    BY <2>1, <2>2, LoggedByService, TasksByService
  <2>4. SuspicionsAbout(events[e]) = {} /\ PatternsAbout(events[e]) = {}
    BY <2>2, <2>3, NothingToFind
  <2> QED
    BY <1>0, <1>1, <2>4
    DEF CheckSuspiciousActivity, CheckOtpPatterns, jobs
<1>2. CASE /\ alerts' = alerts
           /\ \/ ReadOtpStatistics
              \/ \E t \in Tenant \cup {Missing} : ReadOtpMetrics(t)
  BY <1>0, <1>2, NothingToReport
<1>3. CASE UNCHANGED <<alerts, reported>>
  BY <1>0, <1>3
<1> QED
  BY <1>1, <1>2, <1>3, AuditSteps
  DEF Log, StoreNotification, StoreRow, StoreInvitationRow,
      FailToStore, Dismiss, ReadOtpStatistics, ReadOtpMetrics,
      FindExpired, DeleteExpired, StopRetention, CleanupAuditLogs,
      PurgeInvitationLogs, PurgeInvitation, DeleteUser, Tick,
      auditVars, jobs

(* The invariant of the trail is one.                                      *)
THEOREM AuditInvInvariant == AuditSpec => []AuditInv
<1>1. AuditInit => AuditInv
  BY AuditInitHolds
<1>2. AuditInv /\ [AuditNext]_auditVars => AuditInv'
  <2> SUFFICES ASSUME AuditInv, [AuditNext]_auditVars
               PROVE  AuditInv'
    OBVIOUS
  <2>1. alerts' = {} /\ reported' = 0
    BY NothingFoundStep
  <2> QED
    BY <2>1, AuditTypeStep, EventsAreLoggedStep, TasksInOrderStep, StoredInOrderStep,
       FoundIsOldStep, HalvesFollowStep, RowsKeptStep DEF AuditInv
<1> QED BY <1>1, <1>2, PTL DEF AuditSpec

(* Types, for the audit trail.                                             *)
THEOREM AuditTypeCorrect == AuditSpec => []AuditTypeOK
<1>1. AuditInv => AuditTypeOK
  BY DEF AuditInv
<1> QED BY <1>1, AuditInvInvariant, PTL

(* A row of the trail is lost before its own period is over only with what *)
(* it points to, and a notification made up for an event has its row but   *)
(* for failures and that period, however statements, jobs and cascades     *)
(* interleave.                                                             *)
THEOREM TrailKeptHolds == AuditSpec => []TrailKept
<1>1. AuditInv => TrailKept
  BY DEF AuditInv, TrailKept, HalvesMatch, HalvesFollow
<1> QED BY <1>1, AuditInvInvariant, PTL

(* What is stored of a tenant is found by the listing of exactly one       *)
(* service, and the security events of invitations are the refusals.       *)
THEOREM EveryRowIsFoundHolds == AuditSpec => []EveryRowIsFound
<1>1. AuditInv => EveryRowIsFound
  <2> SUFFICES ASSUME AuditInv
               PROVE  EveryRowIsFound
    OBVIOUS
  <2>1. InvitationSecurityEvents = {e \in InvitationTrail : ~events[e].success}
    <3>1. ASSUME NEW e \in InvitationTrail
          PROVE  events[e].action \in InvitationRefusals <=> ~events[e].success
      <4>1. IsLogged(events[e]) /\ events[e].service = "invitation"
        BY DEF AuditInv, StoredInOrder, EventsAreLogged, InvitationTrail
      <4> QED BY <4>1, LoggedByService
    <3> QED BY <3>1 DEF InvitationSecurityEvents
  <2>2. ASSUME NEW e \in Trail
        PROVE  /\ Cardinality({s \in {"auth", "tenant", "otp"} :
                    e \in CASE s = "auth" -> AuthLogs
                            [] s = "tenant" -> UserTenantLogs
                            [] s = "otp" -> OtpLogs}) = 1
               /\ events[e].service = "tenant" => e \in TenantLogs(events[e].tenant)
    <3> DEFINE Service == {s \in {"auth", "tenant", "otp"} :
                             e \in CASE s = "auth" -> AuthLogs
                                     [] s = "tenant" -> UserTenantLogs
                                     [] s = "otp" -> OtpLogs}
    <3>1. /\ e \notin OtpLogs
          /\ events[e].service = "auth" => e \in AuthLogs /\ e \notin UserTenantLogs
          /\ events[e].service = "tenant" => e \notin AuthLogs /\ e \in UserTenantLogs
          /\ events[e].service = "tenant" => e \in TenantLogs(events[e].tenant)
      BY TrailRows
      DEF OtpLogs, AuthLogs, UserTenantLogs, TenantLogs,
          GoogleActions, MembershipActions, TenantlessActions
    <3>2. Service = {events[e].service}
      BY <3>1, TrailRows
    <3>3. Cardinality(Service) = 1
      BY <3>2, FS_Singleton
    <3> QED BY <3>1, <3>3
  <2> QED BY <2>1, <2>2 DEF EveryRowIsFound, RowsOfTenantsFound
<1> QED BY <1>1, AuditInvInvariant, PTL

=============================================================================
