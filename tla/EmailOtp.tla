------------------------------- MODULE EmailOtp -------------------------------
(***************************************************************************)
(* E-mail verification by one-time password: email-otp.service.ts over     *)
(* otp-storage.service.ts (src/src/auth/services), and the password reset  *)
(* that spends the same passwords (auth.service.ts).                       *)
(*                                                                         *)
(* The passwords and the rate limit live in Redis.  Every check is a GET,  *)
(* every consequence a later SETEX or DEL, so one action below is one      *)
(* round trip and a request remembers what it read.                        *)
(***************************************************************************)
EXTENDS Naturals

CONSTANTS
  User,             \* users
  Code,             \* the codes generateSecureOTP may draw
  Request,          \* HTTP requests that may be in progress at once
  MaxAttempts,      \* maxVerificationAttempts
  MaxRequests,      \* config.otp.rateLimitAttempts
  MaxOtps,          \* bound: how many OTPs are generated for one user
  MaxMisses,        \* bound: how many searches for a code miss one OTP
  NoOtp,            \* the key otp:<userId> is absent
  ResendQueryWorks  \* whether the users table has the column resendOTP selects

Serial == 1 .. MaxOtps
OtpRecord == [nr : Serial, code : Code, attempts : Nat]

ASSUME EmailOtpAssumption ==
  /\ MaxAttempts \in Nat \ {0}
  /\ MaxRequests \in Nat \ {0}
  /\ MaxOtps \in Nat
  /\ MaxMisses \in Nat
  /\ NoOtp \notin OtpRecord
  /\ ResendQueryWorks \in BOOLEAN

VARIABLES
  otp,        \* otp:<userId>
  limit,      \* otp_rate_limit:<userId>: attempts, 0 when the key is absent
  verified,   \* users.email_verified
  password,   \* the OTP that authorised the user's password, 0 at first
  requests,   \* what each request in progress has read so far
  generated,  \* history: how many OTPs were stored for each user
  allowed,    \* history: how many checkRateLimit allowed in this window
  guesses,    \* history: wrong codes answered for each OTP, with its user named
  misses,     \* history: wrong codes answered by a search that passed it over
  consumed,   \* history: OTPs a successful verification has removed
  overlapped  \* history: whether two requests were ever at one user together

store == <<otp, limit, verified, password>>
history == <<generated, allowed, guesses, misses, consumed>>
vars == <<store, requests, history, overlapped>>

-----------------------------------------------------------------------------
(* Requests                                                                *)

Idle == [step |-> "idle"]

RequestState ==
  {Idle}
    \cup [step : {"resending", "clearing", "cleared", "storing", "locking"}, user : User]
    \cup [step : {"counting"}, user : User, count : Nat]
    \cup [step : {"found"}, user : User, code : Code]
    \cup [step : {"guessing"}, user : User, nr : Serial]
    \cup [step : {"counted", "writing"}, user : User, nr : Serial, record : OtpRecord]
    \cup [step : {"marking"}, user : User, otp : OtpRecord, reset : BOOLEAN]
    \cup [step : {"consuming"}, user : User, nr : Serial, reset : BOOLEAN]
    \cup [step : {"changing"}, user : User, nr : Serial]

At(r, step) == requests[r].step = step

(* A request that has a user in hand.                                      *)
About(q, u) == q # Idle /\ q.user = u

Go(r, state) ==
  /\ requests' = [requests EXCEPT ![r] = state]
  /\ overlapped' = [u \in User |->
       \/ overlapped[u]
       \/ About(state, u) /\ \E s \in Request \ {r} : About(requests[s], u)]

Finish(r) == Go(r, Idle)

TypeOK ==
  /\ otp \in [User -> OtpRecord \cup {NoOtp}]
  /\ limit \in [User -> Nat]
  /\ verified \in [User -> BOOLEAN]
  /\ password \in [User -> 0 .. MaxOtps]
  /\ requests \in [Request -> RequestState]
  /\ generated \in [User -> 0 .. MaxOtps]
  /\ allowed \in [User -> Nat]
  /\ guesses \in [User -> [Serial -> Nat]]
  /\ misses \in [User -> [Serial -> 0 .. MaxMisses]]
  /\ consumed \in [User -> SUBSET Serial]
  /\ overlapped \in [User -> BOOLEAN]

(* Users have registered; their first OTP is generated by a request.       *)
Init ==
  /\ otp = [u \in User |-> NoOtp]
  /\ limit = [u \in User |-> 0]
  /\ verified = [u \in User |-> FALSE]
  /\ password = [u \in User |-> 0]
  /\ requests = [r \in Request |-> Idle]
  /\ generated = [u \in User |-> 0]
  /\ allowed = [u \in User |-> 0]
  /\ guesses = [u \in User |-> [n \in Serial |-> 0]]
  /\ misses = guesses
  /\ consumed = [u \in User |-> {}]
  /\ overlapped = [u \in User |-> FALSE]

-----------------------------------------------------------------------------
(* Plausible mistakes in the handlers below, for mutation checks.          *)

(* The count written back as it was read.                                  *)
WriteLimitUncounted(r) ==
  LET u == requests[r].user IN
  /\ At(r, "counting")
  /\ limit' = [limit EXCEPT ![u] = requests[r].count]
  /\ allowed' = [allowed EXCEPT ![u] = @ + 1]
  /\ Go(r, [step |-> "storing", user |-> u])
  /\ UNCHANGED <<otp, verified, password, generated, guesses, misses, consumed>>

ReadAttemptsUncounted(r) ==
  LET q == requests[r] IN
  /\ At(r, "guessing")
  /\ otp[q.user] # NoOtp
  /\ Go(r, [step |-> "counted", user |-> q.user, nr |-> q.nr, record |-> otp[q.user]])
  /\ UNCHANGED <<store, history>>

(* A reset that changes the password before it removes the OTP.            *)
MarkVerifiedKeepingOtp(r) ==
  LET q == requests[r] IN
  /\ At(r, "marking")
  /\ verified' = [verified EXCEPT ![q.user] = TRUE]
  /\ Go(r, IF q.reset THEN [step |-> "changing", user |-> q.user, nr |-> q.otp.nr]
           ELSE [step |-> "consuming", user |-> q.user, nr |-> q.otp.nr, reset |-> FALSE])
  /\ UNCHANGED <<otp, limit, password, history>>

-----------------------------------------------------------------------------
(* generateOTP: registration, invitation acceptance, forgot-password, and  *)
(* the end of a resend.                                                    *)

(* checkRateLimit reads the record of the window; at the limit the request *)
(* is refused and nothing changes.                                         *)
ReadLimit(r, u) ==
  /\ requests[r] = Idle \/ requests[r] = [step |-> "cleared", user |-> u]
  /\ limit[u] < MaxRequests
  /\ Go(r, [step |-> "counting", user |-> u, count |-> limit[u]])
  /\ UNCHANGED <<store, history>>

WriteLimit(r) ==
  LET u == requests[r].user IN
  /\ At(r, "counting")
  /\ limit' = [limit EXCEPT ![u] = requests[r].count + 1]
  /\ allowed' = [allowed EXCEPT ![u] = @ + 1]
  /\ Go(r, [step |-> "storing", user |-> u])
  /\ UNCHANGED <<otp, verified, password, generated, guesses, misses, consumed>>

(* storeOTP replaces whatever is there.  The e-mail follows; a failure to  *)
(* send it is swallowed.                                                   *)
StoreOtp(r, code) ==
  LET u == requests[r].user IN
  /\ At(r, "storing")
  /\ generated[u] < MaxOtps
  /\ otp' = [otp EXCEPT
       ![u] = [nr |-> generated[u] + 1, code |-> code, attempts |-> 0]]
  /\ generated' = [generated EXCEPT ![u] = @ + 1]
  /\ Finish(r)
  /\ UNCHANGED <<limit, verified, password, allowed, guesses, misses, consumed>>

(* resendOTP: a raw SELECT of the user, then DEL, then generateOTP.        *)
RequestResend(r, u) ==
  /\ requests[r] = Idle
  /\ Go(r, [step |-> "resending", user |-> u])
  /\ UNCHANGED <<store, history>>

ReadUnverified(r) ==
  /\ At(r, "resending")
  /\ ResendQueryWorks
  /\ ~verified[requests[r].user]
  /\ Go(r, [requests[r] EXCEPT !.step = "clearing"])
  /\ UNCHANGED <<store, history>>

DeleteForResend(r) ==
  LET u == requests[r].user IN
  /\ At(r, "clearing")
  /\ otp' = [otp EXCEPT ![u] = NoOtp]
  /\ Go(r, [step |-> "cleared", user |-> u])
  /\ UNCHANGED <<limit, verified, password, history>>

-----------------------------------------------------------------------------
(* verifyOTP                                                               *)

(* verifyOTPByEmail takes no e-mail: it looks through the active OTPs for  *)
(* one with the submitted code, its owner's or that of whoever holds the   *)
(* same code.                                                              *)
FindByCode(r, u) ==
  /\ requests[r] = Idle
  /\ otp[u] # NoOtp
  /\ Go(r, [step |-> "found", user |-> u, code |-> otp[u].code])
  /\ UNCHANGED <<store, history>>

(* A search that finds the code with none of the users it looks at, those  *)
(* of the tenant named in the request, answers a wrong code and counts it  *)
(* against nobody.                                                         *)
MissByCode(r, code, tenant) ==
  LET passed == {u \in tenant : otp[u] # NoOtp} IN
  /\ requests[r] = Idle
  /\ \A u \in passed : otp[u].code # code /\ misses[u][otp[u].nr] < MaxMisses
  /\ misses' = [u \in User |-> IF u \in passed THEN [misses[u] EXCEPT ![otp[u].nr] = @ + 1]
                               ELSE misses[u]]
  /\ UNCHANGED <<store, requests, generated, allowed, guesses, consumed, overlapped>>

(* A code arrives for a user: from a search, or with the user's identity.  *)
Submitted(r, u, code) ==
  \/ requests[r] = Idle
  \/ requests[r] = [step |-> "found", user |-> u, code |-> code]

(* getOTP finds the attempts used up ...                                   *)
SeeLocked(r, u, code) ==
  /\ Submitted(r, u, code)
  /\ otp[u] # NoOtp
  /\ otp[u].attempts >= MaxAttempts
  /\ Go(r, [step |-> "locking", user |-> u])
  /\ UNCHANGED <<store, history>>

(* ... or another code ...                                                 *)
SeeWrong(r, u, code) ==
  /\ Submitted(r, u, code)
  /\ otp[u] # NoOtp
  /\ otp[u].attempts < MaxAttempts
  /\ otp[u].code # code
  /\ Go(r, [step |-> "guessing", user |-> u, nr |-> otp[u].nr])
  /\ UNCHANGED <<store, history>>

(* ... or the code.  resetPasswordWithOtp knows its user by e-mail.        *)
SeeMatch(r, u, code, reset) ==
  /\ Submitted(r, u, code)
  /\ reset => requests[r] = Idle
  /\ otp[u] # NoOtp
  /\ otp[u].attempts < MaxAttempts
  /\ otp[u].code = code
  /\ Go(r, [step |-> "marking", user |-> u, otp |-> otp[u], reset |-> reset])
  /\ UNCHANGED <<store, history>>

(* incrementAttempts: GET, TTL, SETEX of the record that was read.         *)
ReadAttempts(r) ==
  LET q == requests[r] IN
  /\ At(r, "guessing")
  /\ otp[q.user] # NoOtp
  /\ Go(r, [step |-> "counted", user |-> q.user, nr |-> q.nr,
            record |-> [otp[q.user] EXCEPT !.attempts = @ + 1]])
  /\ UNCHANGED <<store, history>>

(* The answer to a wrong code; an exhausted OTP is deleted first.          *)
AnswerWrong(r) ==
  LET q == requests[r] IN
  /\ guesses' = [guesses EXCEPT ![q.user][q.nr] = @ + 1]
  /\ Go(r, IF q.record.attempts >= MaxAttempts
           THEN [step |-> "locking", user |-> q.user]
           ELSE Idle)

ReadTtl(r) ==
  /\ At(r, "counted")
  /\ otp[requests[r].user] # NoOtp
  /\ Go(r, [requests[r] EXCEPT !.step = "writing"])
  /\ UNCHANGED <<store, history>>

(* No key, no TTL: nothing is written.                                     *)
SkipAttempts(r) ==
  /\ At(r, "counted")
  /\ otp[requests[r].user] = NoOtp
  /\ AnswerWrong(r)
  /\ UNCHANGED <<store, generated, allowed, misses, consumed>>

WriteAttempts(r) ==
  LET q == requests[r] IN
  /\ At(r, "writing")
  /\ otp' = [otp EXCEPT ![q.user] = q.record]
  /\ AnswerWrong(r)
  /\ UNCHANGED <<limit, verified, password, generated, allowed, misses, consumed>>

DeleteLocked(r) ==
  /\ At(r, "locking")
  /\ otp' = [otp EXCEPT ![requests[r].user] = NoOtp]
  /\ Finish(r)
  /\ UNCHANGED <<limit, verified, password, history>>

MarkVerified(r) ==
  LET q == requests[r] IN
  /\ At(r, "marking")
  /\ verified' = [verified EXCEPT ![q.user] = TRUE]
  /\ Go(r, [step |-> "consuming", user |-> q.user, nr |-> q.otp.nr, reset |-> q.reset])
  /\ UNCHANGED <<otp, limit, password, history>>

(* deleteOTP deletes whatever the key holds by now.                        *)
ConsumeOtp(r) ==
  LET q == requests[r] IN
  /\ At(r, "consuming")
  /\ otp' = [otp EXCEPT ![q.user] = NoOtp]
  /\ consumed' = [consumed EXCEPT ![q.user] = @ \cup {q.nr}]
  /\ Go(r, IF q.reset THEN [step |-> "changing", user |-> q.user, nr |-> q.nr] ELSE Idle)
  /\ UNCHANGED <<limit, verified, password, generated, allowed, guesses, misses>>

(* resetPasswordWithOtp, after the hash.                                   *)
ChangePassword(r) ==
  LET q == requests[r] IN
  /\ At(r, "changing")
  /\ password' = [password EXCEPT ![q.user] = q.nr]
  /\ Finish(r)
  /\ UNCHANGED <<otp, limit, verified, history>>

-----------------------------------------------------------------------------
(* Redis or the database may refuse a statement and a process may die: the *)
(* request ends, and what it wrote before stays written.                   *)
Fail(r) ==
  /\ requests[r] # Idle
  /\ Finish(r)
  /\ UNCHANGED <<store, history>>

(* The keys expire.                                                        *)
ExpireOtp(u) ==
  /\ otp[u] # NoOtp
  /\ otp' = [otp EXCEPT ![u] = NoOtp]
  /\ UNCHANGED <<limit, verified, password, requests, history, overlapped>>

EndWindow(u) ==
  /\ limit[u] # 0
  /\ limit' = [limit EXCEPT ![u] = 0]
  /\ allowed' = [allowed EXCEPT ![u] = 0]
  /\ UNCHANGED <<otp, verified, password, requests, generated, guesses, misses, consumed,
                 overlapped>>

-----------------------------------------------------------------------------
Generate(r) ==
  \/ \E u \in User : ReadLimit(r, u) \/ RequestResend(r, u)
  \/ ReadUnverified(r)
  \/ DeleteForResend(r)
  \/ WriteLimit(r)
  \/ \E code \in Code : StoreOtp(r, code)

Verify(r) ==
  \/ \E u \in User :
       \/ FindByCode(r, u)
       \/ \E code \in Code :
            \/ SeeLocked(r, u, code)
            \/ SeeWrong(r, u, code)
            \/ \E reset \in BOOLEAN : SeeMatch(r, u, code, reset)
  \/ \E code \in Code, tenant \in SUBSET User : MissByCode(r, code, tenant)
  \/ ReadAttempts(r)
  \/ ReadTtl(r)
  \/ SkipAttempts(r)
  \/ WriteAttempts(r)
  \/ DeleteLocked(r)
  \/ MarkVerified(r)
  \/ ConsumeOtp(r)
  \/ ChangePassword(r)

Next ==
  \/ \E r \in Request : Generate(r) \/ Verify(r) \/ Fail(r)
  \/ \E u \in User : ExpireOtp(u) \/ EndWindow(u)

Spec == Init /\ [][Next]_vars

(* Requests end; a user without an OTP asks for another again and again,   *)
(* and not every one of these requests meets an outage; the window ends.   *)
Fairness ==
  /\ \A r \in Request : WF_vars(Fail(r))
  /\ \A r \in Request, u \in User :
       /\ SF_vars(RequestResend(r, u))
       /\ SF_vars(ReadUnverified(r) /\ requests[r].user = u)
       /\ SF_vars(DeleteForResend(r) /\ requests[r].user = u)
       /\ SF_vars(ReadLimit(r, u) /\ At(r, "cleared"))
       /\ SF_vars(WriteLimit(r) /\ requests[r].user = u)
       /\ SF_vars(\E code \in Code : StoreOtp(r, code) /\ requests[r].user = u)
  /\ \A u \in User : WF_vars(EndWindow(u))

FairSpec == Spec /\ Fairness

-----------------------------------------------------------------------------
(* What the component guarantees *)

(* The rate limit record never passes the limit, though every request      *)
(* writes a count that it read some time before.                           *)
LimitNeverPassed == \A u \in User : limit[u] <= MaxRequests

(* A password is reset only by an OTP that was removed before, and only    *)
(* for a user it has verified: reset and verification share one key, and a *)
(* failure in between leaves the old password.                             *)
ResetFollowsVerification ==
  \A u \in User : password[u] # 0 => verified[u] /\ password[u] \in consumed[u]

(* Lost updates of the attempts lengthen the game but it ends.  With two   *)
(* requests at once a stale SETEX sets the count back, yet each time one   *)
(* step further than the time before; the last two codes may be answered   *)
(* after the OTP is gone.  This is of the wrong codes that come with their *)
(* user: signed in, with an e-mail in a reset, or found by a search.  A    *)
(* search that finds nobody is in misses, and nothing in this code ends    *)
(* those.                                                                  *)
GuessesBounded ==
  \A u \in User, n \in Serial :
    guesses[u][n] <= (MaxAttempts * (MaxAttempts + 3)) \div 2

(* For a user whose requests come one at a time the limits are exact, even *)
(* across failed requests: an OTP takes MaxAttempts wrong codes that come  *)
(* with their user and has counted just these, the window allows           *)
(* MaxRequests and a spent OTP is gone for good.  Two at once lose updates *)
(* of the counts, and the write-back of a wrong code can store a spent OTP *)
(* again.  Searches that find nobody (misses) are under no such limit.     *)
LimitsHoldOneByOne ==
  \A u \in User : ~overlapped[u] =>
    /\ allowed[u] <= MaxRequests
    /\ \A n \in Serial : guesses[u][n] <= MaxAttempts
    /\ otp[u] # NoOtp => /\ otp[u].nr \notin consumed[u]
                         /\ otp[u].attempts = guesses[u][otp[u].nr]

(* A user who is not verified and has no OTP gets one by asking for a      *)
(* resend: what resendOTP is for, and what its query, naming a column the  *)
(* table does not have, never lets happen.                                 *)
LostOtpIsReplaced ==
  \A u \in User :
    (~verified[u] /\ otp[u] = NoOtp /\ generated[u] < MaxOtps)
      ~> (verified[u] \/ otp[u] # NoOtp \/ generated[u] = MaxOtps)

=============================================================================
