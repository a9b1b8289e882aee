---------------------------- MODULE SlidingWindow ----------------------------
(***************************************************************************)
(* The request limiters: one key of the sliding window that four services  *)
(* keep in Redis, each with its own text of checkRateLimit                 *)
(*   invitation/services/invitation-rate-limit.service.ts                  *)
(*   auth/services/google-oauth-rate-limit.service.ts                      *)
(*   tenant/services/tenant-management-rate-limit.service.ts               *)
(*   notifications/services/rate-limiting.service.ts (nothing calls it)    *)
(* and the guards that call them.  The last two are the same text.         *)
(*                                                                         *)
(* An entry of the sorted set is known by its age, the ticks since the     *)
(* timestamp it is scored with.  A pipeline is four commands sent as one:  *)
(* no MULTI, so Redis may serve another client between them.               *)
(***************************************************************************)
EXTENDS Naturals, FiniteSets

CONSTANTS
  Request,     \* requests for one key that may be in progress at once
  Limit,       \* maxRequests
  Window,      \* windowMs, in ticks
  Buffer,      \* the minute the invitation service adds to the expiry
  MaxDelay,    \* ticks a check may take from Date.now() to its answer
  MaxEntries,  \* bound: no request starts while the key holds this many
  MaxFaults    \* bound: split or lost pipelines, lost answers, crashes

ASSUME SlidingWindowAssumption ==
  /\ IsFiniteSet(Request)
  /\ Limit \in Nat /\ Buffer \in Nat
  /\ Window \in Nat /\ MaxDelay \in Nat /\ MaxDelay < Window
  /\ MaxEntries \in Nat /\ MaxFaults \in Nat

VARIABLES
  copy,      \* whose text of checkRateLimit guards the key; it never changes
  entries,   \* entries of finished requests in the sorted set, by age
  ttl,       \* ticks until the key expires, 0 when it has no expiry
  requests,  \* the requests in progress and whether the set holds their entry
  admitted,  \* history: requests let through, by the age of their timestamp
  faults     \* history: what went wrong so far

vars == <<copy, entries, ttl, requests, admitted, faults>>

-----------------------------------------------------------------------------
Copy == {"invitation", "google", "tenant"}

(* These texts keep the id they added; the other one makes up a new one.   *)
RemovesItsOwn == {"invitation", "google"}

(* Past OldestAge an entry is too old for whoever looks at it.             *)
OldestAge == Window + MaxDelay
Age == 0 .. OldestAge

Idle == [step |-> "idle", age |-> 0, room |-> FALSE, member |-> FALSE]

RequestState ==
  [step : {"idle", "asking", "counted", "refused"}, age : 0 .. MaxDelay,
   room : BOOLEAN, member : BOOLEAN]

At(r, step) == requests[r].step = step
Go(r, state) == requests' = [requests EXCEPT ![r] = state]
Members == {r \in Request : requests[r].member}

(* The entries of these ages, told apart by a number, and their number.    *)
Each(byAge, ages) == UNION {{a} \X (1 .. byAge[a]) : a \in ages}
Total(byAge, ages) == Cardinality(Each(byAge, ages))
Size == Total(entries, Age) + Cardinality(Members)

With(byAge, r) == [byAge EXCEPT ![requests[r].age] = @ + 1]

(* What a request leaves in the set when it is over.                       *)
Left(r) == IF requests[r].member THEN With(entries, r) ELSE entries

(* Mutant: the entries that have left the window are not removed.          *)
KeptForever(r) == entries

(* zremrangebyscore 0 .. now - window, where r read now some ticks ago.    *)
Kept(r) == [a \in Age |-> IF a < requests[r].age + Window THEN entries[a] ELSE 0]

(* zcard after it; r's own entry is not in the set yet.                    *)
Held(r) == Total(Kept(r), Age) + Cardinality(Members)

(* Mutant: the comparison is off by one.                                   *)
HasRoomInclusive(r) == Held(r) <= Limit

(* allowed = currentCount < limit.                                         *)
HasRoom(r) == Held(r) < Limit

(* Redis drops a key with its expiry when the set becomes empty.           *)
Empty(byAge, members) == members = {} /\ \A a \in Age : byAge[a] = 0
TtlOf(byAge, members) == IF Empty(byAge, members) THEN 0 ELSE ttl

(* Mutant: seconds are rounded down.                                       *)
LifetimeRoundedDown == Window - 1

Lifetime == IF copy = "invitation" THEN Window + Buffer ELSE Window

TypeOK ==
  /\ copy \in Copy
  /\ entries \in [Age -> Nat]
  /\ ttl \in 0 .. Window + Buffer
  /\ requests \in [Request -> RequestState]
  /\ admitted \in [Age -> Nat]
  /\ faults \in 0 .. MaxFaults

Init ==
  /\ copy \in Copy
  /\ entries = [a \in Age |-> 0]
  /\ ttl = 0
  /\ requests = [r \in Request |-> Idle]
  /\ admitted = [a \in Age |-> 0]
  /\ faults = 0

-----------------------------------------------------------------------------
Fault == faults < MaxFaults /\ faults' = faults + 1

Admit(r) ==
  /\ admitted' = With(admitted, r)
  /\ Go(r, Idle)

Refuse(r, listed) ==
  /\ Go(r, [requests[r] EXCEPT !.step = "refused", !.room = FALSE, !.member = listed])
  /\ UNCHANGED admitted

(* The entry is in the set whatever the answer.                            *)
Decide(r, allowed, before) ==
  \/ allowed /\ Admit(r) /\ entries' = With(before, r)
  \/ ~allowed /\ Refuse(r, TRUE) /\ entries' = before

(* The guard picks the key; the check starts with Date.now().              *)
Ask(r) ==
  /\ At(r, "idle")
  /\ Size < MaxEntries
  /\ Go(r, [Idle EXCEPT !.step = "asking"])
  /\ UNCHANGED <<copy, entries, ttl, admitted, faults>>

RunPipeline(r) ==
  /\ At(r, "asking")
  /\ Decide(r, HasRoom(r), Kept(r))
  /\ ttl' = Lifetime
  /\ UNCHANGED <<copy, faults>>

(* Redis serves others between zcard and zadd.                             *)
SplitPipeline(r) ==
  /\ At(r, "asking")
  /\ Fault
  /\ Go(r, [requests[r] EXCEPT !.step = "counted", !.room = HasRoom(r)])
  /\ entries' = Kept(r)
  /\ ttl' = TtlOf(Kept(r), Members)
  /\ UNCHANGED <<copy, admitted>>

FinishPipeline(r) ==
  /\ At(r, "counted")
  /\ Decide(r, requests[r].room, entries)
  /\ ttl' = Lifetime
  /\ UNCHANGED <<copy, faults>>

(* Redis runs the other commands and answers zadd with an error (it is out *)
(* of memory).  Only the invitation service looks at the errors: it fails  *)
(* open.  The others compare the count they got.                           *)
RefuseZadd(r) ==
  /\ At(r, "asking")
  /\ Fault
  /\ entries' = Kept(r)
  /\ ttl' = IF Empty(Kept(r), Members) THEN 0 ELSE Lifetime
  /\ \/ (copy = "invitation" \/ HasRoom(r)) /\ Admit(r)
     \/ (copy # "invitation" /\ ~HasRoom(r)) /\ Refuse(r, FALSE)
  /\ UNCHANGED copy

(* The connection is lost after some of the commands: exec throws, and the *)
(* check fails open.                                                       *)
LosePipeline(r) ==
  /\ At(r, "asking")
  /\ Fault
  /\ Admit(r)
  /\ \/ UNCHANGED <<entries, ttl>>
     \/ entries' = Kept(r) /\ ttl' = TtlOf(Kept(r), Members)
     \/ entries' = With(Kept(r), r) /\ ttl' \in {TtlOf(Kept(r), Members), Lifetime}
  /\ UNCHANGED copy

(* Mutant: zrem is given an id that was never added.                       *)
RemoveAnother(r) ==
  /\ At(r, "refused")
  /\ Go(r, Idle)
  /\ entries' = Left(r)
  /\ UNCHANGED <<copy, ttl, admitted, faults>>

(* The set when zrem has run.                                              *)
Removed(r) == IF copy \in RemovesItsOwn THEN entries ELSE Left(r)

(* zrem, then the guard answers 429.                                       *)
Remove(r) ==
  /\ At(r, "refused")
  /\ Go(r, Idle)
  /\ entries' = Removed(r)
  /\ ttl' = TtlOf(entries', Members \ {r})
  /\ UNCHANGED <<copy, admitted, faults>>

(* The call of zrem throws in the same try block, whether Redis ran it or  *)
(* not, and the refused request is let through.                            *)
LoseRemoval(r) ==
  /\ At(r, "refused")
  /\ Fault
  /\ Admit(r)
  /\ entries' \in {Left(r), Removed(r)}
  /\ ttl' = TtlOf(entries', Members \ {r})
  /\ UNCHANGED copy

(* The process dies; a pipeline it has sent may still be run.              *)
Crash(r) ==
  /\ ~At(r, "idle")
  /\ Fault
  /\ Go(r, Idle)
  /\ \/ entries' = Left(r) /\ UNCHANGED ttl
     \/ At(r, "asking") /\ entries' = With(Kept(r), r) /\ ttl' = Lifetime
  /\ UNCHANGED <<copy, admitted>>

-----------------------------------------------------------------------------
Older(byAge) ==
  [a \in Age |-> IF a = 0 THEN 0
                 ELSE IF a = OldestAge THEN byAge[a - 1] + byAge[a]
                 ELSE byAge[a - 1]]

Later(q) ==
  [step |-> q.step, age |-> q.age + 1, room |-> q.room,
   member |-> IF ttl = 1 THEN FALSE ELSE q.member]

(* Redis expires the key: nothing of the set is left.                      *)
Tick ==
  /\ \A r \in Request : At(r, "idle") \/ requests[r].age < MaxDelay
  /\ entries' = IF ttl = 1 THEN [a \in Age |-> 0] ELSE Older(entries)
  /\ ttl' = IF ttl = 0 THEN 0 ELSE ttl - 1
  /\ requests' = [r \in Request |-> IF At(r, "idle") THEN Idle ELSE Later(requests[r])]
  /\ admitted' = [Older(admitted) EXCEPT ![OldestAge] = 0]
  /\ UNCHANGED <<copy, faults>>

Proceed(r) == RunPipeline(r) \/ FinishPipeline(r) \/ Remove(r)

Break(r) ==
  SplitPipeline(r) \/ RefuseZadd(r) \/ LosePipeline(r) \/ LoseRemoval(r) \/ Crash(r)

Next ==
  \/ \E r \in Request : Ask(r) \/ Proceed(r) \/ Break(r)
  \/ Tick

(* A check that runs is answered, and time passes.  Nobody has to ask.     *)
Fairness == (\A r \in Request : WF_vars(Proceed(r))) /\ WF_vars(Tick)

Spec == Init /\ [][Next]_vars /\ Fairness

-----------------------------------------------------------------------------
(* Whatever interval of timestamps one looks at, the limiter has let       *)
(* through no more than the limit of those requests, and one more for each *)
(* pipeline that was split or lost: refused requests, the expiry of the    *)
(* key and clocks read a while ago never open the window.  The interval is *)
(* shorter than the window by the delay: a late check may find its window  *)
(* purged by one that looked at the clock after it.                        *)
LimitHolds ==
  \A late \in 0 .. MaxDelay :
    Total(admitted, late .. late + Window - MaxDelay - 1) <= Limit + faults

(* "Remove the request we just added since it's not allowed": in the texts *)
(* that remove their own entry, what still counts against the limit stands *)
(* for requests that were let through, or for a fault.                     *)
OnlyAdmissionsCount ==
  copy \in RemovesItsOwn =>
    \A a \in 0 .. Window - 1 : entries[a] <= admitted[a] + faults

(* The expiry set by the last pipeline outlives every entry that a check   *)
(* reading the clock now would count.                                      *)
ExpiryForgetsNothing ==
  faults = 0 =>
    \A a \in 0 .. Window - 1 : entries[a] > 0 => ttl >= Window - a

(* Clients that keep asking keep being let through now and then: refused   *)
(* requests leave nothing behind that keeps the window full.  This needs a *)
(* limit of at least the requests in progress, for their entries count     *)
(* until they are removed; the text that removes nothing does not have it. *)
KeepsAdmitting ==
  copy \in RemovesItsOwn =>
    (([]<>\E r \in Request : At(r, "asking")) => []<>(Total(admitted, 0 .. MaxDelay) > 0))

=============================================================================
