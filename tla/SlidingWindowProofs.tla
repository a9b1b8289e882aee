------------------------- MODULE SlidingWindowProofs -------------------------
(***************************************************************************)
(* Theorems about SlidingWindow, for any number of requests, any limit,    *)
(* window and delay: its variables keep their types, only admissions (and  *)
(* faults) count where a refused request removes its own entry, the expiry *)
(* of the key outlives what counts, and no interval passes the limit by    *)
(* more than the faults.                                                   *)
(***************************************************************************)
EXTENDS SlidingWindow, FiniteSetTheorems, TLAPS

USE SlidingWindowAssumption DEF Age, OldestAge

-----------------------------------------------------------------------------
(* One more entry, scored with the timestamp of r.                         *)
LEMMA WithOne ==
  ASSUME TypeOK, NEW r \in Request, NEW f \in [Age -> Nat]
  PROVE  /\ With(f, r) \in [Age -> Nat]
         /\ requests[r].age \in 0 .. MaxDelay
         /\ requests[r].age \in Age
         /\ \A a \in Age :
              With(f, r)[a] = IF a = requests[r].age THEN f[a] + 1 ELSE f[a]
<1>1. requests[r].age \in 0 .. MaxDelay
  BY DEF TypeOK, RequestState
<1>2. requests[r].age \in Age
  BY <1>1
<1> QED BY <1>1, <1>2 DEF With

(* Purging removes entries and adds none.                                  *)
LEMMA KeptLess ==
  ASSUME TypeOK, NEW r \in Request
  PROVE  /\ Kept(r) \in [Age -> Nat]
         /\ \A a \in Age : Kept(r)[a] \in {0, entries[a]}
         /\ \A a \in Age : Kept(r)[a] <= entries[a]
BY DEF TypeOK, RequestState, Kept

(* What a request leaves behind is what was there, with its entry or not.  *)
LEMMA LeftOne ==
  ASSUME TypeOK, NEW r \in Request
  PROVE  /\ Left(r) \in {entries, With(entries, r)}
         /\ ~requests[r].member => Left(r) = entries
         /\ Left(r) \in [Age -> Nat]
         /\ Removed(r) \in {entries, Left(r)}
         /\ copy \in RemovesItsOwn => Removed(r) = entries
BY WithOne DEF TypeOK, Left, Removed

(* Ageing keeps counts counts.                                             *)
LEMMA OlderTyped ==
  ASSUME NEW f \in [Age -> Nat]
  PROVE  Older(f) \in [Age -> Nat]
<1>1. ASSUME NEW a \in Age PROVE Older(f)[a] \in Nat
  BY <1>1 DEF Older
<1> QED BY <1>1 DEF Older

-----------------------------------------------------------------------------
(* The variables keep their types.                                         *)
LEMMA StepKeepsTypes ==
  ASSUME TypeOK, [Next]_vars
  PROVE  TypeOK'
<1> USE DEF TypeOK
<1>1. ASSUME NEW r \in Request
      PROVE  requests[r] \in RequestState /\ Idle \in RequestState
  BY DEF RequestState, Idle
<1>2. Lifetime \in 0 .. Window + Buffer
  BY DEF Lifetime
<1>3. ASSUME NEW f, NEW m PROVE TtlOf(f, m) \in 0 .. Window + Buffer
  BY DEF TtlOf
<1>4. ASSUME NEW r \in Request
       PROVE  /\ entries \in [Age -> Nat]
              /\ Kept(r) \in [Age -> Nat]
              /\ With(entries, r) \in [Age -> Nat]
              /\ With(Kept(r), r) \in [Age -> Nat]
              /\ Left(r) \in [Age -> Nat]
              /\ Removed(r) \in [Age -> Nat]
  BY WithOne, KeptLess, LeftOne
<1>5. ASSUME NEW r \in Request, Admit(r)
      PROVE  admitted' \in [Age -> Nat] /\ requests' \in [Request -> RequestState]
  BY <1>1, <1>5, WithOne DEF Admit, Go
<1>6. ASSUME NEW r \in Request, NEW b \in BOOLEAN, Refuse(r, b)
      PROVE  admitted' \in [Age -> Nat] /\ requests' \in [Request -> RequestState]
  BY <1>1, <1>6 DEF Refuse, Go, RequestState
<1>7. ASSUME Fault PROVE faults' \in 0 .. MaxFaults
  BY <1>7 DEF Fault
<1>8. ASSUME NEW r \in Request, Ask(r) PROVE TypeOK'
  BY <1>1, <1>8 DEF Ask, Go, RequestState, Idle
<1>9. ASSUME NEW r \in Request, NEW allowed \in BOOLEAN, NEW before \in [Age -> Nat],
             Decide(r, allowed, before)
      PROVE  /\ entries' \in [Age -> Nat]
             /\ admitted' \in [Age -> Nat]
             /\ requests' \in [Request -> RequestState]
  <2>1. With(before, r) \in [Age -> Nat]
    BY WithOne
  <2>2. CASE allowed /\ Admit(r) /\ entries' = With(before, r)
    BY <1>5, <2>1, <2>2
  <2>3. CASE ~allowed /\ Refuse(r, TRUE) /\ entries' = before
    BY <1>6, <2>3
  <2> QED BY <1>9, <2>2, <2>3 DEF Decide
<1>10. ASSUME NEW r \in Request, RunPipeline(r) PROVE TypeOK'
  <2>1. HasRoom(r) \in BOOLEAN BY DEF HasRoom
  <2> QED BY <1>9, <1>10, <1>2, <1>4, <2>1 DEF RunPipeline
<1>11. ASSUME NEW r \in Request, SplitPipeline(r) PROVE TypeOK'
  <2>1. HasRoom(r) \in BOOLEAN BY DEF HasRoom
  <2>2. requests' \in [Request -> RequestState]
    BY <1>1, <1>11, <2>1 DEF SplitPipeline, Go, RequestState
  <2> QED BY <1>7, <1>11, <1>3, <1>4, <2>2 DEF SplitPipeline
<1>12. ASSUME NEW r \in Request, FinishPipeline(r) PROVE TypeOK'
  <2>1. requests[r].room \in BOOLEAN BY DEF RequestState
  <2> QED BY <1>9, <1>12, <1>2, <2>1 DEF FinishPipeline
<1>13. ASSUME NEW r \in Request, RefuseZadd(r) PROVE TypeOK'
  <2>1. admitted' \in [Age -> Nat] /\ requests' \in [Request -> RequestState]
    <3>1. Admit(r) \/ Refuse(r, FALSE) BY <1>13 DEF RefuseZadd
    <3> QED BY <1>5, <1>6, <3>1
  <2>2. ttl' \in 0 .. Window + Buffer
    BY <1>13, <1>2 DEF RefuseZadd
  <2> QED BY <1>7, <1>13, <1>4, <2>1, <2>2 DEF RefuseZadd
<1>14. ASSUME NEW r \in Request, LosePipeline(r) PROVE TypeOK'
  <2>1. entries' \in [Age -> Nat]
    BY <1>14, <1>4 DEF LosePipeline
  <2>2. ttl' \in 0 .. Window + Buffer
    BY <1>14, <1>2, <1>3 DEF LosePipeline
  <2> QED BY <1>5, <1>7, <1>14, <2>1, <2>2 DEF LosePipeline
<1>15. ASSUME NEW r \in Request, Remove(r) PROVE TypeOK'
  BY <1>1, <1>15, <1>3, <1>4 DEF Remove, Go
<1>16. ASSUME NEW r \in Request, LoseRemoval(r) PROVE TypeOK'
  BY <1>5, <1>7, <1>16, <1>3, <1>4 DEF LoseRemoval
<1>17. ASSUME NEW r \in Request, Crash(r) PROVE TypeOK'
  <2>1. requests' \in [Request -> RequestState]
    BY <1>1, <1>17 DEF Crash, Go
  <2>2. entries' \in [Age -> Nat] /\ ttl' \in 0 .. Window + Buffer
    BY <1>17, <1>2, <1>4 DEF Crash
  <2> QED BY <1>7, <1>17, <2>1, <2>2 DEF Crash
<1>18. ASSUME Tick PROVE TypeOK'
  <2>1. requests' \in [Request -> RequestState]
    <3>1. ASSUME NEW r \in Request, requests[r].age < MaxDelay
          PROVE  Later(requests[r]) \in RequestState
      <4>1. /\ requests[r].age + 1 \in 0 .. MaxDelay
            /\ requests[r].step \in {"idle", "asking", "counted", "refused"}
            /\ requests[r].room \in BOOLEAN
            /\ requests[r].member \in BOOLEAN
        BY <3>1 DEF RequestState
      <4>2. (IF ttl = 1 THEN FALSE ELSE requests[r].member) \in BOOLEAN
        BY <4>1
      <4> QED BY <4>1, <4>2, Zenon DEF Later, RequestState
    <3> QED BY <1>1, <1>18, <3>1 DEF Tick
  <2>2. admitted' \in [Age -> Nat]
    BY <1>18, OlderTyped DEF Tick
  <2>3. entries' \in [Age -> Nat]
    BY <1>18, OlderTyped DEF Tick
  <2>4. ttl' \in 0 .. Window + Buffer
    BY <1>18 DEF Tick
  <2> QED BY <1>18, <2>1, <2>2, <2>3, <2>4 DEF Tick
<1>19. CASE UNCHANGED vars
  BY <1>19 DEF vars
<1> QED
  BY <1>8, <1>10, <1>11, <1>12, <1>13, <1>14, <1>15, <1>16, <1>17, <1>18, <1>19
  DEF Next, Proceed, Break

(* Every variable keeps its type: a request in flight never gets older     *)
(* than the delay allows, and the expiry never passes the longest lifetime *)
(* the services ask for.                                                   *)
THEOREM TypeCorrect == Spec => []TypeOK
<1>1. Init => TypeOK
  BY DEF Init, TypeOK, RequestState, Idle
<1> QED
  BY <1>1, StepKeepsTypes, PTL DEF Spec

-----------------------------------------------------------------------------
(* Only admissions count.  The invariant is inductive by itself: an entry  *)
(* is settled with the admission it stands for, or with a fault.           *)

(* An admission lists itself, or loses an entry to a fault.                *)
LEMMA AdmitCounts ==
  ASSUME TypeOK, OnlyAdmissionsCount, copy \in RemovesItsOwn, UNCHANGED copy,
         NEW r \in Request, Admit(r), faults' \in Nat, faults' >= faults,
         NEW before \in [Age -> Nat], \A a \in Age : before[a] <= entries[a],
         entries' \in {before, With(before, r)}
  PROVE  OnlyAdmissionsCount'
<1>1. admitted \in [Age -> Nat] /\ entries \in [Age -> Nat] /\ faults \in Nat
  BY DEF TypeOK
<1>2. admitted' = With(admitted, r)
  BY DEF Admit
<1> SUFFICES ASSUME NEW a \in 0 .. Window - 1
             PROVE  entries'[a] <= admitted'[a] + faults'
  BY DEF OnlyAdmissionsCount
<1>3. a \in Age
  OBVIOUS
<1>4. entries[a] <= admitted[a] + faults /\ before[a] <= entries[a]
  BY <1>3 DEF OnlyAdmissionsCount
<1>5. With(before, r)[a] = IF a = requests[r].age THEN before[a] + 1 ELSE before[a]
  BY <1>3, WithOne
<1>6. admitted'[a] = IF a = requests[r].age THEN admitted[a] + 1 ELSE admitted[a]
  BY <1>1, <1>2, <1>3, WithOne
<1>7. entries'[a] = before[a] \/ entries'[a] = With(before, r)[a]
  OBVIOUS
<1>8. /\ before[a] \in Nat /\ entries[a] \in Nat /\ admitted[a] \in Nat
      /\ faults \in Nat
  BY <1>1, <1>3
<1>9. CASE a = requests[r].age
  <2>1. admitted'[a] = admitted[a] + 1
    BY <1>6, <1>9
  <2>2. entries'[a] = before[a] \/ entries'[a] = before[a] + 1
    BY <1>5, <1>7, <1>9
  <2> QED BY <1>4, <1>8, <2>1, <2>2
<1>10. CASE a # requests[r].age
  <2>1. admitted'[a] = admitted[a] /\ entries'[a] = before[a]
    BY <1>5, <1>6, <1>7, <1>10
  <2> QED BY <1>4, <1>8, <2>1
<1> QED BY <1>9, <1>10

(* A step that admits nobody lists nothing new.                            *)
LEMMA QuietCounts ==
  ASSUME TypeOK, OnlyAdmissionsCount, UNCHANGED <<copy, admitted>>,
         faults' \in Nat, faults' >= faults,
         \A a \in Age : entries'[a] \in Nat /\ entries'[a] <= entries[a]
  PROVE  OnlyAdmissionsCount'
<1>1. admitted \in [Age -> Nat] /\ entries \in [Age -> Nat] /\ faults \in Nat
  BY DEF TypeOK
<1> SUFFICES ASSUME copy \in RemovesItsOwn, NEW a \in 0 .. Window - 1
             PROVE  entries'[a] <= admitted'[a] + faults'
  BY DEF OnlyAdmissionsCount
<1>2. a \in Age
  OBVIOUS
<1>3. entries[a] <= admitted[a] + faults
  BY DEF OnlyAdmissionsCount
<1> QED BY <1>1, <1>2, <1>3

(* No step lists what was not admitted.                                    *)
LEMMA StepKeepsCounts ==
  ASSUME TypeOK, OnlyAdmissionsCount, [Next]_vars
  PROVE  OnlyAdmissionsCount'
<1>1. CASE copy \notin RemovesItsOwn
  <2>1. UNCHANGED copy
    BY DEF Next, Proceed, Break, Ask, RunPipeline, SplitPipeline, FinishPipeline,
           RefuseZadd, LosePipeline, Remove, LoseRemoval, Crash, Tick, vars
  <2> QED BY <1>1, <2>1 DEF OnlyAdmissionsCount
<1>2. CASE copy \in RemovesItsOwn
  <2>1. /\ entries \in [Age -> Nat] /\ admitted \in [Age -> Nat] /\ faults \in Nat
        /\ \A a \in Age : entries[a] \in Nat /\ entries[a] <= entries[a]
    BY DEF TypeOK
  <2>2. ASSUME Fault PROVE faults' = faults + 1 /\ faults' \in Nat /\ faults' >= faults
    BY <2>1, <2>2 DEF Fault
  <2>3. ASSUME UNCHANGED faults PROVE faults' \in Nat /\ faults' >= faults
    BY <2>1, <2>3
  <2>4. ASSUME NEW r \in Request, Ask(r) PROVE OnlyAdmissionsCount'
    BY <2>1, <2>3, <2>4, QuietCounts DEF Ask
  <2>5. ASSUME NEW r \in Request, NEW allowed, NEW before \in [Age -> Nat],
               \A a \in Age : before[a] <= entries[a],
               Decide(r, allowed, before), UNCHANGED <<copy, faults>>
        PROVE  OnlyAdmissionsCount'
    <3>1. CASE Admit(r) /\ entries' = With(before, r)
      BY <1>2, <2>3, <2>5, <3>1, AdmitCounts
    <3>2. CASE Refuse(r, TRUE) /\ entries' = before
      <4>1. \A a \in Age : entries'[a] \in Nat /\ entries'[a] <= entries[a]
        BY <2>5, <3>2
      <4> QED BY <2>3, <2>5, <3>2, <4>1, QuietCounts DEF Refuse
    <3> QED BY <2>5, <3>1, <3>2 DEF Decide
  <2>6. ASSUME NEW r \in Request, RunPipeline(r) PROVE OnlyAdmissionsCount'
    BY <2>5, <2>6, KeptLess DEF RunPipeline
  <2>7. ASSUME NEW r \in Request, SplitPipeline(r) PROVE OnlyAdmissionsCount'
    <3>1. \A a \in Age : entries'[a] \in Nat /\ entries'[a] <= entries[a]
      BY <2>7, KeptLess DEF SplitPipeline
    <3> QED BY <2>2, <2>7, <3>1, QuietCounts DEF SplitPipeline
  <2>8. ASSUME NEW r \in Request, FinishPipeline(r) PROVE OnlyAdmissionsCount'
    BY <2>1, <2>5, <2>8 DEF FinishPipeline
  <2>9. ASSUME NEW r \in Request, RefuseZadd(r) PROVE OnlyAdmissionsCount'
    <3>1. CASE Admit(r)
      <4>1. entries' = Kept(r) /\ UNCHANGED copy
        BY <2>9 DEF RefuseZadd
      <4>2. faults' \in Nat /\ faults' >= faults
        BY <2>2, <2>9 DEF RefuseZadd
      <4> QED BY <1>2, <3>1, <4>1, <4>2, KeptLess, AdmitCounts
    <3>2. CASE Refuse(r, FALSE)
      <4>1. \A a \in Age : entries'[a] \in Nat /\ entries'[a] <= entries[a]
        BY <2>9, KeptLess DEF RefuseZadd
      <4> QED BY <2>2, <2>9, <3>2, <4>1, QuietCounts DEF RefuseZadd, Refuse
    <3> QED BY <2>9, <3>1, <3>2 DEF RefuseZadd
  <2>10. ASSUME NEW r \in Request, LosePipeline(r) PROVE OnlyAdmissionsCount'
    <3>1. Admit(r) /\ UNCHANGED copy
      BY <2>10 DEF LosePipeline
    <3>2. faults' \in Nat /\ faults' >= faults
      BY <2>2, <2>10 DEF LosePipeline
    <3>3. CASE entries' = entries
      BY <1>2, <2>1, <3>1, <3>2, <3>3, AdmitCounts
    <3>4. CASE entries' \in {Kept(r), With(Kept(r), r)}
      BY <1>2, <3>1, <3>2, <3>4, KeptLess, AdmitCounts
    <3> QED BY <2>10, <3>3, <3>4 DEF LosePipeline
  <2>11. ASSUME NEW r \in Request, Remove(r) PROVE OnlyAdmissionsCount'
    <3>1. entries' = entries
      BY <1>2, <2>11, LeftOne DEF Remove
    <3> QED BY <2>1, <2>3, <2>11, <3>1, QuietCounts DEF Remove
  <2>12. ASSUME NEW r \in Request, LoseRemoval(r) PROVE OnlyAdmissionsCount'
    <3>1. entries' \in {entries, With(entries, r)}
      BY <1>2, <2>12, LeftOne DEF LoseRemoval
    <3>2. faults' \in Nat /\ faults' >= faults
      BY <2>2, <2>12 DEF LoseRemoval
    <3> QED BY <1>2, <2>1, <2>12, <3>1, <3>2, AdmitCounts DEF LoseRemoval
  <2>13. ASSUME NEW r \in Request, Crash(r) PROVE OnlyAdmissionsCount'
    <3>1. faults' = faults + 1 /\ UNCHANGED <<copy, admitted>>
      BY <2>2, <2>13 DEF Crash
    <3>2. PICK before \in [Age -> Nat] :
            /\ \A a \in Age : before[a] <= entries[a]
            /\ entries' \in {before, With(before, r)}
      <4>1. CASE entries' = Left(r)
        BY <2>1, <4>1, LeftOne
      <4>2. CASE entries' = With(Kept(r), r)
        BY <4>2, KeptLess
      <4> QED BY <2>13, <4>1, <4>2 DEF Crash
    <3> SUFFICES ASSUME NEW a \in 0 .. Window - 1
                 PROVE  entries'[a] <= admitted'[a] + faults'
      BY DEF OnlyAdmissionsCount
    <3>3. a \in Age
      OBVIOUS
    <3>4. entries[a] <= admitted[a] + faults
      BY <1>2 DEF OnlyAdmissionsCount
    <3>5. entries'[a] = before[a] \/ entries'[a] = before[a] + 1
      <4>1. With(before, r)[a] = IF a = requests[r].age THEN before[a] + 1 ELSE before[a]
        BY <3>3, WithOne
      <4> QED BY <3>2, <4>1
    <3>6. before[a] <= entries[a] /\ before[a] \in Nat /\ entries[a] \in Nat
          /\ admitted[a] \in Nat
      BY <2>1, <3>2, <3>3
    <3> QED BY <2>1, <3>1, <3>4, <3>5, <3>6
  <2>14. ASSUME Tick PROVE OnlyAdmissionsCount'
    <3>1. UNCHANGED <<copy, faults>>
      BY <2>14 DEF Tick
    <3> SUFFICES ASSUME NEW a \in 0 .. Window - 1
                 PROVE  entries'[a] <= admitted'[a] + faults'
      BY DEF OnlyAdmissionsCount
    <3>2. a \in Age /\ a < OldestAge
      OBVIOUS
    <3>3. admitted'[a] = Older(admitted)[a]
      BY <2>1, <2>14, <3>2, OlderTyped DEF Tick
    <3>4. entries'[a] = 0 \/ entries'[a] = Older(entries)[a]
      BY <2>14, <3>2 DEF Tick
    <3>5. CASE a = 0
      BY <2>1, <3>1, <3>2, <3>3, <3>4, <3>5 DEF Older
    <3>6. CASE a # 0
      <4>1. a - 1 \in 0 .. Window - 1 /\ a - 1 \in Age
        BY <3>6
      <4>2. entries[a - 1] <= admitted[a - 1] + faults
        BY <1>2, <4>1 DEF OnlyAdmissionsCount
      <4>3. admitted'[a] = admitted[a - 1] /\ entries'[a] \in {0, entries[a - 1]}
        BY <3>2, <3>3, <3>4, <3>6 DEF Older
      <4> QED BY <2>1, <3>1, <4>1, <4>2, <4>3
    <3> QED BY <3>5, <3>6
  <2>15. CASE UNCHANGED vars
    BY <2>15 DEF vars, OnlyAdmissionsCount
  <2> QED
    BY <2>4, <2>6, <2>7, <2>8, <2>9, <2>10, <2>11, <2>12, <2>13, <2>14, <2>15
    DEF Next, Proceed, Break
<1> QED BY <1>1, <1>2

(* Where a refused request removes its own entry, whatever still counts    *)
(* against the limit was let through, or was left by a fault.              *)
THEOREM OnlyAdmissionsCountHolds == Spec => []OnlyAdmissionsCount
<1>1. Init => OnlyAdmissionsCount
  BY DEF Init, OnlyAdmissionsCount
<1>2. TypeOK /\ OnlyAdmissionsCount /\ [Next]_vars => OnlyAdmissionsCount'
  BY StepKeepsCounts
<1> QED
  BY <1>1, <1>2, TypeCorrect, PTL DEF Spec

-----------------------------------------------------------------------------
(* The expiry outlives what counts.  It is inductive together with the     *)
(* same fact about the entries of refused requests not yet removed, which  *)
(* a removal that makes up a new id leaves behind.                         *)
MembersOutlived ==
  faults = 0 =>
    \A r \in Members : requests[r].age < Window => ttl >= Window - requests[r].age

(* What the expiry of a key forgets is out of the window.                  *)
Outlived == ExpiryForgetsNothing /\ MembersOutlived

(* Just after expire has run, nothing can be forgotten.                    *)
LEMMA FreshExpiry ==
  ASSUME TypeOK, TypeOK', UNCHANGED copy, ttl' = Lifetime
  PROVE  Outlived'
<1>1. ttl' \in Nat /\ ttl' >= Window
  BY DEF Lifetime
<1>2. \A a \in Nat : ttl' >= Window - a
  BY <1>1
<1>3. \A r \in Request : (requests[r].age)' \in Nat
  BY DEF TypeOK, RequestState
<1>4. ExpiryForgetsNothing'
  BY <1>2 DEF ExpiryForgetsNothing
<1>5. MembersOutlived'
  BY <1>2, <1>3 DEF MembersOutlived, Members
<1> QED BY <1>4, <1>5 DEF Outlived

(* Every step keeps the expiry late enough.                                *)
LEMMA StepKeepsOutlived ==
  ASSUME TypeOK, TypeOK', Outlived, [Next]_vars
  PROVE  Outlived'
<1>1. faults \in Nat
  BY DEF TypeOK
<1>2. ASSUME Fault PROVE Outlived'
  BY <1>1, <1>2 DEF Fault, Outlived, ExpiryForgetsNothing, MembersOutlived
<1>3. ASSUME NEW r \in Request, Ask(r) PROVE Outlived'
  <2>1. /\ UNCHANGED <<entries, ttl, faults>>
        /\ requests' = [requests EXCEPT ![r] = [Idle EXCEPT !.step = "asking"]]
    BY <1>3 DEF Ask, Go
  <2>2. \A q \in Members' : q \in Members /\ requests'[q] = requests[q]
    BY <2>1 DEF Members, Idle, TypeOK
  <2> QED BY <2>1, <2>2 DEF Outlived, ExpiryForgetsNothing, MembersOutlived
<1>4. ASSUME NEW r \in Request, RunPipeline(r) \/ FinishPipeline(r) PROVE Outlived'
  BY <1>4, FreshExpiry DEF RunPipeline, FinishPipeline
<1>5. ASSUME NEW r \in Request, Remove(r) PROVE Outlived'
  <2>1. /\ UNCHANGED faults
        /\ requests' = [requests EXCEPT ![r] = Idle]
        /\ entries' = Removed(r)
        /\ ttl' = TtlOf(entries', Members \ {r})
    BY <1>5 DEF Remove, Go
  <2>2. \A q \in Members' : q \in Members \ {r} /\ requests'[q] = requests[q]
    BY <2>1 DEF Members, Idle, TypeOK
  <2>3. ASSUME faults = 0, NEW a \in 0 .. Window - 1, entries'[a] > 0
        PROVE  ttl >= Window - a
    <3>1. a \in Age /\ entries \in [Age -> Nat]
      BY DEF TypeOK
    <3>2. CASE entries[a] > 0
      BY <2>3, <3>2 DEF Outlived, ExpiryForgetsNothing
    <3>3. CASE ~(entries[a] > 0)
      <4>1. entries' # entries
        BY <2>3, <3>3
      <4>2. entries' = With(entries, r) /\ r \in Members
        BY <2>1, <4>1, LeftOne DEF Members
      <4>3. a = requests[r].age
        BY <2>3, <3>1, <3>3, <4>2, WithOne
      <4> QED BY <2>3, <4>2, <4>3 DEF Outlived, MembersOutlived
    <3> QED BY <3>2, <3>3
  <2>4. ASSUME NEW a \in 0 .. Window - 1, entries'[a] > 0 PROVE ttl' = ttl
    BY <2>1, <2>4 DEF TtlOf, Empty
  <2>5. ASSUME NEW q \in Members' PROVE ttl' = ttl
    BY <2>1, <2>2, <2>5 DEF TtlOf, Empty
  <2>6. ExpiryForgetsNothing'
    BY <2>1, <2>3, <2>4 DEF ExpiryForgetsNothing
  <2>7. MembersOutlived'
    BY <2>1, <2>2, <2>5 DEF Outlived, MembersOutlived
  <2> QED BY <2>6, <2>7 DEF Outlived
<1>6. ASSUME NEW r \in Request, Break(r) PROVE Outlived'
  BY <1>2, <1>6 DEF Break, SplitPipeline, RefuseZadd, LosePipeline, LoseRemoval, Crash
<1>7. ASSUME Tick PROVE Outlived'
  <2> SUFFICES ASSUME faults = 0 PROVE Outlived'
    BY <1>7 DEF Tick, Outlived, ExpiryForgetsNothing, MembersOutlived
  <2>1. entries \in [Age -> Nat] /\ ttl \in Nat
    BY DEF TypeOK
  <2>2. ASSUME NEW a \in 0 .. Window - 1, entries'[a] > 0 PROVE ttl' >= Window - a
    <3>1. ttl # 1
      BY <1>7, <2>2 DEF Tick
    <3>2. entries'[a] = Older(entries)[a]
      BY <1>7, <3>1 DEF Tick
    <3>3. a # 0
      BY <2>2, <3>2 DEF Older
    <3>4. a - 1 \in 0 .. Window - 1 /\ a # OldestAge /\ a \in Age
      BY <3>3
    <3>5. entries'[a] = entries[a - 1]
      BY <3>2, <3>3, <3>4 DEF Older
    <3>6. ttl >= Window - (a - 1)
      BY <2>2, <3>4, <3>5 DEF Outlived, ExpiryForgetsNothing
    <3>7. ttl' = ttl - 1
      BY <1>7, <2>1, <3>4, <3>6 DEF Tick
    <3> QED BY <2>1, <3>6, <3>7
  <2>3. ASSUME NEW q \in Members', requests'[q].age < Window
        PROVE  ttl' >= Window - requests'[q].age
    <3>1. q \in Request /\ requests'[q].member /\ requests[q].age \in Nat
      BY <2>3 DEF Members, TypeOK, RequestState
    <3>2. requests'[q] = Later(requests[q])
      BY <1>7, <3>1 DEF Tick, Idle
    <3>3. /\ requests[q].member /\ ttl # 1
          /\ requests'[q].age = requests[q].age + 1
      BY <3>1, <3>2 DEF Later
    <3>4. ttl >= Window - requests[q].age /\ requests[q].age < Window
      BY <2>3, <3>1, <3>3 DEF Outlived, MembersOutlived, Members
    <3>5. ttl' = ttl - 1
      BY <1>7, <2>1, <3>1, <3>4 DEF Tick
    <3> QED BY <2>1, <3>1, <3>3, <3>4, <3>5
  <2> QED BY <2>2, <2>3 DEF Outlived, ExpiryForgetsNothing, MembersOutlived
<1>8. CASE UNCHANGED vars
  BY <1>8 DEF vars, Outlived, ExpiryForgetsNothing, MembersOutlived, Members
<1> QED
  BY <1>3, <1>4, <1>5, <1>6, <1>7, <1>8 DEF Next, Proceed

(* As long as nothing fails, Redis does not expire the key while it holds  *)
(* an entry that a check reading the clock now would count.                *)
THEOREM ExpiryForgetsNothingHolds == Spec => []ExpiryForgetsNothing
<1>1. Init => Outlived
  BY DEF Init, Outlived, ExpiryForgetsNothing, MembersOutlived, Members, Idle
<1>2. TypeOK /\ TypeOK' /\ Outlived /\ [Next]_vars => Outlived'
  BY StepKeepsOutlived
<1>3. Outlived => ExpiryForgetsNothing
  BY DEF Outlived
<1> QED
  BY <1>1, <1>2, <1>3, TypeCorrect, PTL DEF Spec

-----------------------------------------------------------------------------
(* Counting entries *)

HIDE SlidingWindowAssumption DEF Age, OldestAge

(* Ages are finitely many numbers.                                         *)
LEMMA AgesAre == IsFiniteSet(Age) /\ \A a \in Age : a \in Nat
<1>1. Window + MaxDelay \in Nat
  BY SlidingWindowAssumption
<1>2. IsFiniteSet(0 .. Window + MaxDelay)
  BY <1>1, FS_Interval
<1> QED BY <1>1, <1>2 DEF Age, OldestAge

(* What is in the set that a total counts.                                 *)
LEMMA InEach ==
  ASSUME NEW f \in [Age -> Nat], NEW S \in SUBSET Age, NEW e
  PROVE  e \in Each(f, S) <=> \E a \in S, i \in Nat : i \in 1 .. f[a] /\ e = <<a, i>>
  BY DEF Each

(* That set can be counted.                                                *)
LEMMA EachFinite ==
  ASSUME NEW f \in [Age -> Nat], NEW S \in SUBSET Age
  PROVE  IsFiniteSet(Each(f, S)) /\ Total(f, S) \in Nat
<1> DEFINE T == {{a} \X (1 .. f[a]) : a \in S}
           g == [a \in S |-> {a} \X (1 .. f[a])]
<1>1. IsFiniteSet(S)
  BY AgesAre, FS_Subset
<1>2. IsFiniteSet(T)
  <2>1. g \in Surjection(S, T)
    BY DEF Surjection
  <2> QED BY <1>1, <2>1, FS_Surjection
<1>3. ASSUME NEW t \in T PROVE IsFiniteSet(t)
  <2>1. PICK a \in S : t = {a} \X (1 .. f[a])
    OBVIOUS
  <2>2. IsFiniteSet({a}) /\ IsFiniteSet(1 .. f[a])
    <3>1. 1 \in Int /\ f[a] \in Int
      OBVIOUS
    <3> QED BY <3>1, FS_Singleton, FS_Interval
  <2> QED BY <2>1, <2>2, FS_Product
<1>4. IsFiniteSet(UNION T)
  <2> HIDE DEF T
  <2> QED BY <1>2, <1>3, FS_UNION
<1>5. IsFiniteSet(Each(f, S))
  BY <1>4 DEF Each
<1> QED BY <1>5, FS_CardinalityType DEF Total

(* More at each age, or more ages, is more in total.                       *)
LEMMA TotalMore ==
  ASSUME NEW f \in [Age -> Nat], NEW g \in [Age -> Nat],
         NEW S \in SUBSET Age, NEW T \in SUBSET Age, S \subseteq T,
         \A a \in S : f[a] <= g[a]
  PROVE  Total(f, S) <= Total(g, T)
<1>1. Each(f, S) \subseteq Each(g, T)
  <2> SUFFICES ASSUME NEW e \in Each(f, S) PROVE e \in Each(g, T)
    OBVIOUS
  <2>1. PICK a \in S, i \in Nat : i \in 1 .. f[a] /\ e = <<a, i>>
    BY InEach
  <2>2. i \in 1 .. g[a] /\ a \in T
    BY <2>1
  <2> QED BY <2>1, <2>2, InEach
<1> QED BY <1>1, EachFinite, FS_Subset DEF Total

(* No age, no total.                                                       *)
LEMMA TotalNone ==
  ASSUME NEW f \in [Age -> Nat]
  PROVE  Total(f, {}) = 0
<1>1. Each(f, {}) = {}
  BY DEF Each
<1> QED BY <1>1, FS_EmptySet DEF Total

(* One admission more is one more in the totals of its age.                *)
LEMMA TotalWith ==
  ASSUME TypeOK, NEW r \in Request, NEW f \in [Age -> Nat], NEW S \in SUBSET Age
  PROVE  Total(With(f, r), S) = IF requests[r].age \in S THEN Total(f, S) + 1 ELSE Total(f, S)
<1> DEFINE b == requests[r].age
<1>1. /\ With(f, r) \in [Age -> Nat] /\ b \in Age
      /\ \A a \in Age : With(f, r)[a] = IF a = b THEN f[a] + 1 ELSE f[a]
  BY WithOne
<1> HIDE DEF b
<1>2. CASE b \in S
  <2>1. Each(With(f, r), S) = Each(f, S) \cup {<<b, f[b] + 1>>}
    <3>1. ASSUME NEW e \in Each(With(f, r), S) PROVE e \in Each(f, S) \cup {<<b, f[b] + 1>>}
      <4>1. PICK a \in S, i \in Nat : i \in 1 .. With(f, r)[a] /\ e = <<a, i>>
        BY <1>1, InEach
      <4>2. CASE a = b /\ i = f[b] + 1
        BY <4>1, <4>2
      <4>3. CASE ~(a = b /\ i = f[b] + 1)
        <5>1. i \in 1 .. f[a]
          BY <1>1, <4>1, <4>3
        <5> QED BY <4>1, <5>1, InEach
      <4> QED BY <4>2, <4>3
    <3>2. ASSUME NEW e \in Each(f, S) PROVE e \in Each(With(f, r), S)
      <4>1. PICK a \in S, i \in Nat : i \in 1 .. f[a] /\ e = <<a, i>>
        BY InEach
      <4>2. f[a] \in Nat /\ With(f, r)[a] \in Nat /\ f[a] <= With(f, r)[a]
        BY <1>1, <4>1
      <4>3. i \in 1 .. With(f, r)[a]
        BY <4>1, <4>2
      <4> QED BY <1>1, <4>1, <4>3, InEach
    <3>3. <<b, f[b] + 1>> \in Each(With(f, r), S)
      <4>1. f[b] + 1 \in Nat /\ f[b] + 1 \in 1 .. With(f, r)[b]
        BY <1>1
      <4> QED BY <1>1, <1>2, <4>1, InEach
    <3> QED BY <3>1, <3>2, <3>3
  <2>2. <<b, f[b] + 1>> \notin Each(f, S)
    <3> SUFFICES ASSUME NEW a \in S, NEW i \in Nat, i \in 1 .. f[a], <<b, f[b] + 1>> = <<a, i>>
                 PROVE  FALSE
      BY InEach
    <3>1. a = b /\ i = f[b] + 1
      OBVIOUS
    <3> QED BY <1>1, <3>1
  <2> QED BY <1>2, <2>1, <2>2, EachFinite, FS_AddElement DEF Total, b
<1>3. CASE b \notin S
  <2>1. /\ \A a \in S : f[a] <= With(f, r)[a] /\ With(f, r)[a] <= f[a]
    BY <1>1, <1>3
  <2>2. Total(f, S) <= Total(With(f, r), S) /\ Total(With(f, r), S) <= Total(f, S)
    BY <1>1, <2>1, TotalMore
  <2>3. Total(f, S) \in Nat /\ Total(With(f, r), S) \in Nat
    BY <1>1, EachFinite
  <2> QED BY <1>3, <2>2, <2>3 DEF b
<1> QED BY <1>2, <1>3

(* A tick later the same entries are one tick older.                       *)
LEMMA TotalOlder ==
  ASSUME NEW f \in [Age -> Nat], NEW g \in [Age -> Nat],
         NEW S \in SUBSET Age,
         \A a \in S : g[a] = IF a = 0 THEN 0 ELSE f[a - 1]
  PROVE  Total(g, S) = Total(f, {a \in Age : a + 1 \in S})
<1> DEFINE T == {a \in Age : a + 1 \in S}
           h == [e \in Each(f, T) |-> <<e[1] + 1, e[2]>>]
<1>1. IsFiniteSet(Each(f, T))
  BY EachFinite
<1>2. ASSUME NEW e \in Each(f, T)
      PROVE  /\ h[e] \in Each(g, S)
             /\ \E a \in T, i \in Nat : e = <<a, i>> /\ h[e] = <<a + 1, i>>
  <2>1. PICK a \in T, i \in Nat : i \in 1 .. f[a] /\ e = <<a, i>>
    BY InEach
  <2>2. h[e] = <<a + 1, i>>
    BY <2>1
  <2>3. a + 1 \in S /\ g[a + 1] = f[a] /\ i \in Nat
    <3>1. a \in Nat /\ a + 1 \in S
      BY <2>1, AgesAre
    <3>2. a + 1 # 0 /\ (a + 1) - 1 = a
      BY <3>1
    <3> QED BY <2>1, <3>1, <3>2
  <2>4. <<a + 1, i>> \in Each(g, S)
    BY <2>1, <2>3, InEach
  <2> QED BY <2>1, <2>2, <2>3, <2>4
<1>3. h \in Injection(Each(f, T), Each(g, S))
  <2>1. h \in [Each(f, T) -> Each(g, S)]
    BY <1>2
  <2>2. ASSUME NEW d \in Each(f, T), NEW e \in Each(f, T), h[d] = h[e] PROVE d = e
    <3>1. PICK a \in T, i \in Nat : d = <<a, i>> /\ h[d] = <<a + 1, i>>
      BY <1>2
    <3>2. PICK b \in T, j \in Nat : e = <<b, j>> /\ h[e] = <<b + 1, j>>
      BY <1>2
    <3>3. a + 1 = b + 1 /\ i = j
      BY <2>2, <3>1, <3>2
    <3>4. a = b
      <4>1. a \in Nat /\ b \in Nat
        BY <3>1, <3>2, AgesAre
      <4> QED BY <3>3, <4>1
    <3> QED BY <3>1, <3>2, <3>3, <3>4
  <2> HIDE DEF h, T
  <2> QED BY <2>1, <2>2 DEF Injection, IsInjective
<1>4. h \in Surjection(Each(f, T), Each(g, S))
  <2>1. ASSUME NEW e \in Each(g, S) PROVE \E d \in Each(f, T) : h[d] = e
    <3>1. PICK a \in S, i \in Nat : i \in 1 .. g[a] /\ e = <<a, i>>
      BY InEach
    <3>2. a # 0 /\ a \in Nat /\ i \in 1 .. f[a - 1]
      <4>1. a = 0 => g[a] = 0
        BY <3>1
      <4>2. a \in Nat
        BY <3>1, AgesAre
      <4> QED BY <3>1, <4>1, <4>2
    <3>3. a - 1 \in T /\ (a - 1) + 1 = a
      <4>1. \A b \in Age, c \in Nat : c + 1 = b => c \in Age
        BY SlidingWindowAssumption DEF Age, OldestAge
      <4> QED BY <3>1, <3>2, <4>1
    <3>4. <<a - 1, i>> \in Each(f, T)
      BY <3>2, <3>3, InEach
    <3>5. h[<<a - 1, i>>] = <<a, i>>
      BY <3>3, <3>4
    <3> QED BY <3>1, <3>4, <3>5
  <2> HIDE DEF h
  <2> QED BY <1>3, <2>1 DEF Surjection, Injection
<1>5. ExistsBijection(Each(f, T), Each(g, S))
  <2> HIDE DEF h
  <2> QED BY <1>3, <1>4 DEF ExistsBijection, Bijection
<1> QED BY <1>1, <1>5, FS_Bijection DEF Total

-----------------------------------------------------------------------------
(* The limit.  A check whose pipeline was split has paid a fault for what  *)
(* it will let through on a count it has already read.                     *)
Pending == {r \in Request : At(r, "counted") /\ requests[r].room}
Owed == Cardinality(Pending)

(* Ages within the window.                                                 *)
Recent == 0 .. Window - 1
Forgotten == {a \in Recent : a + ttl < Window}
Interval(late) == late .. late + Window - MaxDelay - 1

(* Every admission that still counts is in the set, but for the faults.    *)
AdmissionsListed ==
  \A S \in SUBSET Recent : Total(admitted, S) + Owed <= Total(entries, S) + faults

(* Those that the expiry will take from the set too early are faults too.  *)
ExpiryTakesFaults == ttl # 0 => Total(admitted, Forgotten) + Owed <= faults

(* Admissions in every interval, with those a split check has promised,    *)
(* are within the limit but for the faults.                                *)
LimitWithOwed ==
  \A late \in 0 .. MaxDelay : Total(admitted, Interval(late)) + Owed <= Limit + faults

(* The inductive invariant behind the limit.                               *)
LimitInv == AdmissionsListed /\ ExpiryTakesFaults /\ LimitWithOwed

(* The ages in question are ages.                                          *)
LEMMA AgesCounted ==
  /\ Recent \subseteq Age /\ Forgotten \subseteq Recent
  /\ \A late \in 0 .. MaxDelay : Interval(late) \subseteq Recent
  BY SlidingWindowAssumption DEF Recent, Forgotten, Interval, Age, OldestAge

(* Promised admissions can be counted.                                     *)
LEMMA OwedTyped == TypeOK => IsFiniteSet(Pending) /\ Owed \in Nat
<1>1. Pending \in SUBSET Request
  BY DEF Pending
<1> QED BY <1>1, SlidingWindowAssumption, FS_Subset, FS_CardinalityType DEF Owed

(* The same, as a state predicate.                                         *)
OwedInNat == IsFiniteSet(Pending) /\ Owed \in Nat

(* ... and still can after a step.                                         *)
LEMMA OwedTypedNext == TypeOK' => OwedInNat'
<1>1. TypeOK => OwedInNat
  BY OwedTyped DEF OwedInNat
<1> QED BY <1>1, PTL

(* Only the request that steps can begin or stop to owe.                   *)
LEMMA OwedChanges ==
  ASSUME TypeOK, TypeOK', NEW r \in Request, \A s \in Request : s # r => requests'[s] = requests[s]
  PROVE  /\ Owed' <= Owed + 1
         /\ r \notin Pending' => Owed' <= Owed
         /\ r \notin Pending' /\ r \in Pending => Owed' + 1 <= Owed
<1>1. Pending' \subseteq Pending \cup {r}
  BY DEF Pending, At
<1>2. /\ IsFiniteSet(Pending) /\ Owed \in Nat
      /\ IsFiniteSet(Pending') /\ Owed' \in Nat
  BY OwedTyped, OwedTypedNext DEF OwedInNat
<1>3. Owed' <= Owed + 1
  <2>1. IsFiniteSet(Pending \cup {r}) /\ Cardinality(Pending \cup {r}) <= Owed + 1
    <3>1. /\ IsFiniteSet(Pending \cup {r})
          /\ Cardinality(Pending \cup {r}) =
               IF r \in Pending THEN Cardinality(Pending) ELSE Cardinality(Pending) + 1
      BY <1>2, FS_AddElement
    <3> QED BY <1>2, <3>1 DEF Owed
  <2>2. Cardinality(Pending') <= Cardinality(Pending \cup {r})
    BY <1>1, <2>1, FS_Subset
  <2>3. Cardinality(Pending \cup {r}) \in Nat
    BY <2>1, FS_CardinalityType
  <2> QED BY <1>2, <2>1, <2>2, <2>3 DEF Owed
<1>4. ASSUME r \notin Pending' PROVE Owed' <= Owed
  <2>1. Pending' \subseteq Pending
    BY <1>1, <1>4
  <2> QED BY <1>2, <2>1, FS_Subset DEF Owed
<1>5. ASSUME r \notin Pending', r \in Pending PROVE Owed' + 1 <= Owed
  <2>1. Pending' \subseteq Pending \ {r}
    BY <1>1, <1>5
  <2>2. IsFiniteSet(Pending \ {r}) /\ Cardinality(Pending \ {r}) = Owed - 1
    BY <1>2, <1>5, FS_RemoveElement DEF Owed
  <2>3. Cardinality(Pending') <= Cardinality(Pending \ {r})
    BY <2>1, <2>2, FS_Subset
  <2> QED BY <1>2, <2>2, <2>3 DEF Owed
<1> QED BY <1>3, <1>4, <1>5

(* The expiry stays, goes, or is set so far ahead that it takes nothing.   *)
LEMMA ExpiryMoves ==
  ASSUME TypeOK, TypeOK', AdmissionsListed', ttl' = 0 \/ ttl' >= Window
  PROVE  ExpiryTakesFaults'
<1>1. CASE ttl' = 0
  BY <1>1 DEF ExpiryTakesFaults
<1>2. CASE ttl' >= Window
  <2>1. Forgotten' = {}
    BY <1>2, SlidingWindowAssumption DEF Forgotten, Recent, TypeOK
  <2>2. /\ admitted' \in [Age -> Nat] /\ entries' \in [Age -> Nat]
        /\ Total(admitted', {}) + Owed' <= Total(entries', {}) + faults'
    BY DEF AdmissionsListed, TypeOK
  <2>3. Total(admitted', {}) = 0 /\ Total(entries', {}) = 0
    BY <2>2, TotalNone
  <2>4. Total(admitted, Forgotten)' = 0
    BY <2>1, <2>3
  <2>5. Owed' \in Nat /\ faults' \in Nat
    BY OwedTypedNext, SlidingWindowAssumption DEF TypeOK, OwedInNat
  <2>6. PICK p \in Nat : p = Owed'
    BY <2>5
  <2>7. PICK f \in Nat : f = faults'
    BY <2>5
  <2>8. 0 + p <= 0 + f
    BY <2>2, <2>3, <2>6, <2>7
  <2>9. Total(admitted, Forgotten)' + Owed' <= faults'
    <3>1. 0 + p <= f
      BY <2>8
    <3> QED BY <2>4, <2>6, <2>7, <3>1
  <2> QED BY <2>9 DEF ExpiryTakesFaults
<1> QED BY <1>1, <1>2

(* Totals are numbers.                                                     *)
LEMMA CountsTyped ==
  ASSUME TypeOK, NEW S \in SUBSET Recent
  PROVE  Total(admitted, S) \in Nat /\ Total(entries, S) \in Nat /\ faults \in Nat /\ Owed \in Nat
  BY AgesCounted, EachFinite, OwedTyped, SlidingWindowAssumption DEF TypeOK

(* Steps that let nobody through, or pay for it with a fault.              *)
LEMMA Settled ==
  ASSUME TypeOK, TypeOK', LimitInv, NEW r \in Request,
         \/ admitted' = admitted /\ Owed' + faults <= Owed + faults'
         \/ admitted' = With(admitted, r) /\ Owed' + faults + 1 <= Owed + faults',
         \A a \in Recent : entries[a] <= entries'[a],
         ttl' = ttl \/ ttl' = 0 \/ ttl' >= Window
  PROVE  LimitInv'
<1>1. /\ admitted \in [Age -> Nat] /\ entries \in [Age -> Nat] /\ faults \in Nat /\ Owed \in Nat
      /\ admitted' \in [Age -> Nat] /\ entries' \in [Age -> Nat] /\ faults' \in Nat /\ Owed' \in Nat
  BY OwedTyped, OwedTypedNext, SlidingWindowAssumption DEF TypeOK, OwedInNat
<1>6. PICK p \in Nat : p = Owed'
  BY <1>1
<1>7. PICK f \in Nat : f = faults'
  BY <1>1
<1>2. ASSUME NEW S \in SUBSET Recent
      PROVE  /\ Total(admitted, S) \in Nat /\ Total(admitted', S) \in Nat
             /\ Total(entries, S) \in Nat /\ Total(entries', S) \in Nat
             /\ Total(admitted', S) + p + faults <= Total(admitted, S) + Owed + f
             /\ Total(entries, S) <= Total(entries', S)
  <2>1. S \in SUBSET Age
    BY AgesCounted
  <2>2. /\ Total(admitted, S) \in Nat /\ Total(admitted', S) \in Nat
        /\ Total(entries, S) \in Nat /\ Total(entries', S) \in Nat
    BY <1>1, <2>1, EachFinite
  <2>3. Total(entries, S) <= Total(entries', S)
    BY <1>1, <2>1, TotalMore
  <2>4. admitted' = With(admitted, r) => Total(admitted', S) <= Total(admitted, S) + 1
    BY <1>1, <2>1, <2>2, TotalWith
  <2>5. Total(admitted', S) + p + faults <= Total(admitted, S) + Owed + f
    <3>1. CASE admitted' = admitted /\ p + faults <= Owed + f
      <4>1. Total(admitted', S) = Total(admitted, S)
        BY <3>1
      <4> QED BY <1>1, <2>2, <3>1, <4>1
    <3>2. CASE admitted' = With(admitted, r) /\ p + faults + 1 <= Owed + f
      BY <1>1, <2>2, <2>4, <3>2
    <3> QED BY <1>6, <1>7, <3>1, <3>2
  <2> QED BY <2>2, <2>3, <2>5
<1>3. AdmissionsListed'
  <2> SUFFICES ASSUME NEW S \in SUBSET Recent
               PROVE  Total(admitted', S) + Owed' <= Total(entries', S) + faults'
    BY DEF AdmissionsListed, Recent
  <2>1. Total(admitted, S) + Owed <= Total(entries, S) + faults
    BY DEF LimitInv, AdmissionsListed
  <2>2. PICK m \in Nat : m = Total(admitted', S)
    BY <1>2
  <2>3. PICK e \in Nat : e = Total(entries', S)
    BY <1>2
  <2>4. m + p <= e + f
    BY <1>1, <1>2, <2>1, <2>2, <2>3
  <2> QED BY <1>6, <1>7, <2>2, <2>3, <2>4
<1>4. ExpiryTakesFaults'
  <2>1. CASE ttl' = ttl
    <3> SUFFICES ASSUME ttl # 0 PROVE Total(admitted', Forgotten) + Owed' <= faults'
      BY <2>1 DEF ExpiryTakesFaults, Forgotten, Recent
    <3>1. Total(admitted, Forgotten) + Owed <= faults
      BY DEF LimitInv, ExpiryTakesFaults
    <3>2. PICK m \in Nat : m = Total(admitted', Forgotten)
      BY <1>2, AgesCounted
    <3>3. m + p <= f
      BY <1>1, <1>2, <3>1, <3>2, AgesCounted
    <3> QED BY <1>6, <1>7, <3>2, <3>3
  <2>2. CASE ttl' = 0 \/ ttl' >= Window
    BY <1>3, <2>2, ExpiryMoves
  <2> QED BY <2>1, <2>2
<1>5. LimitWithOwed'
  <2> SUFFICES ASSUME NEW late \in 0 .. MaxDelay
               PROVE  Total(admitted', Interval(late)) + Owed' <= Limit + faults'
    BY DEF LimitWithOwed, Interval
  <2>1. Total(admitted, Interval(late)) + Owed <= Limit + faults
    BY DEF LimitInv, LimitWithOwed
  <2>2. PICK m \in Nat : m = Total(admitted', Interval(late))
    BY <1>2, AgesCounted
  <2>3. m + p <= Limit + f
    BY <1>1, <1>2, <2>1, <2>2, AgesCounted, SlidingWindowAssumption
  <2> QED BY <1>6, <1>7, <2>2, <2>3
<1> QED BY <1>3, <1>4, <1>5 DEF LimitInv

(* A request is let through, and its entry is in the set.                  *)
LEMMA Listed ==
  ASSUME TypeOK, TypeOK', LimitInv, NEW r \in Request,
         admitted' = With(admitted, r), faults' = faults, Owed' <= Owed,
         NEW before \in [Age -> Nat], \A a \in Recent : before[a] = entries[a],
         entries' = With(before, r), ttl' >= Window,
         \/ Owed' + 1 <= Owed
         \/ Total(before, Recent) < Limit
  PROVE  LimitInv'
<1>1. /\ admitted \in [Age -> Nat] /\ entries \in [Age -> Nat] /\ faults \in Nat /\ Owed \in Nat
      /\ admitted' \in [Age -> Nat] /\ entries' \in [Age -> Nat] /\ Owed' \in Nat
  BY OwedTyped, OwedTypedNext, SlidingWindowAssumption DEF TypeOK, OwedInNat
<1>6. PICK p \in Nat : p = Owed'
  BY <1>1
<1>2. ASSUME NEW S \in SUBSET Recent
      PROVE  /\ Total(admitted, S) \in Nat /\ Total(before, S) \in Nat
             /\ Total(before, S) = Total(entries, S)
             /\ Total(admitted', S) \in {Total(admitted, S), Total(admitted, S) + 1}
             /\ Total(admitted', S) + Total(before, S) = Total(admitted, S) + Total(entries', S)
             /\ Total(admitted, S) + Owed <= Total(before, S) + faults
  <2>1. S \in SUBSET Age
    BY AgesCounted
  <2>2. Total(admitted, S) \in Nat /\ Total(before, S) \in Nat /\ Total(entries, S) \in Nat
    BY <1>1, <2>1, EachFinite
  <2>3. Total(before, S) = Total(entries, S)
    <3>1. \A a \in S : before[a] <= entries[a] /\ entries[a] <= before[a]
      <4>1. \A a \in S : before[a] = entries[a] /\ entries[a] \in Nat
        BY <1>1, <2>1
      <4> QED BY <4>1
    <3>2. Total(before, S) <= Total(entries, S) /\ Total(entries, S) <= Total(before, S)
      BY <1>1, <2>1, <3>1, TotalMore
    <3> QED BY <2>2, <3>2
  <2>4. /\ Total(admitted', S) = IF requests[r].age \in S THEN Total(admitted, S) + 1
                                 ELSE Total(admitted, S)
        /\ Total(entries', S) = IF requests[r].age \in S THEN Total(before, S) + 1
                                ELSE Total(before, S)
    BY <1>1, <2>1, TotalWith
  <2>5. Total(admitted, S) + Owed <= Total(entries, S) + faults
    BY DEF LimitInv, AdmissionsListed
  <2> QED BY <2>2, <2>3, <2>4, <2>5
<1>3. AdmissionsListed'
  <2> SUFFICES ASSUME NEW S \in SUBSET Recent
               PROVE  Total(admitted', S) + Owed' <= Total(entries', S) + faults
    BY DEF AdmissionsListed, Recent
  <2>1. Total(entries', S) \in Nat
    BY <1>1, EachFinite, AgesCounted
  <2>2. PICK m \in Nat : m = Total(admitted', S)
    BY <1>2
  <2>3. PICK e \in Nat : e = Total(entries', S)
    BY <2>1
  <2>4. m + p <= e + faults
    BY <1>6, <1>1, <1>2, <2>2, <2>3
  <2> QED BY <1>6, <2>2, <2>3, <2>4
<1>4. ExpiryTakesFaults'
  BY <1>3, ExpiryMoves
<1>5. LimitWithOwed'
  <2> SUFFICES ASSUME NEW late \in 0 .. MaxDelay
               PROVE  Total(admitted', Interval(late)) + Owed' <= Limit + faults
    BY DEF LimitWithOwed, Interval
  <2>1. Total(admitted, Interval(late)) + Owed <= Limit + faults
    BY DEF LimitInv, LimitWithOwed
  <2>2. Interval(late) \in SUBSET Recent
    BY AgesCounted
  <2>5. PICK m \in Nat : m = Total(admitted', Interval(late))
    BY <1>2, <2>2
  <2>3. CASE Owed' + 1 <= Owed
    <3>1. /\ Total(admitted, Interval(late)) \in Nat
          /\ Total(admitted', Interval(late))
               \in {Total(admitted, Interval(late)), Total(admitted, Interval(late)) + 1}
      BY <1>2, <2>2
    <3>2. p + 1 <= Owed
      BY <1>6, <2>3
    <3>3. m + p <= Limit + faults
      BY <1>1, <2>1, <2>5, <3>1, <3>2, SlidingWindowAssumption
    <3> QED BY <1>6, <2>5, <3>3
  <2>4. CASE Total(before, Recent) < Limit
    <3>1. Total(before, Interval(late)) <= Total(before, Recent)
      <4>1. \A a \in Interval(late) : before[a] <= before[a]
        BY <2>2, AgesCounted
      <4> QED BY <2>2, <4>1, AgesCounted, TotalMore
    <3>2. Total(before, Recent) \in Nat
      BY EachFinite, AgesCounted
    <3>3. m + p <= Limit + faults
      BY <1>6, <1>1, <1>2, <2>2, <2>5, <2>4, <3>1, <3>2, SlidingWindowAssumption
    <3> QED BY <1>6, <2>5, <3>3
  <2> QED BY <2>3, <2>4
<1> QED BY <1>3, <1>4, <1>5 DEF LimitInv

(* A step with a fault may admit one more.                                 *)
LEMMA Paid ==
  ASSUME TypeOK, TypeOK', LimitInv, NEW r \in Request, Fault,
         \A s \in Request : s # r => requests'[s] = requests[s],
         admitted' = admitted \/ (admitted' = With(admitted, r) /\ r \notin Pending'),
         \A a \in Recent : entries[a] <= entries'[a],
         ttl' = ttl \/ ttl' = 0 \/ ttl' >= Window
  PROVE  LimitInv'
<1>1. faults \in Nat /\ Owed \in Nat /\ Owed' \in Nat
  BY OwedTyped, OwedTypedNext, SlidingWindowAssumption DEF TypeOK, OwedInNat
<1>2. PICK p \in Nat : p = Owed'
  BY <1>1
<1>3. p <= Owed + 1 /\ (r \notin Pending' => p <= Owed)
  BY <1>2, OwedChanges
<1>4. PICK f \in Nat : f = faults' /\ f = faults + 1
  BY <1>1 DEF Fault
<1>5. CASE admitted' = admitted
  <2>1. p + faults <= Owed + f
    BY <1>1, <1>3, <1>4
  <2>2. Owed' + faults <= Owed + faults'
    BY <1>2, <1>4, <2>1
  <2> QED BY <1>5, <2>2, Settled
<1>6. CASE admitted' = With(admitted, r) /\ r \notin Pending'
  <2>1. p + faults + 1 <= Owed + f
    BY <1>1, <1>3, <1>4, <1>6
  <2>2. Owed' + faults + 1 <= Owed + faults'
    BY <1>2, <1>4, <2>1
  <2> QED BY <1>6, <2>2, Settled
<1> QED BY <1>5, <1>6

(* A step that admits nobody and owes nothing keeps the limit.             *)
LEMMA Unpaid ==
  ASSUME TypeOK, TypeOK', LimitInv, NEW r \in Request, UNCHANGED <<admitted, faults>>,
         \A s \in Request : s # r => requests'[s] = requests[s], r \notin Pending',
         \A a \in Recent : entries[a] <= entries'[a],
         ttl' = ttl \/ ttl' = 0 \/ ttl' >= Window
  PROVE  LimitInv'
<1>1. faults \in Nat /\ Owed \in Nat /\ Owed' \in Nat
  BY OwedTyped, OwedTypedNext, SlidingWindowAssumption DEF TypeOK, OwedInNat
<1>2. PICK p \in Nat : p = Owed'
  BY <1>1
<1>3. p + faults <= Owed + faults
  <2>1. p <= Owed
    BY <1>2, OwedChanges
  <2> QED BY <1>1, <2>1
<1>4. Owed' + faults <= Owed + faults'
  BY <1>2, <1>3
<1> QED BY <1>4, Settled

(* What a pipeline, a removal and an expiry leave in the window.           *)
LEMMA RecentStay ==
  ASSUME TypeOK, NEW r \in Request
  PROVE  /\ \A a \in Recent : entries[a] \in Nat /\ Kept(r)[a] = entries[a]
         /\ \A a \in Recent : With(Kept(r), r)[a] >= entries[a]
         /\ \A a \in Recent : Left(r)[a] >= entries[a] /\ Removed(r)[a] >= entries[a]
         /\ Kept(r) \in [Age -> Nat]
         /\ Lifetime >= Window
         /\ \A f, m : TtlOf(f, m) \in {0, ttl}
<1>1. \A a \in Recent : a \in Age /\ a < requests[r].age + Window /\ entries[a] \in Nat
  <2>1. requests[r].age \in Nat /\ \A a \in Recent : a \in Nat /\ a < Window
    BY WithOne, SlidingWindowAssumption DEF TypeOK, RequestState, Recent
  <2>2. \A a \in Recent : a \in Age
    BY AgesCounted
  <2> QED BY <2>1, <2>2, SlidingWindowAssumption DEF TypeOK
<1>2. \A a \in Recent : Kept(r)[a] = entries[a]
  BY <1>1 DEF Kept
<1>3. Kept(r) \in [Age -> Nat] /\ entries \in [Age -> Nat]
  BY KeptLess DEF TypeOK
<1>4. \A a \in Recent : With(Kept(r), r)[a] >= entries[a] /\ With(entries, r)[a] >= entries[a]
  BY <1>1, <1>2, <1>3, WithOne
<1>5. \A a \in Recent : Left(r)[a] >= entries[a] /\ Removed(r)[a] >= entries[a]
  BY <1>1, <1>4, LeftOne
<1>6. Lifetime >= Window
  BY SlidingWindowAssumption DEF Lifetime
<1> QED BY <1>1, <1>2, <1>3, <1>4, <1>5, <1>6 DEF TtlOf

(* A request that ends owes nothing.                                       *)
LEMMA GoesIdle ==
  ASSUME TypeOK, NEW r \in Request, NEW q, Go(r, q), q.step # "counted"
  PROVE  r \notin Pending' /\ \A s \in Request : s # r => requests'[s] = requests[s]
  BY DEF Go, TypeOK, Pending, At

(* What admitting and refusing do to the counts.                           *)
LEMMA AdmitOrRefuse ==
  ASSUME TypeOK, NEW r \in Request
  PROVE  /\ Admit(r) => /\ r \notin Pending' /\ admitted' = With(admitted, r)
                        /\ \A s \in Request : s # r => requests'[s] = requests[s]
         /\ \A b \in BOOLEAN :
              Refuse(r, b) => /\ r \notin Pending' /\ admitted' = admitted
                              /\ \A s \in Request : s # r => requests'[s] = requests[s]
<1>1. ASSUME Admit(r)
      PROVE  /\ r \notin Pending' /\ admitted' = With(admitted, r)
             /\ \A s \in Request : s # r => requests'[s] = requests[s]
  BY <1>1, GoesIdle DEF Admit, Idle
<1>2. ASSUME NEW b \in BOOLEAN, Refuse(r, b)
      PROVE  /\ r \notin Pending' /\ admitted' = admitted
             /\ \A s \in Request : s # r => requests'[s] = requests[s]
  <2> DEFINE q == [requests[r] EXCEPT !.step = "refused", !.room = FALSE, !.member = b]
  <2>1. requests[r] \in RequestState
    BY DEF TypeOK
  <2>2. q.step = "refused"
    BY <2>1 DEF RequestState
  <2>3. Go(r, q) /\ admitted' = admitted
    BY <1>2 DEF Refuse
  <2> HIDE DEF q
  <2> QED BY <2>2, <2>3, GoesIdle
<1> QED BY <1>1, <1>2

(* A check that compares the count it reads with the limit.                *)
LEMMA CheckKeepsLimit ==
  ASSUME TypeOK, TypeOK', LimitInv, NEW r \in Request, RunPipeline(r) \/ FinishPipeline(r)
  PROVE  LimitInv'
<1>1. PICK before \in [Age -> Nat] :
         /\ \A a \in Recent : before[a] = entries[a]
         /\ \/ /\ Admit(r) /\ entries' = With(before, r)
               /\ r \in Pending \/ Total(before, Recent) < Limit
            \/ Refuse(r, TRUE) /\ entries' = before
  <2>1. CASE RunPipeline(r)
    <3>1. Kept(r) \in [Age -> Nat] /\ \A a \in Recent : Kept(r)[a] = entries[a]
      BY RecentStay
    <3>2. HasRoom(r) => Total(Kept(r), Recent) < Limit
      <4>1. Total(Kept(r), Recent) <= Total(Kept(r), Age)
        <5>1. \A a \in Recent : Kept(r)[a] <= Kept(r)[a]
          BY <3>1, RecentStay
        <5> QED BY <3>1, <5>1, AgesCounted, TotalMore
      <4>2. Cardinality(Members) \in Nat
        <5>1. Members \in SUBSET Request
          BY DEF Members
        <5> QED BY <5>1, SlidingWindowAssumption, FS_Subset, FS_CardinalityType
      <4>3. Total(Kept(r), Recent) \in Nat /\ Total(Kept(r), Age) \in Nat
        BY <3>1, AgesCounted, EachFinite
      <4> QED BY <4>1, <4>2, <4>3, SlidingWindowAssumption DEF HasRoom, Held
    <3> QED BY <2>1, <3>1, <3>2 DEF RunPipeline, Decide
  <2>2. CASE FinishPipeline(r)
    <3>1. entries \in [Age -> Nat]
      BY DEF TypeOK
    <3>2. requests[r].room => r \in Pending
      BY <2>2 DEF FinishPipeline, Pending
    <3> QED BY <2>2, <3>1, <3>2 DEF FinishPipeline, Decide
  <2> QED BY <2>1, <2>2
<1>2. faults' = faults /\ ttl' >= Window
  BY RecentStay DEF RunPipeline, FinishPipeline
<1>3. CASE Refuse(r, TRUE) /\ entries' = before
  <2>1. \A a \in Recent : entries[a] <= entries'[a]
    BY <1>1, <1>3, RecentStay
  <2> QED BY <1>2, <1>3, <2>1, AdmitOrRefuse, Unpaid
<1>4. CASE /\ Admit(r) /\ entries' = With(before, r)
           /\ r \in Pending \/ Total(before, Recent) < Limit
  <2>1. /\ admitted' = With(admitted, r) /\ r \notin Pending'
        /\ \A s \in Request : s # r => requests'[s] = requests[s]
    BY <1>4, AdmitOrRefuse
  <2>2. Owed' <= Owed /\ (r \in Pending => Owed' + 1 <= Owed)
    BY <2>1, OwedChanges
  <2> QED BY <1>1, <1>2, <1>4, <2>1, <2>2, Listed
<1> QED BY <1>1, <1>3, <1>4

(* Time passes: every admission and every entry is a tick older, and the   *)
(* key may expire.                                                         *)
LEMMA TickKeepsLimit ==
  ASSUME TypeOK, TypeOK', LimitInv, Tick
  PROVE  LimitInv'
<1>1. /\ admitted \in [Age -> Nat] /\ entries \in [Age -> Nat] /\ faults \in Nat /\ Owed \in Nat
      /\ admitted' \in [Age -> Nat] /\ entries' \in [Age -> Nat] /\ ttl \in Nat
  BY OwedTyped, SlidingWindowAssumption DEF TypeOK
<1>2. Owed' = Owed /\ faults' = faults
  <2>1. ASSUME NEW r \in Request PROVE r \in Pending' <=> r \in Pending
    <3>1. requests[r] \in RequestState
      BY DEF TypeOK
    <3>2. requests'[r] = IF At(r, "idle") THEN Idle ELSE Later(requests[r])
      BY DEF Tick
    <3>3. CASE At(r, "idle")
      BY <3>2, <3>3 DEF Pending, At, Idle
    <3>4. CASE ~At(r, "idle")
      <4>1. requests'[r].step = requests[r].step /\ requests'[r].room = requests[r].room
        BY <3>2, <3>4 DEF Later
      <4> QED BY <4>1 DEF Pending, At
    <3> QED BY <3>3, <3>4
  <2>2. Pending' = Pending
    <3>1. Pending' \subseteq Request /\ Pending \subseteq Request
      BY DEF Pending
    <3> QED BY <2>1, <3>1
  <2> QED BY <2>2 DEF Owed, Tick
<1>3. ASSUME NEW a \in Recent
      PROVE  /\ a \in Age /\ a \in Nat
             /\ admitted'[a] = IF a = 0 THEN 0 ELSE admitted[a - 1]
             /\ ttl # 1 => entries'[a] = IF a = 0 THEN 0 ELSE entries[a - 1]
  <2>1. a \in Age /\ a \in Nat /\ a # OldestAge
    BY AgesCounted, SlidingWindowAssumption DEF Recent, OldestAge
  <2>2. Older(admitted) \in [Age -> Nat]
    BY <1>1, OlderTyped
  <2>3. admitted'[a] = Older(admitted)[a]
    BY <2>1, <2>2 DEF Tick
  <2> QED BY <2>1, <2>3 DEF Tick, Older
<1>4. ASSUME NEW S \in SUBSET Recent
      PROVE  /\ Total(admitted', S) = Total(admitted, {a \in Age : a + 1 \in S})
             /\ ttl # 1 => Total(entries', S) = Total(entries, {a \in Age : a + 1 \in S})
  <2>1. S \in SUBSET Age
    BY AgesCounted
  <2>2. Total(admitted', S) = Total(admitted, {a \in Age : a + 1 \in S})
    <3>1. \A a \in S : admitted'[a] = IF a = 0 THEN 0 ELSE admitted[a - 1]
      BY <1>3
    <3> QED BY <1>1, <2>1, <3>1, TotalOlder
  <2>3. ASSUME ttl # 1
        PROVE  Total(entries', S) = Total(entries, {a \in Age : a + 1 \in S})
    <3>1. \A a \in S : entries'[a] = IF a = 0 THEN 0 ELSE entries[a - 1]
      BY <1>3, <2>3
    <3> QED BY <1>1, <2>1, <3>1, TotalOlder
  <2> QED BY <2>2, <2>3
<1>5. ASSUME NEW S \in SUBSET Age, NEW T \in SUBSET Age, S \subseteq T
      PROVE  /\ Total(admitted, S) <= Total(admitted, T)
             /\ Total(admitted, S) \in Nat /\ Total(admitted, T) \in Nat
  <2>1. \A a \in S : admitted[a] \in Nat /\ admitted[a] <= admitted[a]
    BY <1>1
  <2> QED BY <1>1, <1>5, <2>1, TotalMore, EachFinite
<1>6. AdmissionsListed'
  <2> SUFFICES ASSUME NEW S \in SUBSET Recent
               PROVE  Total(admitted', S) + Owed <= Total(entries', S) + faults
    BY <1>2 DEF AdmissionsListed, Recent
  <2> DEFINE T == {a \in Age : a + 1 \in S}
  <2>1. T \in SUBSET Recent /\ \A a \in T : a + 1 < Window
    <3>1. \A a \in T : a \in Nat /\ a + 1 \in Nat /\ a + 1 < Window
      BY AgesAre, SlidingWindowAssumption DEF Recent
    <3> QED BY <3>1, SlidingWindowAssumption DEF Recent
  <2>2. Total(admitted', S) = Total(admitted, T)
    BY <1>4
  <2>3. CASE ttl # 1
    <3>1. Total(entries', S) = Total(entries, T)
      BY <1>4, <2>3
    <3>2. Total(admitted, T) + Owed <= Total(entries, T) + faults
      BY <2>1 DEF LimitInv, AdmissionsListed
    <3> QED BY <2>2, <3>1, <3>2
  <2>4. CASE ttl = 1
    <3>1. T \subseteq Forgotten
      BY <2>1, <2>4 DEF Forgotten
    <3>2. Total(admitted, T) <= Total(admitted, Forgotten)
          /\ Total(admitted, T) \in Nat /\ Total(admitted, Forgotten) \in Nat
      BY <1>5, <3>1, AgesCounted
    <3>3. Total(admitted, Forgotten) + Owed <= faults
      BY <2>4 DEF LimitInv, ExpiryTakesFaults
    <3>4. PICK e \in Nat : e = Total(entries', S)
      BY <1>1, EachFinite, AgesCounted
    <3>5. Total(admitted, T) + Owed <= e + faults
      <4> HIDE DEF T
      <4> QED BY <1>1, <3>2, <3>3, <3>4
    <3> QED BY <2>2, <3>4, <3>5
  <2> QED BY <2>3, <2>4
<1>7. ExpiryTakesFaults'
  <2> SUFFICES ASSUME ttl' # 0
               PROVE  Total(admitted', Forgotten') + Owed <= faults
    BY <1>2 DEF ExpiryTakesFaults
  <2>1. ttl' = ttl - 1 /\ ttl # 0
    BY DEF Tick
  <2>2. Forgotten' = {a \in Recent : a + (ttl - 1) < Window}
    BY <2>1 DEF Forgotten, Recent
  <2> DEFINE X == {a \in Recent : a + (ttl - 1) < Window}
             T == {a \in Age : a + 1 \in X}
  <2>3. T \subseteq Forgotten
    <3>1. \A a \in T : a \in Nat /\ a + 1 < Window /\ (a + 1) + (ttl - 1) < Window
      BY AgesAre, SlidingWindowAssumption DEF Recent
    <3>2. \A a \in T : a \in Recent /\ a + ttl < Window
      BY <1>1, <3>1, SlidingWindowAssumption DEF Recent
    <3> QED BY <3>2 DEF Forgotten
  <2>4. Total(admitted', X) = Total(admitted, T)
    BY <1>4
  <2> HIDE DEF T
  <2>5. Total(admitted, T) <= Total(admitted, Forgotten)
        /\ Total(admitted, T) \in Nat /\ Total(admitted, Forgotten) \in Nat
    <3>1. T \in SUBSET Age /\ Forgotten \in SUBSET Age
      BY <2>3, AgesCounted
    <3> QED BY <1>5, <2>3, <3>1
  <2>6. Total(admitted, Forgotten) + Owed <= faults
    BY <2>1 DEF LimitInv, ExpiryTakesFaults
  <2>7. Total(admitted, T) + Owed <= faults
    BY <1>1, <2>5, <2>6
  <2> QED BY <2>2, <2>4, <2>7
<1>8. LimitWithOwed'
  <2> SUFFICES ASSUME NEW late \in 0 .. MaxDelay
               PROVE  Total(admitted', Interval(late)) + Owed <= Limit + faults
    BY <1>2 DEF LimitWithOwed, Interval
  <2> DEFINE T == {a \in Age : a + 1 \in Interval(late)}
  <2>1. PICK before \in 0 .. MaxDelay : T \subseteq Interval(before)
    <3>1. \A a \in T : a \in Nat /\ late <= a + 1 /\ a + 1 <= late + Window - MaxDelay - 1
      BY AgesAre, SlidingWindowAssumption DEF Interval
    <3>2. CASE late = 0
      BY <3>1, <3>2, SlidingWindowAssumption DEF Interval
    <3>3. CASE late # 0
      <4>1. late - 1 \in 0 .. MaxDelay
        BY <3>3, SlidingWindowAssumption
      <4>2. T \subseteq Interval(late - 1)
        BY <3>1, <3>3, SlidingWindowAssumption DEF Interval
      <4> QED BY <4>1, <4>2
    <3> QED BY <3>2, <3>3
  <2>2. Total(admitted', Interval(late)) = Total(admitted, T)
    BY <1>4, AgesCounted
  <2> HIDE DEF T
  <2>3. Total(admitted, T) <= Total(admitted, Interval(before))
        /\ Total(admitted, T) \in Nat /\ Total(admitted, Interval(before)) \in Nat
    <3>1. T \in SUBSET Age /\ Interval(before) \in SUBSET Age
      BY <2>1, AgesCounted
    <3> QED BY <1>5, <2>1, <3>1
  <2>4. Total(admitted, Interval(before)) + Owed <= Limit + faults
    BY DEF LimitInv, LimitWithOwed
  <2>5. Total(admitted, T) + Owed <= Limit + faults
    BY <1>1, <2>3, <2>4, SlidingWindowAssumption
  <2> QED BY <2>2, <2>5
<1> QED BY <1>6, <1>7, <1>8 DEF LimitInv

(* Every step keeps the limit.                                             *)
LEMMA StepKeepsLimit ==
  ASSUME TypeOK, TypeOK', LimitInv, [Next]_vars
  PROVE  LimitInv'
<1>1. ASSUME NEW r \in Request, Ask(r) PROVE LimitInv'
  <2>1. r \notin Pending' /\ \A s \in Request : s # r => requests'[s] = requests[s]
    BY <1>1, GoesIdle DEF Ask, Idle
  <2>2. \A a \in Recent : entries[a] <= entries'[a]
    BY <1>1, RecentStay DEF Ask
  <2> QED BY <1>1, <2>1, <2>2, Unpaid DEF Ask
<1>2. ASSUME NEW r \in Request, RunPipeline(r) \/ FinishPipeline(r) PROVE LimitInv'
  BY <1>2, CheckKeepsLimit
<1>3. ASSUME NEW r \in Request, Remove(r) PROVE LimitInv'
  <2>1. r \notin Pending' /\ \A s \in Request : s # r => requests'[s] = requests[s]
    BY <1>3, GoesIdle DEF Remove, Idle
  <2>2. \A a \in Recent : entries[a] <= entries'[a]
    BY <1>3, RecentStay DEF Remove
  <2>3. ttl' = ttl \/ ttl' = 0
    BY <1>3 DEF Remove, TtlOf
  <2> QED BY <1>3, <2>1, <2>2, <2>3, Unpaid DEF Remove
<1>4. ASSUME NEW r \in Request, SplitPipeline(r) PROVE LimitInv'
  <2>1. \A s \in Request : s # r => requests'[s] = requests[s]
    BY <1>4 DEF SplitPipeline, Go, TypeOK
  <2>2. \A a \in Recent : entries[a] <= entries'[a]
    BY <1>4, RecentStay DEF SplitPipeline
  <2>3. ttl' = ttl \/ ttl' = 0
    BY <1>4 DEF SplitPipeline, TtlOf
  <2> QED BY <1>4, <2>1, <2>2, <2>3, Paid DEF SplitPipeline
<1>5. ASSUME NEW r \in Request, RefuseZadd(r) PROVE LimitInv'
  <2>1. /\ \A s \in Request : s # r => requests'[s] = requests[s]
        /\ r \notin Pending' /\ (admitted' = admitted \/ admitted' = With(admitted, r))
    BY <1>5, AdmitOrRefuse DEF RefuseZadd
  <2>2. \A a \in Recent : entries[a] <= entries'[a]
    BY <1>5, RecentStay DEF RefuseZadd
  <2>3. ttl' = 0 \/ ttl' >= Window
    BY <1>5, RecentStay DEF RefuseZadd
  <2> QED BY <1>5, <2>1, <2>2, <2>3, Paid DEF RefuseZadd
<1>6. ASSUME NEW r \in Request, LosePipeline(r) PROVE LimitInv'
  <2>1. /\ \A s \in Request : s # r => requests'[s] = requests[s]
        /\ r \notin Pending' /\ admitted' = With(admitted, r)
    BY <1>6, AdmitOrRefuse DEF LosePipeline
  <2>2. \A a \in Recent : entries[a] <= entries'[a]
    BY <1>6, RecentStay DEF LosePipeline
  <2>3. ttl' = ttl \/ ttl' = 0 \/ ttl' >= Window
    BY <1>6, RecentStay DEF LosePipeline, TtlOf
  <2> QED BY <1>6, <2>1, <2>2, <2>3, Paid DEF LosePipeline
<1>7. ASSUME NEW r \in Request, LoseRemoval(r) PROVE LimitInv'
  <2>1. /\ \A s \in Request : s # r => requests'[s] = requests[s]
        /\ r \notin Pending' /\ admitted' = With(admitted, r)
    BY <1>7, AdmitOrRefuse DEF LoseRemoval
  <2>2. \A a \in Recent : entries[a] <= entries'[a]
    BY <1>7, RecentStay DEF LoseRemoval
  <2>3. ttl' = ttl \/ ttl' = 0
    BY <1>7 DEF LoseRemoval, TtlOf
  <2> QED BY <1>7, <2>1, <2>2, <2>3, Paid DEF LoseRemoval
<1>8. ASSUME NEW r \in Request, Crash(r) PROVE LimitInv'
  <2>1. \A s \in Request : s # r => requests'[s] = requests[s]
    BY <1>8, GoesIdle DEF Crash, Idle
  <2>2. \A a \in Recent : entries[a] <= entries'[a]
    BY <1>8, RecentStay DEF Crash
  <2>3. ttl' = ttl \/ ttl' >= Window
    BY <1>8, RecentStay DEF Crash
  <2> QED BY <1>8, <2>1, <2>2, <2>3, Paid DEF Crash
<1>9. CASE Tick
  BY <1>9, TickKeepsLimit
<1>10. CASE UNCHANGED vars
  BY <1>10 DEF vars, LimitInv, AdmissionsListed, ExpiryTakesFaults, LimitWithOwed, Forgotten,
               Owed, Pending, At
<1> QED
  BY <1>1, <1>2, <1>3, <1>4, <1>5, <1>6, <1>7, <1>8, <1>9, <1>10 DEF Next, Proceed, Break

(* Whatever is split, lost, expired or crashed, the limiter lets through   *)
(* no more than the limit in an interval, and one more for each fault: for *)
(* any number of requests, limit, window and delay shorter than it.        *)
THEOREM LimitHoldsInEveryInterval == Spec => []LimitHolds
<1>1. Init => LimitInv
  <2> SUFFICES ASSUME Init PROVE LimitInv
    OBVIOUS
  <2>1. /\ TypeOK /\ admitted = entries /\ faults = 0 /\ ttl = 0
        /\ \A a \in Age : admitted[a] = 0
    BY SlidingWindowAssumption DEF Init, TypeOK, RequestState, Idle
  <2>2. Owed = 0
    <3>1. Pending = {}
      BY DEF Init, Pending, At, Idle
    <3> QED BY <3>1, FS_EmptySet DEF Owed
  <2>3. ASSUME NEW S \in SUBSET Recent PROVE Total(admitted, S) = 0
    <3>1. Each(admitted, S) = {}
      <4>1. S \in SUBSET Age /\ admitted \in [Age -> Nat]
        BY <2>1, AgesCounted DEF TypeOK
      <4>2. \A a \in S, i \in Nat : i \notin 1 .. admitted[a]
        BY <2>1, <4>1
      <4>3. ASSUME NEW e \in Each(admitted, S) PROVE FALSE
        BY <4>1, <4>2, InEach
      <4> QED BY <4>3
    <3> QED BY <3>1, FS_EmptySet DEF Total
  <2>4. AdmissionsListed /\ ExpiryTakesFaults
    BY <2>1, <2>2, <2>3 DEF AdmissionsListed, ExpiryTakesFaults
  <2>5. LimitWithOwed
    BY <2>1, <2>2, <2>3, AgesCounted, SlidingWindowAssumption DEF LimitWithOwed
  <2> QED BY <2>4, <2>5 DEF LimitInv
<1>2. TypeOK /\ TypeOK' /\ LimitInv /\ [Next]_vars => LimitInv'
  BY StepKeepsLimit
<1>3. TypeOK /\ LimitInv => LimitHolds
  <2> SUFFICES ASSUME TypeOK, LimitInv, NEW late \in 0 .. MaxDelay
               PROVE  Total(admitted, Interval(late)) <= Limit + faults
    BY DEF LimitHolds, Interval
  <2>1. Total(admitted, Interval(late)) + Owed <= Limit + faults
    BY DEF LimitInv, LimitWithOwed
  <2>2. Total(admitted, Interval(late)) \in Nat /\ Owed \in Nat /\ faults \in Nat
    BY CountsTyped, AgesCounted
  <2> QED BY <2>1, <2>2, SlidingWindowAssumption
<1> QED
  BY <1>1, <1>2, <1>3, TypeCorrect, PTL DEF Spec

=============================================================================
