---------------------- MODULE NotificationDeliveryProofs ----------------------
(***************************************************************************)
(* Logs, claims and duplicates of NotificationDelivery, for any number of  *)
(* notifications, channels, attempts and stalls.                           *)
(***************************************************************************)
EXTENDS NotificationDelivery, FiniteSetTheorems, TLAPS

(* The channels a creation has not begun to serve.                         *)
Ahead(c) ==
  CASE creations[c].step \in {"new", "creating"} -> Channel
    [] creations[c].step = "channel" -> creations[c].todo
    [] creations[c].step \in {"logging", "queueing"} -> creations[c].todo \ {creations[c].channel}
    [] OTHER -> {}

(* Nothing was written for these channels, and the current one has no job  *)
(* before it is added.                                                     *)
NothingAhead ==
  \A c \in Creation :
    /\ \A ch \in Ahead(c) :
         /\ rows[<<c, ch>>] = "unused"
         /\ ch \in External => jobs[<<c, ch>>].state = "none"
    /\ creations[c].step \in {"logging", "queueing"} =>
         /\ rows[Current(c)] # "unused"
         /\ creations[c].channel \in External => jobs[Current(c)].state = "none"
    /\ Creating(c, "queueing") => creations[c].channel \in External

(* Every start of a job but the present one ended in a failure or a stall. *)
StartsCounted ==
  \A j \in Job :
    /\ jobs[j].state = "none" => jobs[j].starts = 0
    /\ jobs[j].state \in {"waiting", "active"} =>
         jobs[j].failures < Attempts /\ jobs[j].stalls <= MaxStalls
    /\ jobs[j].state \in {"active", "completed"} =>
         jobs[j].starts = jobs[j].failures + jobs[j].stalls + 1
    /\ jobs[j].state \notin {"active", "completed"} =>
         jobs[j].starts = jobs[j].failures + jobs[j].stalls

(* Types and the counting of starts, on which the rest depends.            *)
Bookkeeping == TypeOK /\ NothingAhead /\ StartsCounted

-----------------------------------------------------------------------------
(* The creation's steps.                                                   *)

(* A job belongs to a delivery.                                            *)
LEMMA JobIsDelivery == Job \subseteq Delivery
  BY DEF Job, Delivery, Channel

(* What the type invariant says of one creation.                           *)
LEMMA CreationTyped ==
  ASSUME TypeOK, NEW c \in Creation
  PROVE  /\ creations[c] \in CreationState
         /\ creations[c].channel \in Channel
         /\ creations[c].todo \subseteq Channel
         /\ creations[c].successes \subseteq Channel
         /\ Current(c) \in Delivery
         /\ creations[c].channel \in External => Current(c) \in Job
  BY DEF TypeOK, CreationState, Current, Delivery, Job

(* A step of a creation that leaves rows and jobs alone and does not go    *)
(* back.                                                                   *)
LEMMA QuietCreation ==
  ASSUME Bookkeeping, NEW c \in Creation, NEW q \in CreationState,
         creations' = [creations EXCEPT ![c] = q],
         UNCHANGED <<rows, jobs, tries, sent>>,
         parents' \in [Creation -> ParentRow \cup {NoRow}],
         logs' \in [Delivery -> [Author -> LogStatus \cup {NoLog}]],
         Ahead(c)' \subseteq Ahead(c),
         q.step \in {"logging", "queueing"} =>
           /\ creations[c].step \in {"logging", "queueing"}
           /\ q.channel = creations[c].channel,
         q.step = "queueing" => q.channel \in External
  PROVE  Bookkeeping'
<1>1. /\ creations' \in [Creation -> CreationState]
      /\ creations'[c] = q
      /\ \A d \in Creation : d # c => creations'[d] = creations[d]
  BY DEF Bookkeeping, TypeOK
<1>2. TypeOK'
  BY <1>1 DEF Bookkeeping, TypeOK
<1>3. \A d \in Creation : d # c => Ahead(d)' = Ahead(d)
  BY <1>1 DEF Ahead
<1>4. NothingAhead'
  <2> SUFFICES ASSUME NEW d \in Creation
               PROVE  /\ \A ch \in Ahead(d)' :
                           /\ rows[<<d, ch>>] = "unused"
                           /\ ch \in External => jobs[<<d, ch>>].state = "none"
                      /\ creations'[d].step \in {"logging", "queueing"} =>
                           /\ rows[Current(d)'] # "unused"
                           /\ creations'[d].channel \in External => jobs[Current(d)'].state = "none"
                      /\ creations'[d].step = "queueing" => creations'[d].channel \in External
    BY DEF NothingAhead, Creating, Current
  <2>1. CASE d = c
    BY <1>1, <2>1 DEF Bookkeeping, NothingAhead, Current
  <2>2. CASE d # c
    BY <1>1, <1>3, <2>2 DEF Bookkeeping, NothingAhead, Creating, Current
  <2> QED BY <2>1, <2>2
<1> QED BY <1>2, <1>4 DEF Bookkeeping, StartsCounted

(* Going on with the loop drops the channel and begins no other.           *)
LEMMA NextChannelQuiet ==
  ASSUME Bookkeeping, NEW c \in Creation, NEW ch \in Channel, NEW success \in BOOLEAN,
         NextChannel(c, ch, success),
         creations[c].step = "channel" \/
           (creations[c].step \in {"logging", "queueing"} /\ ch = creations[c].channel)
  PROVE  /\ \E q \in CreationState :
              /\ creations' = [creations EXCEPT ![c] = q]
              /\ q.step = "channel"
              /\ q.successes = IF success THEN creations[c].successes \cup {ch}
                                          ELSE creations[c].successes
         /\ Ahead(c)' \subseteq Ahead(c)
         /\ ch \notin Ahead(c)'
<1> DEFINE q == [creations[c] EXCEPT !.step = "channel", !.todo = @ \ {ch},
                                     !.successes = IF success THEN @ \cup {ch} ELSE @]
<1>1. creations[c] \in CreationState
  BY CreationTyped DEF Bookkeeping
<1>2. /\ q \in CreationState /\ q.step = "channel" /\ q.todo = creations[c].todo \ {ch}
      /\ q.successes = IF success THEN creations[c].successes \cup {ch}
                                  ELSE creations[c].successes
  BY <1>1 DEF CreationState
<1>3. creations' = [creations EXCEPT ![c] = q]
  BY <1>1 DEF NextChannel, Bookkeeping, TypeOK, CreationState
<1>4. creations'[c] = q
  BY <1>3 DEF Bookkeeping, TypeOK
<1> HIDE DEF q
<1>5. Ahead(c)' = creations[c].todo \ {ch}
  BY <1>2, <1>4 DEF Ahead
<1>6. Ahead(c)' \subseteq Ahead(c) /\ ch \notin Ahead(c)'
  BY <1>5 DEF Ahead
<1> QED BY <1>2, <1>3, <1>6

(* Goto changes the step of a creation and nothing else.                   *)
LEMMA GotoQuiet ==
  ASSUME Bookkeeping, NEW c \in Creation,
         NEW step \in {"new", "creating", "channel", "logging", "queueing", "returned"},
         Goto(c, step)
  PROVE  \E q \in CreationState :
           /\ creations' = [creations EXCEPT ![c] = q]
           /\ creations'[c] = q
           /\ q.step = step /\ q.todo = creations[c].todo
           /\ q.channel = creations[c].channel /\ q.successes = creations[c].successes
<1> DEFINE q == [creations[c] EXCEPT !.step = step]
<1>1. creations[c] \in CreationState
  BY CreationTyped DEF Bookkeeping
<1>2. /\ q \in CreationState /\ q.step = step /\ q.todo = creations[c].todo
      /\ q.channel = creations[c].channel /\ q.successes = creations[c].successes
  BY <1>1 DEF CreationState
<1>3. creations' = [creations EXCEPT ![c] = q] /\ creations'[c] = q
  BY DEF Goto, Bookkeeping, TypeOK
<1> QED BY <1>2, <1>3

-----------------------------------------------------------------------------
(* The bookkeeping is inductive.                                           *)

(* Every step of NotificationService.create keeps it.                      *)
LEMMA CreateKeepsBookkeeping ==
  ASSUME Bookkeeping, NEW c \in Creation, Create(c)
  PROVE  Bookkeeping'
<1> USE CreationTyped DEF Bookkeeping
<1>1. ASSUME NEW enabled \in SUBSET Channel, ReadPreferences(c, enabled)
      PROVE  Bookkeeping'
  <2> DEFINE q == [creations[c] EXCEPT !.step = "creating", !.todo = enabled]
  <2>1. creations[c] \in CreationState
    OBVIOUS
  <2>2. q \in CreationState /\ q.step = "creating"
    BY <2>1 DEF CreationState
  <2>3. creations' = [creations EXCEPT ![c] = q] /\ creations'[c] = q
    BY <1>1, <2>1 DEF ReadPreferences, TypeOK, CreationState
  <2> HIDE DEF q
  <2>4. Ahead(c)' \subseteq Ahead(c)
    BY <1>1, <2>2, <2>3 DEF Ahead, ReadPreferences, Creating
  <2> QED BY <1>1, <2>2, <2>3, <2>4, QuietCreation DEF ReadPreferences, TypeOK
<1>2. CASE CreateParent(c)
  <2>1. PICK q \in CreationState :
          /\ creations' = [creations EXCEPT ![c] = q] /\ creations'[c] = q
          /\ q.step = "channel" /\ q.todo = creations[c].todo
    BY <1>2, GotoQuiet DEF CreateParent
  <2>2. Ahead(c)' \subseteq Ahead(c)
    BY <1>2, <2>1 DEF Ahead, CreateParent, Creating
  <2>3. parents' \in [Creation -> ParentRow \cup {NoRow}]
    BY <1>2 DEF CreateParent, TypeOK, ParentRow
  <2> QED BY <1>2, <2>1, <2>2, <2>3, QuietCreation DEF CreateParent, TypeOK
<1>3. ASSUME NEW ch \in Channel, CreateRow(c, ch)
      PROVE  Bookkeeping'
  <2>1. /\ <<c, ch>> \in Delivery
        /\ rows' = [rows EXCEPT ![<<c, ch>>] = "exists"]
        /\ creations' = [creations EXCEPT ![c].step = "logging", ![c].channel = ch]
        /\ ch \in creations[c].todo /\ creations[c].step = "channel"
        /\ UNCHANGED <<parents, logs, jobs, tries, sent>>
    BY <1>3 DEF CreateRow, Turn, Creating, Delivery
  <2>2. /\ creations'[c] = [creations[c] EXCEPT !.step = "logging", !.channel = ch]
        /\ \A d \in Creation : d # c => creations'[d] = creations[d]
    BY <2>1 DEF TypeOK
  <2>3. TypeOK'
    <3>1. rows' \in [Delivery -> {"unused", "exists", "gone"}]
      BY <2>1 DEF TypeOK
    <3>2. creations[c] \in CreationState
      OBVIOUS
    <3>3. creations'[c] \in CreationState
      BY <2>2, <3>2 DEF CreationState
    <3>4. creations' \in [Creation -> CreationState]
      BY <2>1, <2>2, <3>3 DEF TypeOK
    <3> QED BY <2>1, <3>1, <3>4 DEF TypeOK
  <2>4. /\ creations'[c].step = "logging" /\ creations'[c].channel = ch
        /\ creations'[c].todo = creations[c].todo
    BY <2>2 DEF CreationState
  <2>5. /\ Ahead(c) = creations[c].todo
        /\ Ahead(c)' = creations[c].todo \ {ch}
        /\ \A d \in Creation : d # c => Ahead(d)' = Ahead(d)
    BY <2>1, <2>2, <2>4 DEF Ahead
  <2>6. /\ rows'[<<c, ch>>] = "exists"
        /\ \A e \in Delivery : e # <<c, ch>> => rows'[e] = rows[e]
    BY <2>1 DEF TypeOK
  <2>7. NothingAhead'
    <3> SUFFICES ASSUME NEW d \in Creation
                 PROVE  /\ \A x \in Ahead(d)' :
                             /\ rows'[<<d, x>>] = "unused"
                             /\ x \in External => jobs[<<d, x>>].state = "none"
                        /\ creations'[d].step \in {"logging", "queueing"} =>
                             /\ rows'[Current(d)'] # "unused"
                             /\ creations'[d].channel \in External =>
                                  jobs[Current(d)'].state = "none"
                        /\ creations'[d].step = "queueing" => creations'[d].channel \in External
      BY <2>1 DEF NothingAhead, Creating, Current
    <3>1. CASE d = c
      <4>1. \A x \in Ahead(c)' : <<c, x>> \in Delivery /\ <<c, x>> # <<c, ch>>
        BY <2>5 DEF Delivery
      <4>2. Current(c)' = <<c, ch>>
        BY <2>4 DEF Current
      <4> QED BY <3>1, <4>1, <4>2, <2>1, <2>4, <2>5, <2>6 DEF NothingAhead
    <3>2. CASE d # c
      <4>1. \A x \in Ahead(d) : <<d, x>> \in Delivery
        BY <2>1 DEF Ahead, Delivery, TypeOK, CreationState
      <4>2. Current(d)' = Current(d) /\ Current(d) \in Delivery /\ Current(d) # <<c, ch>>
        BY <3>2, <2>2 DEF Current
      <4> QED BY <3>2, <4>1, <4>2, <2>2, <2>5, <2>6 DEF NothingAhead, Creating
    <3> QED BY <3>1, <3>2
  <2> QED BY <2>1, <2>3, <2>7 DEF StartsCounted
<1>4. ASSUME NEW ch \in Channel, SkipChannel(c, ch)
      PROVE  Bookkeeping'
  <2>1. NextChannel(c, ch, FALSE) /\ creations[c].step = "channel"
    BY <1>4 DEF SkipChannel, Creating
  <2>2. PICK q \in CreationState :
          creations' = [creations EXCEPT ![c] = q] /\ q.step = "channel"
    BY <2>1, NextChannelQuiet
  <2>3. Ahead(c)' \subseteq Ahead(c)
    BY <2>1, NextChannelQuiet
  <2> QED BY <1>4, <2>2, <2>3, QuietCreation DEF SkipChannel, TypeOK
<1>5. CASE LogInApp(c)
  <2>1. /\ NextChannel(c, InApp, TRUE) /\ InApp = creations[c].channel
        /\ creations[c].step = "logging" /\ InApp \in Channel
    BY <1>5 DEF LogInApp, Creating, Channel
  <2>2. PICK q \in CreationState :
          creations' = [creations EXCEPT ![c] = q] /\ q.step = "channel"
    BY <2>1, NextChannelQuiet
  <2>3. Ahead(c)' \subseteq Ahead(c)
    BY <2>1, NextChannelQuiet
  <2>4. logs' \in [Delivery -> [Author -> LogStatus \cup {NoLog}]]
    BY <1>5 DEF LogInApp, TypeOK, LogStatus
  <2> QED BY <1>5, <2>2, <2>3, <2>4, QuietCreation DEF LogInApp, TypeOK
<1>6. CASE LogQueued(c)
  <2>1. PICK q \in CreationState :
          /\ creations' = [creations EXCEPT ![c] = q] /\ creations'[c] = q
          /\ q.step = "queueing" /\ q.todo = creations[c].todo
          /\ q.channel = creations[c].channel
    BY <1>6, GotoQuiet DEF LogQueued
  <2>2. Ahead(c)' \subseteq Ahead(c)
    BY <1>6, <2>1 DEF Ahead, LogQueued, Creating
  <2>3. logs' \in [Delivery -> [Author -> LogStatus \cup {NoLog}]]
    BY <1>6 DEF LogQueued, TypeOK, LogStatus
  <2> QED BY <1>6, <2>1, <2>2, <2>3, QuietCreation DEF LogQueued, Creating, TypeOK
<1>7. CASE AddJob(c)
  <2> DEFINE j == Current(c)
  <2>1. /\ creations[c].step = "queueing" /\ creations[c].channel \in External
        /\ j \in Job /\ jobs[j].state = "none" /\ creations[c].channel \in Channel
        /\ jobs' = [jobs EXCEPT ![j].state = "waiting"]
        /\ UNCHANGED <<parents, rows, logs, tries, sent>>
    BY <1>7 DEF AddJob, Creating, NothingAhead
  <2>2. PICK answered \in BOOLEAN : NextChannel(c, creations[c].channel, answered)
    BY <1>7 DEF AddJob
  <2>3. PICK q \in CreationState :
          /\ creations' = [creations EXCEPT ![c] = q]
          /\ q.step = "channel"
          /\ q.successes = IF answered THEN creations[c].successes \cup {creations[c].channel}
                                       ELSE creations[c].successes
    <3> HIDE DEF Bookkeeping
    <3> QED BY <2>1, <2>2, NextChannelQuiet
  <2>4. Ahead(c)' \subseteq Ahead(c) /\ creations[c].channel \notin Ahead(c)'
    BY <2>1, <2>2, NextChannelQuiet
  <2>5. jobs[j] \in JobState /\ jobs'[j] = [jobs[j] EXCEPT !.state = "waiting"]
    BY <2>1 DEF TypeOK
  <2>6. /\ jobs'[j] \in JobState /\ jobs'[j].state = "waiting"
        /\ jobs'[j].failures = jobs[j].failures /\ jobs'[j].stalls = jobs[j].stalls
        /\ jobs'[j].starts = jobs[j].starts
        /\ \A k \in Job : k # j => jobs'[k] = jobs[k]
    BY <2>1, <2>5 DEF JobState, TypeOK
  <2> HIDE DEF j
  <2>7. /\ creations' \in [Creation -> CreationState] /\ creations'[c] = q
        /\ \A d \in Creation : d # c => creations'[d] = creations[d]
    BY <2>3 DEF TypeOK
  <2>8. TypeOK'
    BY <2>1, <2>6, <2>7 DEF TypeOK
  <2>9. NothingAhead'
    <3> SUFFICES ASSUME NEW d \in Creation
                 PROVE  /\ \A x \in Ahead(d)' :
                             /\ rows[<<d, x>>] = "unused"
                             /\ x \in External => jobs'[<<d, x>>].state = "none"
                        /\ creations'[d].step \in {"logging", "queueing"} =>
                             /\ rows[Current(d)'] # "unused"
                             /\ creations'[d].channel \in External =>
                                  jobs'[Current(d)'].state = "none"
                        /\ creations'[d].step = "queueing" => creations'[d].channel \in External
      BY <2>1 DEF NothingAhead, Creating, Current
    <3>1. CASE d = c
      <4>1. \A x \in Ahead(c)' : x \in External => <<c, x>> \in Job /\ <<c, x>> # j
        BY <2>4 DEF j, Current, Job
      <4> QED BY <3>1, <4>1, <2>3, <2>4, <2>6, <2>7 DEF NothingAhead
    <3>2. CASE d # c
      <4>1. \A x \in External : <<d, x>> \in Job /\ <<d, x>> # j
        BY <3>2 DEF j, Current, Job
      <4>2. Ahead(d)' = Ahead(d) /\ Current(d)' = Current(d) /\ Current(d) # j
        BY <3>2, <2>7 DEF Ahead, Current, j
      <4>3. creations[d].channel \in External => Current(d) \in Job
        OBVIOUS
      <4> QED BY <3>2, <4>1, <4>2, <4>3, <2>6, <2>7 DEF NothingAhead, Creating
    <3> QED BY <3>1, <3>2
  <2>10. StartsCounted'
    <3>1. /\ jobs[j].failures \in Nat /\ jobs[j].stalls \in Nat
          /\ jobs[j].failures + jobs[j].stalls = 0 /\ jobs[j].starts = 0
      BY <2>1, <2>5 DEF StartsCounted, JobState
    <3>2. jobs[j].failures = 0 /\ jobs[j].stalls = 0
      BY <3>1
    <3> QED BY <3>1, <3>2, <2>6, NotificationDeliveryAssumption DEF StartsCounted
  <2> QED BY <2>8, <2>9, <2>10
<1>8. CASE FailChannel(c)
  <2>1. /\ NextChannel(c, creations[c].channel, FALSE) /\ creations[c].channel \in Channel
        /\ creations[c].step \in {"logging", "queueing"}
    BY <1>8 DEF FailChannel, Creating
  <2>2. PICK q \in CreationState :
          creations' = [creations EXCEPT ![c] = q] /\ q.step = "channel"
    BY <2>1, NextChannelQuiet
  <2>3. Ahead(c)' \subseteq Ahead(c)
    BY <2>1, NextChannelQuiet
  <2> QED BY <1>8, <2>2, <2>3, QuietCreation DEF FailChannel, TypeOK
<1>9. CASE UpdateParent(c)
  <2>1. PICK q \in CreationState :
          /\ creations' = [creations EXCEPT ![c] = q] /\ creations'[c] = q
          /\ q.step = "returned"
    BY <1>9, GotoQuiet DEF UpdateParent
  <2>2. Ahead(c)' \subseteq Ahead(c)
    BY <2>1 DEF Ahead
  <2>3. parents' \in [Creation -> ParentRow \cup {NoRow}]
    <3>1. [channelsSent |-> creations[c].successes] \in ParentRow
      BY DEF ParentRow
    <3> QED BY <1>9, <3>1 DEF UpdateParent, TypeOK
  <2> QED BY <1>9, <2>1, <2>2, <2>3, QuietCreation DEF UpdateParent, TypeOK
<1>10. CASE FailCreation(c)
  <2>1. PICK q \in CreationState :
          /\ creations' = [creations EXCEPT ![c] = q] /\ creations'[c] = q
          /\ q.step = "returned"
    BY <1>10, GotoQuiet DEF FailCreation
  <2>2. Ahead(c)' \subseteq Ahead(c)
    BY <2>1 DEF Ahead
  <2> QED BY <1>10, <2>1, <2>2, QuietCreation DEF FailCreation, TypeOK
<1> HIDE DEF Bookkeeping
<1> QED BY <1>1, <1>2, <1>3, <1>4, <1>5, <1>6, <1>7, <1>8, <1>9, <1>10 DEF Create

(* A step of a job that stays within its attempts and stalls, with whatever*)
(* its workers and its logs do meanwhile.                                  *)
LEMMA JobKeepsBookkeeping ==
  ASSUME Bookkeeping, NEW j \in Job, NEW r \in JobState,
         jobs' = [jobs EXCEPT ![j] = r],
         UNCHANGED <<parents, rows, creations>>,
         logs' \in [Delivery -> [Author -> LogStatus \cup {NoLog}]],
         tries' \in [Job -> [Try -> TryStep]],
         sent' \in [Job -> SUBSET Try],
         r.state = "none" => r.starts = 0,
         jobs[j].state = "none" => r.state = "none",
         r.state \in {"waiting", "active"} => r.failures < Attempts /\ r.stalls <= MaxStalls,
         r.starts = r.failures + r.stalls + (IF r.state \in {"active", "completed"} THEN 1 ELSE 0)
  PROVE  Bookkeeping'
<1>1. jobs' \in [Job -> JobState] /\ jobs'[j] = r /\ \A k \in Job : k # j => jobs'[k] = jobs[k]
  BY DEF Bookkeeping, TypeOK
<1>2. TypeOK'
  BY <1>1 DEF Bookkeeping, TypeOK
<1>3. \A k \in Job : jobs[k].state = "none" => jobs'[k].state = "none"
  BY <1>1
<1>4. NothingAhead'
  <2>1. \A c \in Creation, ch \in External : <<c, ch>> \in Job
    BY DEF Job
  <2>2. \A c \in Creation : /\ Ahead(c)' = Ahead(c) /\ Current(c)' = Current(c)
                            /\ creations[c].channel \in External => Current(c) \in Job
    BY CreationTyped DEF Ahead, Current, Bookkeeping
  <2> QED BY <1>3, <2>1, <2>2 DEF NothingAhead, Creating, Bookkeeping
<1>5. StartsCounted'
  <2>1. r.failures \in Nat /\ r.stalls \in Nat /\ r.starts \in Nat
    BY NotificationDeliveryAssumption DEF JobState
  <2> SUFFICES ASSUME NEW k \in Job
               PROVE  /\ jobs'[k].state = "none" => jobs'[k].starts = 0
                      /\ jobs'[k].state \in {"waiting", "active"} =>
                           jobs'[k].failures < Attempts /\ jobs'[k].stalls <= MaxStalls
                      /\ jobs'[k].state \in {"active", "completed"} =>
                           jobs'[k].starts = jobs'[k].failures + jobs'[k].stalls + 1
                      /\ jobs'[k].state \notin {"active", "completed"} =>
                           jobs'[k].starts = jobs'[k].failures + jobs'[k].stalls
    BY DEF StartsCounted
  <2>2. CASE k = j
    BY <1>1, <2>1, <2>2
  <2>3. CASE k # j
    BY <1>1, <2>3 DEF StartsCounted, Bookkeeping
  <2> QED BY <2>2, <2>3
<1> QED BY <1>2, <1>4, <1>5 DEF Bookkeeping

(* What the numbers of a job may be.                                       *)
LEMMA JobTyped ==
  ASSUME Bookkeeping, NEW j \in Job
  PROVE  /\ jobs[j] \in JobState
         /\ jobs[j].failures \in Nat /\ jobs[j].stalls \in Nat /\ jobs[j].starts \in Nat
         /\ Attempts \in Nat /\ MaxStalls \in Nat
         /\ jobs[j].failures <= Attempts /\ jobs[j].stalls <= MaxStalls + 1
         /\ jobs[j].state = "active" =>
              /\ jobs[j].starts = jobs[j].failures + jobs[j].stalls + 1
              /\ jobs[j].failures < Attempts /\ jobs[j].stalls <= MaxStalls
         /\ jobs[j].state = "waiting" =>
              /\ jobs[j].starts = jobs[j].failures + jobs[j].stalls
              /\ jobs[j].failures < Attempts /\ jobs[j].stalls <= MaxStalls
  BY NotificationDeliveryAssumption DEF Bookkeeping, TypeOK, StartsCounted, JobState

(* What BullMQ does with a job keeps it.                                   *)
LEMMA QueueKeepsBookkeeping ==
  ASSUME Bookkeeping, NEW j \in Job, NEW t \in Try,
         TakeJob(j) \/ Stall(j) \/ CompleteJob(j, t) \/ RetryJob(j, t)
  PROVE  Bookkeeping'
<1>1. CASE TakeJob(j)
  <2> DEFINE r == [jobs[j] EXCEPT !.state = "active", !.starts = @ + 1]
  <2>1. /\ r \in JobState /\ r.state = "active" /\ r.starts = jobs[j].starts + 1
        /\ r.failures = jobs[j].failures /\ r.stalls = jobs[j].stalls
    <3>1. jobs[j] \in JobState /\ jobs[j].starts + 1 \in 0 .. (Attempts + MaxStalls)
      BY <1>1, JobTyped DEF TakeJob
    <3> QED BY <3>1 DEF JobState
  <2>2. jobs' = [jobs EXCEPT ![j] = r]
    <3>1. jobs[j] \in JobState /\ jobs \in [Job -> JobState]
      BY DEF Bookkeeping, TypeOK
    <3> QED BY <1>1, <3>1 DEF TakeJob, JobState
  <2>3. /\ logs' \in [Delivery -> [Author -> LogStatus \cup {NoLog}]]
        /\ tries' \in [Job -> [Try -> TryStep]]
        /\ sent' \in [Job -> SUBSET Try]
        /\ UNCHANGED <<parents, rows, creations>>
    BY <1>1 DEF TakeJob, Advance, Bookkeeping, TypeOK, TryStep
  <2> HIDE DEF r
  <2>4. /\ jobs[j].state = "waiting"
        /\ r.failures < Attempts /\ r.stalls <= MaxStalls
        /\ r.starts = r.failures + r.stalls + 1
    BY <1>1, <2>1, JobTyped DEF TakeJob
  <2> QED BY <2>1, <2>2, <2>3, <2>4, JobKeepsBookkeeping
<1>2. CASE Stall(j)
  <2> DEFINE r == [jobs[j] EXCEPT
                    !.state = IF jobs[j].stalls < MaxStalls THEN "waiting" ELSE "failed",
                    !.stalls = @ + 1]
  <2>1. /\ r \in JobState /\ r.starts = jobs[j].starts
        /\ r.state = IF jobs[j].stalls < MaxStalls THEN "waiting" ELSE "failed"
        /\ r.failures = jobs[j].failures /\ r.stalls = jobs[j].stalls + 1
    <3>1. jobs[j] \in JobState /\ jobs[j].stalls + 1 \in 0 .. (MaxStalls + 1)
      BY <1>2, JobTyped DEF Stall
    <3> QED BY <3>1 DEF JobState
  <2>2. jobs' = [jobs EXCEPT ![j] = r]
    <3>1. jobs[j] \in JobState /\ jobs \in [Job -> JobState]
      BY DEF Bookkeeping, TypeOK
    <3> QED BY <1>2, <3>1 DEF Stall, JobState
  <2> HIDE DEF r
  <2>3. /\ r.state \in {"waiting", "failed"}
        /\ r.state = "waiting" => r.stalls <= MaxStalls
        /\ r.failures < Attempts /\ r.starts = r.failures + r.stalls
    BY <1>2, <2>1, JobTyped DEF Stall
  <2>4. /\ logs' \in [Delivery -> [Author -> LogStatus \cup {NoLog}]]
        /\ tries' \in [Job -> [Try -> TryStep]]
        /\ sent' \in [Job -> SUBSET Try]
        /\ UNCHANGED <<parents, rows, creations>>
    BY <1>2 DEF Stall, Advance, Bookkeeping, TypeOK, TryStep
  <2>5. jobs[j].state = "active"
    BY <1>2 DEF Stall
  <2>6. r.starts = r.failures + r.stalls + 0
    BY <2>1, <2>3, JobTyped
  <2> QED BY <2>1, <2>2, <2>3, <2>4, <2>5, <2>6, JobKeepsBookkeeping
<1>3. CASE CompleteJob(j, t)
  <2> DEFINE r == IF HoldsLock(j, t) THEN [jobs[j] EXCEPT !.state = "completed"] ELSE jobs[j]
  <2>1. /\ r \in JobState /\ r.starts = jobs[j].starts
        /\ r.state = IF HoldsLock(j, t) THEN "completed" ELSE jobs[j].state
        /\ r.failures = jobs[j].failures /\ r.stalls = jobs[j].stalls
    BY JobTyped DEF JobState
  <2>2. jobs' = [jobs EXCEPT ![j] = r]
    <3>1. jobs[j] \in JobState /\ jobs \in [Job -> JobState]
      BY DEF Bookkeeping, TypeOK
    <3> QED BY <1>3, <3>1 DEF CompleteJob, JobState
  <2>3. /\ logs' \in [Delivery -> [Author -> LogStatus \cup {NoLog}]]
        /\ tries' \in [Job -> [Try -> TryStep]]
        /\ sent' \in [Job -> SUBSET Try]
        /\ UNCHANGED <<parents, rows, creations>>
    BY <1>3 DEF CompleteJob, Advance, Bookkeeping, TypeOK, TryStep
  <2> HIDE DEF r
  <2>4. /\ r.state = "none" => r.starts = 0
        /\ jobs[j].state = "none" => r.state = "none"
        /\ r.state \in {"waiting", "active"} => r.failures < Attempts /\ r.stalls <= MaxStalls
        /\ r.starts = r.failures + r.stalls + (IF r.state \in {"active", "completed"} THEN 1 ELSE 0)
    <3>1. CASE HoldsLock(j, t)
      BY <2>1, <3>1, JobTyped DEF HoldsLock
    <3>2. CASE ~HoldsLock(j, t)
      BY <2>1, <3>2, JobTyped DEF StartsCounted, Bookkeeping
    <3> QED BY <3>1, <3>2
  <2> QED BY <2>1, <2>2, <2>3, <2>4, JobKeepsBookkeeping
<1>4. CASE RetryJob(j, t)
  <2> DEFINE r == IF HoldsLock(j, t)
                  THEN [jobs[j] EXCEPT
                         !.failures = @ + 1,
                         !.state = IF jobs[j].failures + 1 < Attempts THEN "waiting" ELSE "failed"]
                  ELSE jobs[j]
  <2>1. /\ r \in JobState /\ r.starts = jobs[j].starts /\ r.stalls = jobs[j].stalls
        /\ HoldsLock(j, t) =>
             /\ r.state = IF jobs[j].failures + 1 < Attempts THEN "waiting" ELSE "failed"
             /\ r.failures = jobs[j].failures + 1
        /\ ~HoldsLock(j, t) => r = jobs[j]
    <3>1. jobs[j] \in JobState /\ (HoldsLock(j, t) => jobs[j].failures + 1 \in 0 .. Attempts)
      BY JobTyped DEF HoldsLock
    <3>2. CASE HoldsLock(j, t)
      BY <3>1, <3>2 DEF JobState
    <3>3. CASE ~HoldsLock(j, t)
      BY <3>1, <3>3
    <3> QED BY <3>2, <3>3
  <2>2. jobs' = [jobs EXCEPT ![j] = r]
    <3>1. jobs[j] \in JobState /\ jobs \in [Job -> JobState]
      BY DEF Bookkeeping, TypeOK
    <3> QED BY <1>4, <3>1 DEF RetryJob, JobState
  <2>3. /\ logs' \in [Delivery -> [Author -> LogStatus \cup {NoLog}]]
        /\ tries' \in [Job -> [Try -> TryStep]]
        /\ sent' \in [Job -> SUBSET Try]
        /\ UNCHANGED <<parents, rows, creations>>
    BY <1>4 DEF RetryJob, Advance, Bookkeeping, TypeOK, TryStep
  <2> HIDE DEF r
  <2>4. /\ r.state = "none" => r.starts = 0
        /\ jobs[j].state = "none" => r.state = "none"
        /\ r.state \in {"waiting", "active"} => r.failures < Attempts /\ r.stalls <= MaxStalls
        /\ r.starts = r.failures + r.stalls + (IF r.state \in {"active", "completed"} THEN 1 ELSE 0)
    <3>1. CASE HoldsLock(j, t)
      BY <2>1, <3>1, JobTyped DEF HoldsLock
    <3>2. CASE ~HoldsLock(j, t)
      BY <2>1, <3>2, JobTyped DEF StartsCounted, Bookkeeping
    <3> QED BY <3>1, <3>2
  <2> QED BY <2>1, <2>2, <2>3, <2>4, JobKeepsBookkeeping
<1> QED BY <1>1, <1>2, <1>3, <1>4

(* What a worker does with its log and the vendor keeps it.                *)
LEMMA WorkKeepsBookkeeping ==
  ASSUME Bookkeeping, NEW j \in Job, NEW t \in Try, Process(j, t) \/ Die(j, t),
         ~CompleteJob(j, t), ~RetryJob(j, t)
  PROVE  /\ Bookkeeping'
         /\ \E step \in TryStep : tries' = [tries EXCEPT ![j][t] = step]
         /\ UNCHANGED <<parents, rows, jobs, creations>>
<1>1. /\ UNCHANGED <<parents, rows, jobs, creations>>
      /\ logs' = logs \/ \E x \in LogStatus : logs' = [logs EXCEPT ![j][t] = x]
      /\ sent' = sent \/ sent' = [sent EXCEPT ![j] = @ \cup {t}]
      /\ \E step \in TryStep : tries' = [tries EXCEPT ![j][t] = step]
  BY DEF Process, CreateLog, RefuseLog, Send, SendFails, RecordSent, RecordingFails,
         RecordFailed, ThrowUnrecorded, Die, Advance, LogStatus, TryStep
<1>2. TypeOK'
  <2>1. t \in Author /\ j \in Delivery
    BY JobIsDelivery DEF Author
  <2>2. logs' \in [Delivery -> [Author -> LogStatus \cup {NoLog}]]
    <3>1. logs \in [Delivery -> [Author -> LogStatus \cup {NoLog}]]
      BY DEF Bookkeeping, TypeOK
    <3> QED BY <1>1, <2>1, <3>1
  <2>3. tries' \in [Job -> [Try -> TryStep]]
    BY <1>1 DEF Bookkeeping, TypeOK
  <2>4. sent' \in [Job -> SUBSET Try]
    BY <1>1 DEF Bookkeeping, TypeOK
  <2> QED BY <1>1, <2>2, <2>3, <2>4 DEF Bookkeeping, TypeOK
<1> QED BY <1>1, <1>2
        DEF Bookkeeping, NothingAhead, StartsCounted, Ahead, Creating, Current

(* The bookkeeping is inductive.                                           *)
LEMMA BookkeepingStep == Bookkeeping /\ [Next]_vars => Bookkeeping'
<1> SUFFICES ASSUME Bookkeeping, [Next]_vars PROVE Bookkeeping'
  OBVIOUS
<1>1. ASSUME NEW c \in Creation, Create(c) PROVE Bookkeeping'
  BY <1>1, CreateKeepsBookkeeping
<1>2. ASSUME NEW c \in Creation, DeleteParent(c) PROVE Bookkeeping'
  BY <1>2 DEF DeleteParent, Bookkeeping, TypeOK, NothingAhead, StartsCounted,
              Ahead, Creating, Current
<1>3. ASSUME NEW d \in Delivery, DeleteRow(d) PROVE Bookkeeping'
  <2>1. /\ rows[d] = "exists" /\ rows' = [rows EXCEPT ![d] = "gone"]
        /\ logs' = [logs EXCEPT ![d] = [a \in Author |-> NoLog]]
        /\ UNCHANGED <<parents, jobs, creations, tries, sent>>
    BY <1>3 DEF DeleteRow, Exists
  <2>2. TypeOK'
    BY <2>1 DEF Bookkeeping, TypeOK
  <2>3. \A e \in Delivery : (rows[e] = "unused" <=> rows'[e] = "unused")
    BY <2>1 DEF Bookkeeping, TypeOK
  <2>4. \A c \in Creation : /\ Ahead(c)' = Ahead(c) /\ Current(c)' = Current(c)
                            /\ Current(c) \in Delivery
                            /\ \A ch \in Ahead(c) : <<c, ch>> \in Delivery
    BY <2>1, CreationTyped DEF Ahead, Current, Bookkeeping, Delivery
  <2> QED BY <2>1, <2>2, <2>3, <2>4 DEF Bookkeeping, NothingAhead, StartsCounted, Creating
<1>4. ASSUME NEW j \in Job, TakeJob(j) \/ Stall(j) PROVE Bookkeeping'
  <2>1. 1 \in Try
    BY NotificationDeliveryAssumption DEF Try
  <2> QED BY <1>4, <2>1, QueueKeepsBookkeeping
<1>5. ASSUME NEW j \in Job, NEW t \in Try, Process(j, t) \/ Die(j, t) PROVE Bookkeeping'
  BY <1>5, QueueKeepsBookkeeping, WorkKeepsBookkeeping
<1>6. CASE UNCHANGED vars
  BY <1>6 DEF vars, Bookkeeping, TypeOK, NothingAhead, StartsCounted, Ahead, Creating, Current
<1> QED BY <1>1, <1>2, <1>3, <1>4, <1>5, <1>6 DEF Next

(* It holds at the start.                                                  *)
LEMMA BookkeepingInit == Init => Bookkeeping
<1> SUFFICES ASSUME Init PROVE Bookkeeping
  OBVIOUS
<1>1. TypeOK
  BY NotificationDeliveryAssumption
     DEF Init, TypeOK, JobState, CreationState, TryStep, Channel, LogStatus, NoLog
<1>2. NothingAhead
  BY DEF Init, NothingAhead, Ahead, Creating, Channel, Delivery, Job
<1>3. StartsCounted
  BY DEF Init, StartsCounted
<1> QED BY <1>1, <1>2, <1>3 DEF Bookkeeping

(* Types: no job fails, stalls or starts more often than the queue allows, *)
(* whatever slow workers report late.                                      *)
THEOREM TypeCorrect == Spec => []TypeOK
<1>1. Bookkeeping => TypeOK
  BY DEF Bookkeeping
<1> QED BY <1>1, BookkeepingInit, BookkeepingStep, PTL DEF Spec

-----------------------------------------------------------------------------
(* What a worker has done and what its log says of it.                     *)

(* How far a try has come: its log and what was sent agree with its step.  *)
Worked(j, t) ==
  /\ tries[j][t] = "none" <=> t > jobs[j].starts
  /\ t \in sent[j] => tries[j][t] \notin {"none", "logging", "sending"}
  /\ tries[j][t] \in {"recording", "done"} => t \in sent[j]
  /\ ~Exists(j) => logs[j][t] = NoLog
  /\ Exists(j) /\ (tries[j][t] = "sending" \/ t \in sent[j]) => logs[j][t] # NoLog
  /\ logs[j][t] = "SENT" => t \in sent[j]
  /\ Exists(j) /\ tries[j][t] = "done" => logs[j][t] = "SENT"
  /\ jobs[j].state = "completed" /\ t = jobs[j].starts =>
       /\ tries[j][t] = "over" /\ t \in sent[j]
       /\ Exists(j) => logs[j][t] = "SENT"

(* The same of every try of every job.                                     *)
AllWorked == \A j \in Job, t \in Try : Worked(j, t)

(* Workers of other jobs, and other workers of this one, are not concerned.*)
LEMMA OthersWorked ==
  ASSUME Bookkeeping, AllWorked, NEW j \in Job, NEW t \in Try,
         NEW step \in TryStep, tries' = [tries EXCEPT ![j][t] = step],
         UNCHANGED rows,
         logs' = logs \/ \E x \in LogStatus : logs' = [logs EXCEPT ![j][t] = x],
         sent' = sent \/ sent' = [sent EXCEPT ![j] = @ \cup {t}],
         \A k \in Job :
           /\ jobs'[k].starts = jobs[k].starts
           /\ jobs'[k].state = "completed" =>
                jobs[k].state = "completed" \/ (k = j /\ jobs[j].starts = t),
         Worked(j, t)'
  PROVE  AllWorked'
<1>1. SUFFICES ASSUME NEW k \in Job, NEW u \in Try, ~(k = j /\ u = t) PROVE Worked(k, u)'
  BY DEF AllWorked
<1>2. tries'[k][u] = tries[k][u]
  BY <1>1 DEF Bookkeeping, TypeOK
<1>3. logs'[k][u] = logs[k][u]
  BY <1>1, JobIsDelivery DEF Bookkeeping, TypeOK, Author
<1>4. u \in sent'[k] <=> u \in sent[k]
  BY <1>1 DEF Bookkeeping, TypeOK
<1>5. /\ rows'[k] = rows[k] /\ jobs'[k].starts = jobs[k].starts
      /\ jobs'[k].state = "completed" /\ u = jobs[k].starts => jobs[k].state = "completed"
  BY <1>1
<1>6. Worked(k, u)
  BY DEF AllWorked
<1> QED BY <1>2, <1>3, <1>4, <1>5, <1>6 DEF Worked, Exists

(* A worker's own step.                                                    *)
LEMMA WorkKeepsWorked ==
  ASSUME Bookkeeping, AllWorked, NEW j \in Job, NEW t \in Try, Process(j, t) \/ Die(j, t),
         ~CompleteJob(j, t), ~RetryJob(j, t)
  PROVE  AllWorked'
<1>1. /\ UNCHANGED <<rows, jobs>>
      /\ logs' = logs \/ \E x \in LogStatus : logs' = [logs EXCEPT ![j][t] = x]
      /\ sent' = sent \/ sent' = [sent EXCEPT ![j] = @ \cup {t}]
  BY DEF Process, CreateLog, RefuseLog, Send, SendFails, RecordSent, RecordingFails,
         RecordFailed, ThrowUnrecorded, Die, LogStatus
<1>2. PICK step \in TryStep : tries' = [tries EXCEPT ![j][t] = step]
  BY WorkKeepsBookkeeping
<1>3. Worked(j, t)
  BY DEF AllWorked
<1>4. /\ tries'[j][t] = step
      /\ \A x : logs' = [logs EXCEPT ![j][t] = x] => logs'[j][t] = x
      /\ \A S : sent' = [sent EXCEPT ![j] = S] => sent'[j] = S
  <2>1. t \in Author /\ j \in Delivery
    BY JobIsDelivery DEF Author
  <2> QED BY <1>2, <2>1 DEF Bookkeeping, TypeOK
<1>5. Worked(j, t)'
  <2>1. CASE CreateLog(j, t)
    <3>1. step = "sending" /\ logs'[j][t] = "PENDING"
      BY <1>4, <2>1 DEF CreateLog, Advance, Bookkeeping, TypeOK
    <3> QED BY <1>1, <1>3, <1>4, <2>1, <3>1 DEF CreateLog, Worked, Exists, NoLog
  <2>2. CASE RefuseLog(j, t)
    <3>1. step = "thrown"
      BY <1>4, <2>2 DEF RefuseLog, Advance, Bookkeeping, TypeOK
    <3> QED BY <1>1, <1>3, <1>4, <2>2, <3>1 DEF RefuseLog, Worked, Exists
  <2>3. CASE Send(j, t)
    <3>1. step \in {"recording", "failing"} /\ t \in sent'[j]
      BY <1>4, <2>3 DEF Send, Advance, Bookkeeping, TypeOK
    <3> QED BY <1>1, <1>3, <1>4, <2>3, <3>1 DEF Send, Worked, Exists
  <2>4. CASE SendFails(j, t)
    <3>1. step = "failing"
      BY <1>4, <2>4 DEF SendFails, Advance, Bookkeeping, TypeOK
    <3> QED BY <1>1, <1>3, <1>4, <2>4, <3>1 DEF SendFails, Worked, Exists
  <2>5. CASE RecordSent(j, t)
    <3>1. step \in {"done", "failing"} /\ logs'[j][t] = "SENT"
      <4>1. PICK outcome \in {"done", "failing"} : Advance(j, t, outcome)
        BY <2>5 DEF RecordSent
      <4>2. tries'[j][t] = outcome
        BY <4>1 DEF Advance, Bookkeeping, TypeOK
      <4>3. logs'[j][t] = "SENT"
        BY <1>4, <2>5 DEF RecordSent
      <4> QED BY <1>4, <4>2, <4>3
    <3> QED BY <1>1, <1>3, <1>4, <2>5, <3>1 DEF RecordSent, Worked, Exists, NoLog
  <2>6. CASE RecordingFails(j, t)
    <3>1. step = "failing"
      BY <1>4, <2>6 DEF RecordingFails, Advance, Bookkeeping, TypeOK
    <3> QED BY <1>1, <1>3, <1>4, <2>6, <3>1 DEF RecordingFails, Worked, Exists
  <2>7. CASE RecordFailed(j, t)
    <3>1. step = "thrown" /\ logs'[j][t] = "FAILED"
      BY <1>4, <2>7 DEF RecordFailed, Advance, Bookkeeping, TypeOK
    <3> QED BY <1>1, <1>3, <1>4, <2>7, <3>1 DEF RecordFailed, Worked, Exists, NoLog
  <2>8. CASE ThrowUnrecorded(j, t)
    <3>1. step = "thrown"
      BY <1>4, <2>8 DEF ThrowUnrecorded, Advance, Bookkeeping, TypeOK
    <3> QED BY <1>1, <1>3, <1>4, <2>8, <3>1 DEF ThrowUnrecorded, Worked, Exists
  <2>9. CASE Die(j, t)
    <3>1. step = "over"
      BY <1>4, <2>9 DEF Die, Advance, Bookkeeping, TypeOK
    <3> QED BY <1>1, <1>3, <1>4, <2>9, <3>1 DEF Die, Worked, Exists
  <2> QED BY <2>1, <2>2, <2>3, <2>4, <2>5, <2>6, <2>7, <2>8, <2>9 DEF Process
<1> QED BY <1>1, <1>2, <1>5, OthersWorked

(* The steps of the queue.                                                 *)
LEMMA QueueKeepsWorked ==
  ASSUME Bookkeeping, AllWorked, NEW j \in Job, NEW t \in Try,
         TakeJob(j) \/ Stall(j) \/ CompleteJob(j, t) \/ RetryJob(j, t)
  PROVE  AllWorked'
<1>1. CASE TakeJob(j)
  <2>1. /\ jobs[j].state = "waiting" /\ UNCHANGED <<rows, logs, sent>>
        /\ jobs'[j].state = "active" /\ jobs'[j].starts = jobs[j].starts + 1
        /\ \A k \in Job : k # j => jobs'[k] = jobs[k] /\ tries'[k] = tries[k]
        /\ \A u \in Try : tries'[j][u] = IF u = jobs[j].starts + 1 THEN "logging" ELSE tries[j][u]
    <3>1. jobs \in [Job -> JobState] /\ tries \in [Job -> [Try -> TryStep]]
      BY DEF Bookkeeping, TypeOK
    <3> QED BY <1>1, <3>1 DEF TakeJob, Advance, JobState
  <2> SUFFICES ASSUME NEW k \in Job, NEW u \in Try PROVE Worked(k, u)'
    BY DEF AllWorked
  <2>2. Worked(k, u)
    BY DEF AllWorked
  <2>3. CASE k # j
    BY <2>1, <2>2, <2>3 DEF Worked, Exists
  <2>4. CASE k = j /\ u = jobs[j].starts + 1
    <3>1. u > jobs[j].starts
      BY <2>4, JobTyped
    <3>2. ~(u > jobs[j].starts + 1)
      BY <2>4, JobTyped
    <3> QED BY <2>1, <2>2, <2>4, <3>1, <3>2 DEF Worked, Exists
  <2>5. CASE k = j /\ u # jobs[j].starts + 1
    <3>1. u > jobs[j].starts + 1 <=> u > jobs[j].starts
      BY <2>5, JobTyped, NotificationDeliveryAssumption DEF Try
    <3> QED BY <2>1, <2>2, <2>5, <3>1 DEF Worked, Exists
  <2> QED BY <2>3, <2>4, <2>5
<1>2. CASE Stall(j)
  <2>1. /\ UNCHANGED <<rows, logs, sent, tries>>
        /\ jobs'[j].state \in {"waiting", "failed"} /\ jobs'[j].starts = jobs[j].starts
        /\ \A k \in Job : k # j => jobs'[k] = jobs[k]
    <3>1. jobs \in [Job -> JobState]
      BY DEF Bookkeeping, TypeOK
    <3> QED BY <1>2, <3>1 DEF Stall, JobState
  <2> SUFFICES ASSUME NEW k \in Job, NEW u \in Try PROVE Worked(k, u)'
    BY DEF AllWorked
  <2>2. Worked(k, u)
    BY DEF AllWorked
  <2> QED BY <2>1, <2>2 DEF Worked, Exists
<1>3. CASE CompleteJob(j, t)
  <2>1. /\ UNCHANGED <<rows, logs, sent>> /\ tries[j][t] = "done"
        /\ tries' = [tries EXCEPT ![j][t] = "over"]
        /\ jobs'[j].starts = jobs[j].starts
        /\ jobs'[j].state = "completed" => jobs[j].state = "completed" \/ jobs[j].starts = t
        /\ \A k \in Job : k # j => jobs'[k] = jobs[k]
    <3>1. jobs \in [Job -> JobState]
      BY DEF Bookkeeping, TypeOK
    <3> QED BY <1>3, <3>1 DEF CompleteJob, HoldsLock, Advance, JobState
  <2>2. tries'[j][t] = "over"
    BY <2>1 DEF Bookkeeping, TypeOK
  <2>3. Worked(j, t)
    BY DEF AllWorked
  <2>4. Worked(j, t)'
    BY <2>1, <2>2, <2>3 DEF Worked, Exists
  <2>5. "over" \in TryStep
    BY DEF TryStep
  <2> QED BY <2>1, <2>4, <2>5, OthersWorked
<1>4. CASE RetryJob(j, t)
  <2>1. /\ UNCHANGED <<rows, logs, sent>> /\ tries[j][t] = "thrown"
        /\ tries' = [tries EXCEPT ![j][t] = "over"]
        /\ jobs'[j].starts = jobs[j].starts
        /\ jobs'[j].state = "completed" => jobs[j].state = "completed"
        /\ \A k \in Job : k # j => jobs'[k] = jobs[k]
    <3>1. jobs \in [Job -> JobState]
      BY DEF Bookkeeping, TypeOK
    <3> QED BY <1>4, <3>1 DEF RetryJob, HoldsLock, Advance, JobState
  <2>2. tries'[j][t] = "over"
    BY <2>1 DEF Bookkeeping, TypeOK
  <2>3. Worked(j, t)
    BY DEF AllWorked
  <2>4. Worked(j, t)'
    BY <2>1, <2>2, <2>3 DEF Worked, Exists
  <2>5. "over" \in TryStep
    BY DEF TryStep
  <2> QED BY <2>1, <2>4, <2>5, OthersWorked
<1> QED BY <1>1, <1>2, <1>3, <1>4

(* The steps of NotificationService.create: only AddJob touches a job, and *)
(* only CreateRow a row, for a channel that no worker has seen.            *)
LEMMA CreateKeepsWorked ==
  ASSUME Bookkeeping, AllWorked, NEW c \in Creation, Create(c)
  PROVE  AllWorked'
<1>0. SUFFICES ASSUME NEW j \in Job, NEW t \in Try PROVE Worked(j, t)'
  BY DEF AllWorked
<1> USE JobIsDelivery
<1>w. Worked(j, t)
  BY DEF AllWorked
<1>1. CASE \/ \E enabled \in SUBSET Channel : ReadPreferences(c, enabled)
           \/ CreateParent(c) \/ FailChannel(c) \/ UpdateParent(c) \/ FailCreation(c)
           \/ \E ch \in Channel : SkipChannel(c, ch)
  <2>1. UNCHANGED <<rows, logs, jobs, tries, sent>>
    BY <1>1 DEF ReadPreferences, CreateParent, FailChannel, UpdateParent, FailCreation, SkipChannel
  <2> QED BY <2>1, <1>w DEF Worked, Exists
<1>2. ASSUME NEW ch \in Channel, CreateRow(c, ch)
      PROVE  Worked(j, t)'
  <2>1. /\ <<c, ch>> \in Delivery /\ ch \in Ahead(c)
        /\ rows' = [rows EXCEPT ![<<c, ch>>] = "exists"]
        /\ UNCHANGED <<logs, jobs, tries, sent>>
    BY <1>2 DEF CreateRow, Creating, Turn, Ahead, Delivery
  <2>2. CASE j = <<c, ch>>
    <3>1. ch \in External
      BY <2>2 DEF Job
    <3>2. jobs[j].starts = 0 /\ rows[j] = "unused"
      BY <2>1, <2>2, <3>1 DEF Bookkeeping, NothingAhead, StartsCounted
    <3>3. t > jobs[j].starts /\ jobs[j].starts # t
      BY <3>2, NotificationDeliveryAssumption DEF Try
    <3> QED BY <1>w, <2>1, <3>2, <3>3 DEF Worked, Exists
  <2>3. CASE j # <<c, ch>>
    <3>1. rows'[j] = rows[j]
      BY <2>1, <2>3 DEF Bookkeeping, TypeOK
    <3> QED BY <1>w, <2>1, <3>1 DEF Worked, Exists
  <2> QED BY <2>2, <2>3
<1>3. CASE LogInApp(c) \/ LogQueued(c)
  <2>1. /\ UNCHANGED <<rows, jobs, tries, sent>> /\ Current(c) \in Delivery
        /\ \E x \in LogStatus : logs' = [logs EXCEPT ![Current(c)][0] = x]
    BY <1>3, CreationTyped DEF LogInApp, LogQueued, LogStatus, Bookkeeping
  <2>2. t # 0 /\ t \in Author
    BY NotificationDeliveryAssumption DEF Try, Author
  <2>3. logs'[j][t] = logs[j][t]
    BY <2>1, <2>2 DEF Bookkeeping, TypeOK
  <2> QED BY <1>w, <2>1, <2>3 DEF Worked, Exists
<1>4. CASE AddJob(c)
  <2>1. /\ creations[c].channel \in External /\ Current(c) \in Job
        /\ jobs' = [jobs EXCEPT ![Current(c)].state = "waiting"]
        /\ UNCHANGED <<rows, logs, tries, sent>>
    BY <1>4, CreationTyped DEF AddJob, Bookkeeping, NothingAhead
  <2>2. /\ jobs'[j].starts = jobs[j].starts
        /\ jobs'[j].state = "completed" => jobs[j].state = "completed"
    <3>1. jobs \in [Job -> JobState]
      BY DEF Bookkeeping, TypeOK
    <3> QED BY <2>1, <3>1 DEF JobState
  <2> QED BY <1>w, <2>1, <2>2 DEF Worked, Exists
<1> QED BY <1>1, <1>2, <1>3, <1>4 DEF Create

(* What workers have done and logged is an inductive invariant.            *)
LEMMA WorkedInvariant ==
  /\ Init => AllWorked
  /\ Bookkeeping /\ AllWorked /\ [Next]_vars => AllWorked'
<1>1. ASSUME Init PROVE AllWorked
  <2>1. \A t \in Try : t > 0
    BY NotificationDeliveryAssumption DEF Try
  <2>2. \A j \in Job, t \in Try : /\ tries[j][t] = "none" /\ jobs[j].starts = 0
                                /\ jobs[j].state = "none" /\ sent[j] = {} /\ logs[j][t] = NoLog
    BY <1>1, JobIsDelivery DEF Init, Author
  <2> QED BY <2>1, <2>2 DEF AllWorked, Worked, NoLog
<1>2. ASSUME Bookkeeping, AllWorked, [Next]_vars PROVE AllWorked'
  <2>1. ASSUME NEW c \in Creation, Create(c) PROVE AllWorked'
    BY <1>2, <2>1, CreateKeepsWorked
  <2>2. ASSUME NEW c \in Creation, DeleteParent(c) PROVE AllWorked'
    BY <1>2, <2>2 DEF DeleteParent, AllWorked, Worked, Exists
  <2>3. ASSUME NEW d \in Delivery, DeleteRow(d) PROVE AllWorked'
    <3>1. SUFFICES ASSUME NEW j \in Job, NEW t \in Try PROVE Worked(j, t)'
      BY DEF AllWorked
    <3>2. Worked(j, t)
      BY <1>2 DEF AllWorked
    <3>3. /\ UNCHANGED <<jobs, tries, sent>>
          /\ j = d => rows'[j] = "gone" /\ logs'[j][t] = NoLog
          /\ j # d => rows'[j] = rows[j] /\ logs'[j][t] = logs[j][t]
      BY <1>2, <2>3, JobIsDelivery DEF DeleteRow, Bookkeeping, TypeOK, Author
    <3> QED BY <3>2, <3>3 DEF Worked, Exists, NoLog
  <2>4. ASSUME NEW j \in Job, TakeJob(j) \/ Stall(j) PROVE AllWorked'
    <3>1. 1 \in Try
      BY NotificationDeliveryAssumption DEF Try
    <3> QED BY <1>2, <2>4, <3>1, QueueKeepsWorked
  <2>5. ASSUME NEW j \in Job, NEW t \in Try, Process(j, t) \/ Die(j, t) PROVE AllWorked'
    BY <1>2, <2>5, QueueKeepsWorked, WorkKeepsWorked
  <2>6. CASE UNCHANGED vars
    BY <1>2, <2>6 DEF vars, AllWorked, Worked, Exists
  <2> QED BY <1>2, <2>1, <2>2, <2>3, <2>4, <2>5, <2>6 DEF Next
<1> QED BY <1>1, <1>2

(* Whatever a vendor accepted has a log, and what the logs call SENT was   *)
(* accepted, with any number of retries, stalls and slow workers.          *)
THEOREM LogsMatchSendsHolds == Spec => []LogsMatchSends
<1>1. AllWorked => LogsMatchSends
  BY DEF AllWorked, Worked, LogsMatchSends
<1> QED BY <1>1, BookkeepingInit, BookkeepingStep, WorkedInvariant, PTL DEF Spec

(* The try that completes a job has sent its message and recorded it: the  *)
(* lock keeps a worker that was taken for dead from completing the job of  *)
(* the one that followed.                                                  *)
THEOREM CompletedWasSentHolds == Spec => []CompletedWasSent
<1>1. Bookkeeping /\ AllWorked => CompletedWasSent
  <2> SUFFICES ASSUME Bookkeeping, AllWorked, NEW j \in Job, jobs[j].state = "completed"
               PROVE  /\ jobs[j].starts \in sent[j]
                      /\ Exists(j) => logs[j][jobs[j].starts] = "SENT"
    BY DEF CompletedWasSent
  <2>1. jobs[j].starts \in Try
    <3>1. jobs[j].starts = jobs[j].failures + jobs[j].stalls + 1
      BY DEF Bookkeeping, StartsCounted
    <3> QED BY <3>1, JobTyped, NotificationDeliveryAssumption DEF Try, JobState
  <2> QED BY <2>1 DEF AllWorked, Worked
<1> QED BY <1>1, BookkeepingInit, BookkeepingStep, WorkedInvariant, PTL DEF Spec

(* Only starts send, each once.                                            *)
LEMMA SendsCounted ==
  ASSUME Bookkeeping, AllWorked, NEW j \in Job
  PROVE  /\ IsFiniteSet(sent[j]) /\ Cardinality(sent[j]) \in Nat
         /\ Cardinality(sent[j]) <= 1 + jobs[j].failures + jobs[j].stalls
<1>1. sent[j] \subseteq 1 .. jobs[j].starts
  <2> SUFFICES ASSUME NEW t \in sent[j] PROVE t \in 1 .. jobs[j].starts
    OBVIOUS
  <2>1. t \in Try
    BY DEF Bookkeeping, TypeOK
  <2>2. ~(t > jobs[j].starts)
    BY <2>1 DEF AllWorked, Worked
  <2> QED BY <2>1, <2>2, JobTyped, NotificationDeliveryAssumption DEF Try
<1>2. jobs[j].starts \in Nat /\ jobs[j].starts <= 1 + jobs[j].failures + jobs[j].stalls
  BY JobTyped DEF StartsCounted, Bookkeeping
<1>3. IsFiniteSet(1 .. jobs[j].starts) /\ Cardinality(1 .. jobs[j].starts) = jobs[j].starts
  <2> DEFINE n == jobs[j].starts
  <2>1. n \in Nat /\ n \in Int /\ 1 \in Int
    BY <1>2
  <2> HIDE DEF n
  <2>2. IsFiniteSet(1 .. n) /\ Cardinality(1 .. n) = IF 1 > n THEN 0 ELSE n - 1 + 1
    BY <2>1, FS_Interval
  <2>3. Cardinality(1 .. n) = n
    BY <2>1, <2>2
  <2> QED BY <2>2, <2>3 DEF n
<1>4. /\ IsFiniteSet(sent[j]) /\ Cardinality(sent[j]) \in Nat
      /\ Cardinality(sent[j]) <= jobs[j].starts
  BY <1>1, <1>3, FS_Subset, FS_CardinalityType
<1> QED BY <1>2, <1>4, JobTyped

(* So copies are explained, at every step.                                 *)
LEMMA SendsFollow == Bookkeeping /\ AllWorked => SendsExplained
  BY SendsCounted DEF SendsExplained

(* A message goes out again only after a failure or a stall, one for one.  *)
THEOREM SendsExplainedHolds == Spec => []SendsExplained
  BY SendsFollow, BookkeepingInit, BookkeepingStep, WorkedInvariant, PTL DEF Spec

-----------------------------------------------------------------------------
(* At-least-once delivery.                                                 *)

(* Functions that differ at one place.                                     *)
LEMMA DifferAt ==
  ASSUME NEW S, NEW f, NEW g, NEW x \in S,
         f = [s \in S |-> f[s]], g = [s \in S |-> g[s]],
         \A s \in S : s # x => g[s] = f[s]
  PROVE  g = [f EXCEPT ![x] = g[x]]
  OBVIOUS

(* What a step of one job shows.                                           *)
LEMMA JobShown ==
  ASSUME Bookkeeping, NEW j \in Job, NEW r \in JobState,
         jobs' = [jobs EXCEPT ![j] = r]
  PROVE  /\ Fates' = [Fates EXCEPT ![j] = Fate[r.state]]
         /\ Mishaps' = [Mishaps EXCEPT ![j] = r.failures + r.stalls]
<1>1. jobs'[j] = r /\ \A k \in Job : k # j => jobs'[k] = jobs[k]
  BY DEF Bookkeeping, TypeOK
<1>2. Fates' = [Fates EXCEPT ![j] = Fate[r.state]]
  <2>1. /\ Fates = [k \in Job |-> Fates[k]] /\ Fates' = [k \in Job |-> Fates'[k]]
        /\ \A k \in Job : k # j => Fates'[k] = Fates[k]
        /\ Fates'[j] = Fate[r.state]
    BY <1>1 DEF Fates
  <2> QED BY <2>1, DifferAt
<1>3. Mishaps' = [Mishaps EXCEPT ![j] = r.failures + r.stalls]
  <2>1. /\ Mishaps = [k \in Job |-> Mishaps[k]] /\ Mishaps' = [k \in Job |-> Mishaps'[k]]
        /\ \A k \in Job : k # j => Mishaps'[k] = Mishaps[k]
        /\ Mishaps'[j] = r.failures + r.stalls
    BY <1>1 DEF Mishaps
  <2> QED BY <2>1, DifferAt
<1> QED BY <1>2, <1>3

(* A step that touches neither jobs nor what was sent is invisible.        *)
LEMMA HiddenStep ==
  ASSUME UNCHANGED <<jobs, sent>>
  PROVE  UNCHANGED Promise!promiseVars
  BY DEF Promise!promiseVars, Fates, Copies, Mishaps

(* Adding a job queues its message: the job was not there.                 *)
LEMMA AddJobQueues ==
  ASSUME Bookkeeping, NEW c \in Creation, AddJob(c)
  PROVE  Promise!Next
<1> DEFINE j == Current(c)
<1>1. /\ j \in Job /\ jobs[j].state = "none" /\ sent' = sent
      /\ jobs' = [jobs EXCEPT ![j].state = "waiting"]
  BY CreationTyped DEF AddJob, Creating, NothingAhead, Bookkeeping
<1> HIDE DEF j
<1>2. PICK r : r = [jobs[j] EXCEPT !.state = "waiting"]
  OBVIOUS
<1>3. /\ r \in JobState /\ r.state = "waiting"
      /\ r.failures = jobs[j].failures /\ r.stalls = jobs[j].stalls
  BY <1>1, <1>2, JobTyped DEF JobState
<1>4. jobs' = [jobs EXCEPT ![j] = r]
  BY <1>1, <1>2 DEF Bookkeeping, TypeOK
<1>5. Fates' = [Fates EXCEPT ![j] = "queued"] /\ Mishaps' = Mishaps /\ Copies' = Copies
  <2>1. Fates' = [Fates EXCEPT ![j] = Fate[r.state]]
    BY <1>1, <1>3, <1>4, JobShown
  <2>4. Fate[r.state] = "queued"
    BY <1>3 DEF Fate
  <2>2. \A k \in Job : /\ jobs'[k].failures = jobs[k].failures
                      /\ jobs'[k].stalls = jobs[k].stalls
    BY <1>1, <1>3, <1>4 DEF Bookkeeping, TypeOK
  <2>3. Mishaps' = Mishaps /\ Copies' = Copies
    BY <1>1, <2>2 DEF Mishaps, Copies
  <2> QED BY <2>1, <2>3, <2>4
<1>6. Fates[j] = "unqueued"
  BY <1>1 DEF Fates, Fate
<1>7. Promise!Queue(j)
  BY <1>5, <1>6 DEF Promise!Queue
<1> QED BY <1>1, <1>7 DEF Promise!Next

(* The first start of a job and every other one look alike.                *)
LEMMA TakeJobHidden ==
  ASSUME Bookkeeping, NEW j \in Job, TakeJob(j)
  PROVE  UNCHANGED Promise!promiseVars
<1>1. PICK r : r = [jobs[j] EXCEPT !.state = "active", !.starts = @ + 1]
  OBVIOUS
<1>2. /\ jobs[j].state = "waiting" /\ sent' = sent
      /\ r \in JobState /\ r.state = "active"
      /\ r.failures = jobs[j].failures /\ r.stalls = jobs[j].stalls
  <2>1. jobs[j] \in JobState /\ jobs[j].starts + 1 \in 0 .. (Attempts + MaxStalls)
    BY JobTyped DEF TakeJob
  <2> QED BY <1>1, <2>1 DEF TakeJob, JobState
<1>3. jobs' = [jobs EXCEPT ![j] = r]
  BY <1>1, JobTyped DEF TakeJob, Bookkeeping, TypeOK, JobState
<1>4. Fates' = Fates /\ Mishaps' = Mishaps
  BY <1>2, <1>3, JobShown DEF Fate, Fates, Mishaps
<1> QED BY <1>2, <1>4 DEF Promise!promiseVars, Copies

(* A job that goes wrong once more, by a failure or a stall, waits or has  *)
(* failed for good.                                                        *)
LEMMA MishapShown ==
  ASSUME Bookkeeping, NEW j \in Job, NEW r \in JobState,
         jobs' = [jobs EXCEPT ![j] = r], sent' = sent,
         jobs[j].state = "active",
         r.failures + r.stalls = jobs[j].failures + jobs[j].stalls + 1,
         r.state \in {"waiting", "failed"},
         r.state = "waiting" => r.failures < Attempts /\ r.stalls <= MaxStalls,
         r.state = "failed" => r.failures = Attempts \/ r.stalls = MaxStalls + 1
  PROVE  Promise!Next
<1>1. /\ Fates[j] = "queued" /\ Mishaps[j] \in Nat
      /\ Mishaps' = [Mishaps EXCEPT ![j] = @ + 1] /\ Copies' = Copies
      /\ Mishaps[j] + 1 = r.failures + r.stalls
  <2>1. Fates[j] = "queued" /\ Copies' = Copies
    BY DEF Fates, Fate, Copies
  <2>2. /\ Mishaps[j] = jobs[j].failures + jobs[j].stalls
        /\ Mishaps[j] \in Nat /\ Mishaps[j] + 1 = r.failures + r.stalls
    BY JobTyped DEF Mishaps
  <2>3. Mishaps' = [Mishaps EXCEPT ![j] = r.failures + r.stalls]
    BY JobShown
  <2>4. Mishaps' = [Mishaps EXCEPT ![j] = @ + 1]
    BY <2>2, <2>3
  <2> QED BY <2>1, <2>2, <2>4
<1>2. CASE r.state = "waiting"
  <2>1. Fates' = Fates
    BY <1>2, JobShown DEF Fates, Fate
  <2>2. Mishaps[j] + 1 < Attempts + MaxStalls
    BY <1>1, <1>2, NotificationDeliveryAssumption DEF JobState
  <2>3. Promise!Mishap(j)
    BY <1>1, <2>1, <2>2 DEF Promise!Mishap
  <2> QED BY <2>3 DEF Promise!Next
<1>3. CASE r.state = "failed"
  <2>1. Fates' = [Fates EXCEPT ![j] = "abandoned"]
    <3>1. Fates' = [Fates EXCEPT ![j] = Fate[r.state]]
      BY JobShown
    <3>2. Fate[r.state] = "abandoned"
      BY <1>3 DEF Fate
    <3> QED BY <3>1, <3>2
  <2>2. Mishaps[j] + 1 \in
          (IF Attempts <= MaxStalls THEN Attempts ELSE MaxStalls + 1) .. (Attempts + MaxStalls)
    <3>1. /\ Mishaps[j] + 1 = jobs[j].failures + jobs[j].stalls + 1
          /\ jobs[j].failures < Attempts /\ jobs[j].stalls <= MaxStalls
      BY <1>1, JobTyped
    <3> QED BY <1>1, <1>3, <3>1, JobTyped, NotificationDeliveryAssumption DEF JobState
  <2>3. Promise!GiveUp(j)
    BY <1>1, <2>1, <2>2 DEF Promise!GiveUp
  <2> QED BY <2>3 DEF Promise!Next
<1> QED BY <1>2, <1>3

(* A lock that runs out is a mishap.                                       *)
LEMMA StallShown ==
  ASSUME Bookkeeping, NEW j \in Job, Stall(j)
  PROVE  Promise!Next
<1>1. PICK r : r = [jobs[j] EXCEPT
                     !.state = IF jobs[j].stalls < MaxStalls THEN "waiting" ELSE "failed",
                     !.stalls = @ + 1]
  OBVIOUS
<1>2. /\ r \in JobState
      /\ r.state = IF jobs[j].stalls < MaxStalls THEN "waiting" ELSE "failed"
      /\ r.failures = jobs[j].failures /\ r.stalls = jobs[j].stalls + 1
  <2>1. jobs[j] \in JobState /\ jobs[j].stalls + 1 \in 0 .. (MaxStalls + 1)
    BY JobTyped DEF Stall
  <2> QED BY <1>1, <2>1 DEF JobState
<1>3. jobs[j].state = "active" /\ sent' = sent /\ jobs' = [jobs EXCEPT ![j] = r]
  BY <1>1, JobTyped DEF Stall, Bookkeeping, TypeOK, JobState
<1>4. /\ r.state \in {"waiting", "failed"}
      /\ r.failures + r.stalls = jobs[j].failures + jobs[j].stalls + 1
      /\ r.state = "waiting" => r.failures < Attempts /\ r.stalls <= MaxStalls
      /\ r.state = "failed" => r.stalls = MaxStalls + 1
  BY <1>2, <1>3, JobTyped
<1> QED BY <1>2, <1>3, <1>4, MishapShown

(* So is an error of the processor, if it still holds the lock.            *)
LEMMA RetryJobShown ==
  ASSUME Bookkeeping, NEW j \in Job, NEW t \in Try, RetryJob(j, t)
  PROVE  Promise!Next \/ UNCHANGED Promise!promiseVars
<1>1. CASE ~HoldsLock(j, t)
  <2>1. UNCHANGED <<jobs, sent>>
    BY <1>1 DEF RetryJob
  <2> QED BY <2>1, HiddenStep
<1>2. CASE HoldsLock(j, t)
  <2>1. PICK r : r = [jobs[j] EXCEPT
                       !.failures = @ + 1,
                       !.state = IF jobs[j].failures + 1 < Attempts THEN "waiting" ELSE "failed"]
    OBVIOUS
  <2>2. jobs[j].state = "active"
    BY <1>2 DEF HoldsLock
  <2>3. /\ r \in JobState
        /\ r.state = IF jobs[j].failures + 1 < Attempts THEN "waiting" ELSE "failed"
        /\ r.failures = jobs[j].failures + 1 /\ r.stalls = jobs[j].stalls
    <3>1. jobs[j] \in JobState /\ jobs[j].failures + 1 \in 0 .. Attempts
      BY <2>2, JobTyped
    <3> QED BY <2>1, <3>1 DEF JobState
  <2>4. sent' = sent /\ jobs' = [jobs EXCEPT ![j] = r]
    BY <1>2, <2>1, JobTyped DEF RetryJob, Bookkeeping, TypeOK, JobState
  <2>5. /\ r.state \in {"waiting", "failed"}
        /\ r.failures + r.stalls = jobs[j].failures + jobs[j].stalls + 1
        /\ r.state = "waiting" => r.failures < Attempts /\ r.stalls <= MaxStalls
        /\ r.state = "failed" => r.failures = Attempts
    BY <2>2, <2>3, JobTyped
  <2> QED BY <2>2, <2>3, <2>4, <2>5, MishapShown
<1> QED BY <1>1, <1>2

(* A worker that completes its job has sent the message.                   *)
LEMMA CompleteJobShown ==
  ASSUME Bookkeeping, AllWorked, NEW j \in Job, NEW t \in Try, CompleteJob(j, t)
  PROVE  Promise!Next \/ UNCHANGED Promise!promiseVars
<1>1. CASE ~HoldsLock(j, t)
  <2>1. UNCHANGED <<jobs, sent>>
    BY <1>1 DEF CompleteJob
  <2> QED BY <2>1, HiddenStep
<1>2. CASE HoldsLock(j, t)
  <2>1. PICK r : r = [jobs[j] EXCEPT !.state = "completed"]
    OBVIOUS
  <2>2. /\ r \in JobState /\ r.state = "completed"
        /\ r.failures = jobs[j].failures /\ r.stalls = jobs[j].stalls
    BY <2>1, JobTyped DEF JobState
  <2>3. sent' = sent /\ jobs' = [jobs EXCEPT ![j] = r] /\ jobs[j].state = "active"
    BY <1>2, <2>1 DEF CompleteJob, HoldsLock, Bookkeeping, TypeOK
  <2>4. Fates[j] = "queued"
    BY <2>3 DEF Fates, Fate
  <2>5. Fates' = [Fates EXCEPT ![j] = "delivered"]
    <3>1. Fates' = [Fates EXCEPT ![j] = Fate[r.state]]
      BY <2>2, <2>3, JobShown
    <3>2. Fate[r.state] = "delivered"
      BY <2>2 DEF Fate
    <3> QED BY <3>1, <3>2
  <2>6. Mishaps' = Mishaps /\ Copies' = Copies
    <3>1. \A k \in Job : /\ jobs'[k].failures = jobs[k].failures
                        /\ jobs'[k].stalls = jobs[k].stalls
      BY <2>2, <2>3 DEF Bookkeeping, TypeOK
    <3> QED BY <2>3, <3>1 DEF Mishaps, Copies
  <2>7. Copies[j] > 0
    <3>1. t \in sent[j]
      BY DEF CompleteJob, AllWorked, Worked
    <3>2. Cardinality(sent[j]) \in Nat /\ Cardinality(sent[j]) # 0
      BY <3>1, SendsCounted, FS_EmptySet
    <3> QED BY <3>2 DEF Copies
  <2>8. Promise!Deliver(j)
    BY <2>4, <2>5, <2>6, <2>7 DEF Promise!Deliver
  <2> QED BY <2>8 DEF Promise!Next
<1> QED BY <1>1, <1>2

(* A worker sends one copy, late or in time, and none but it has room for. *)
LEMMA SendShown ==
  ASSUME Bookkeeping, AllWorked, NEW j \in Job, NEW t \in Try, Send(j, t)
  PROVE  Promise!Next
<1>1. /\ t \notin sent[j] /\ sent' = [sent EXCEPT ![j] = @ \cup {t}] /\ jobs' = jobs
      /\ tries[j][t] = "sending"
  BY DEF Send, AllWorked, Worked
<1>2. sent'[j] = sent[j] \cup {t} /\ \A k \in Job : k # j => sent'[k] = sent[k]
  BY <1>1 DEF Bookkeeping, TypeOK
<1>3. Cardinality(sent'[j]) = Cardinality(sent[j]) + 1
  BY <1>1, <1>2, SendsCounted, FS_AddElement
<1>4. Bookkeeping' /\ AllWorked'
  <2>1. ~CompleteJob(j, t) /\ ~RetryJob(j, t) /\ Process(j, t)
    BY <1>1 DEF CompleteJob, RetryJob, Process
  <2> QED BY <2>1, WorkKeepsBookkeeping, WorkKeepsWorked
<1>5. Cardinality(sent'[j]) <= 1 + jobs'[j].failures + jobs'[j].stalls
  <2>1. SendsExplained'
    BY <1>4, SendsFollow, PTL
  <2> QED BY <2>1 DEF SendsExplained
<1>6. Copies[j] <= Mishaps[j]
  BY <1>1, <1>3, <1>5, SendsCounted, JobTyped DEF Copies, Mishaps
<1>7. Copies' = [Copies EXCEPT ![j] = @ + 1]
  <2>1. /\ Copies = [k \in Job |-> Copies[k]] /\ Copies' = [k \in Job |-> Copies'[k]]
        /\ \A k \in Job : k # j => Copies'[k] = Copies[k]
        /\ Copies'[j] = Copies[j] + 1
    BY <1>2, <1>3 DEF Copies
  <2>2. Copies' = [Copies EXCEPT ![j] = Copies'[j]]
    BY <2>1, DifferAt
  <2> QED BY <2>1, <2>2
<1>8. Fates' = Fates /\ Mishaps' = Mishaps
  BY <1>1 DEF Fates, Mishaps
<1>9. Fates[j] # "unqueued"
  <2>1. ~(t > jobs[j].starts)
    BY <1>1 DEF AllWorked, Worked
  <2>2. jobs[j].state # "none"
    BY <2>1, NotificationDeliveryAssumption DEF Bookkeeping, StartsCounted, Try
  <2> QED BY <2>2, JobTyped DEF Fates, Fate, JobState
<1>10. Promise!Send(j)
  BY <1>6, <1>7, <1>8, <1>9 DEF Promise!Send
<1> QED BY <1>10 DEF Promise!Next

(* Every step is one of the promise, or invisible.                         *)
LEMMA PromiseStep ==
  ASSUME Bookkeeping, AllWorked, [Next]_vars
  PROVE  [Promise!Next]_(Promise!promiseVars)
<1>1. ASSUME NEW c \in Creation, Create(c), ~AddJob(c)
      PROVE  UNCHANGED <<jobs, sent>>
  BY <1>1 DEF Create, ReadPreferences, CreateParent, CreateRow, SkipChannel, LogInApp,
              LogQueued, FailChannel, UpdateParent, FailCreation
<1>2. ASSUME NEW j \in Job, NEW t \in Try, Process(j, t) \/ Die(j, t),
             ~Send(j, t), ~CompleteJob(j, t), ~RetryJob(j, t)
      PROVE  UNCHANGED <<jobs, sent>>
  BY <1>2 DEF Process, CreateLog, RefuseLog, SendFails, RecordSent, RecordingFails,
              RecordFailed, ThrowUnrecorded, Die
<1>3. CASE UNCHANGED vars \/ (\E c \in Creation : DeleteParent(c))
             \/ \E d \in Delivery : DeleteRow(d)
  <2>1. UNCHANGED <<jobs, sent>>
    BY <1>3 DEF vars, DeleteParent, DeleteRow
  <2> QED BY <2>1, HiddenStep
<1>4. ASSUME NEW c \in Creation, Create(c)
      PROVE  [Promise!Next]_(Promise!promiseVars)
  BY <1>1, <1>4, AddJobQueues, HiddenStep
<1>5. ASSUME NEW j \in Job, TakeJob(j) \/ Stall(j)
      PROVE  [Promise!Next]_(Promise!promiseVars)
  BY <1>5, TakeJobHidden, StallShown
<1>6. ASSUME NEW j \in Job, NEW t \in Try, Process(j, t) \/ Die(j, t)
      PROVE  [Promise!Next]_(Promise!promiseVars)
  BY <1>2, <1>6, SendShown, CompleteJobShown, RetryJobShown, HiddenStep
<1> QED BY <1>3, <1>4, <1>5, <1>6 DEF Next

(* Whatever creations, workers and the queue do, and however late, is at   *)
(* least one copy before delivery, one more for each mishap at most, and   *)
(* giving up after enough of them.                                         *)
THEOREM DeliversAtLeastOnceHolds == Spec => DeliversAtLeastOnce
<1>1. Init => Promise!Init
  <2> SUFFICES ASSUME Init PROVE Promise!Init
    OBVIOUS
  <2>1. Fates = [j \in Job |-> "unqueued"]
    BY DEF Init, Fates, Fate
  <2>2. Copies = [j \in Job |-> 0] /\ Mishaps = [j \in Job |-> 0]
    BY FS_EmptySet DEF Init, Copies, Mishaps
  <2> QED BY <2>1, <2>2 DEF Promise!Init
<1> QED
  BY <1>1, BookkeepingInit, BookkeepingStep, WorkedInvariant, PromiseStep, PTL
  DEF Spec, DeliversAtLeastOnce, Promise!Spec

-----------------------------------------------------------------------------
(* The channels a notification claims.                                     *)

(* A channel reported sent has its row, and its job if it needs one.       *)
Served(c, ch) ==
  /\ rows[<<c, ch>>] # "unused"
  /\ ch \in External => jobs[<<c, ch>>].state # "none"

(* Everything a creation or its parent row reports sent is served.         *)
Backed ==
  \A c \in Creation :
    /\ \A ch \in creations[c].successes : Served(c, ch)
    /\ parents[c] # NoRow => \A ch \in parents[c].channelsSent : Served(c, ch)

(* What a creation may touch.                                              *)
LEMMA CreateFootprint ==
  ASSUME Bookkeeping, NEW c \in Creation, Create(c)
  PROVE  /\ rows' = rows \/ \E d \in Delivery : rows' = [rows EXCEPT ![d] = "exists"]
         /\ jobs' = jobs \/ jobs' = [jobs EXCEPT ![Current(c)].state = "waiting"]
         /\ \/ parents' = parents
            \/ parents' = [parents EXCEPT ![c] = [channelsSent |-> {}]]
            \/ parents' = [parents EXCEPT ![c] = [channelsSent |-> creations[c].successes]]
         /\ \A b \in Creation : b # c => creations'[b] = creations[b]
         /\ ~LogInApp(c) /\ ~AddJob(c) => creations'[c].successes = creations[c].successes
<1> USE DEF Bookkeeping, TypeOK, CreationState
<1>1. ASSUME NEW enabled \in SUBSET Channel, ReadPreferences(c, enabled)
      PROVE  /\ UNCHANGED <<rows, jobs, parents>>
             /\ \A b \in Creation : creations'[b].successes = creations[b].successes
             /\ \A b \in Creation : b # c => creations'[b] = creations[b]
  BY <1>1 DEF ReadPreferences
<1>2. CASE CreateParent(c)
  BY <1>2 DEF CreateParent, Goto
<1>3. ASSUME NEW ch \in Channel, CreateRow(c, ch)
      PROVE  /\ \E d \in Delivery : rows' = [rows EXCEPT ![d] = "exists"]
             /\ UNCHANGED <<jobs, parents>>
             /\ \A b \in Creation : creations'[b].successes = creations[b].successes
             /\ \A b \in Creation : b # c => creations'[b] = creations[b]
  <2>1. <<c, ch>> \in Delivery
    BY DEF Delivery
  <2> QED BY <1>3, <2>1 DEF CreateRow
<1>4. ASSUME NEW ch \in Channel, SkipChannel(c, ch)
      PROVE  /\ UNCHANGED <<rows, jobs, parents>>
             /\ \A b \in Creation : creations'[b].successes = creations[b].successes
             /\ \A b \in Creation : b # c => creations'[b] = creations[b]
  BY <1>4 DEF SkipChannel, NextChannel
<1>5. CASE LogInApp(c)
  BY <1>5 DEF LogInApp, NextChannel
<1>6. CASE LogQueued(c)
  BY <1>6 DEF LogQueued, Goto
<1>7. CASE AddJob(c)
  <2>1. PICK answered \in BOOLEAN : NextChannel(c, creations[c].channel, answered)
    BY <1>7 DEF AddJob
  <2> QED BY <1>7, <2>1 DEF AddJob, NextChannel
<1>8. CASE FailChannel(c)
  BY <1>8 DEF FailChannel, NextChannel
<1>9. CASE UpdateParent(c)
  BY <1>9 DEF UpdateParent, Goto
<1>10. CASE FailCreation(c)
  BY <1>10 DEF FailCreation, Goto
<1> HIDE DEF Bookkeeping, TypeOK, CreationState
<1> QED BY <1>1, <1>2, <1>3, <1>4, <1>5, <1>6, <1>7, <1>8, <1>9, <1>10 DEF Create

(* What every other step may touch.                                        *)
LEMMA OtherFootprint ==
  ASSUME Bookkeeping, [Next]_vars, ~\E c \in Creation : Create(c)
  PROVE  /\ rows' = rows \/ \E d \in Delivery : rows' = [rows EXCEPT ![d] = "gone"]
         /\ \A j \in Job : jobs[j].state # "none" => jobs'[j].state # "none"
         /\ parents' = parents \/ \E c \in Creation : parents' = [parents EXCEPT ![c] = NoRow]
         /\ creations' = creations
<1>t. jobs \in [Job -> JobState]
  BY DEF Bookkeeping, TypeOK
<1>1. ASSUME NEW c \in Creation, DeleteParent(c)
      PROVE  UNCHANGED <<rows, jobs, creations>> /\ parents' = [parents EXCEPT ![c] = NoRow]
  BY <1>1 DEF DeleteParent
<1>2. ASSUME NEW d \in Delivery, DeleteRow(d)
      PROVE  UNCHANGED <<parents, jobs, creations>> /\ rows' = [rows EXCEPT ![d] = "gone"]
  BY <1>2 DEF DeleteRow
<1>3. ASSUME NEW j \in Job, TakeJob(j) \/ Stall(j)
      PROVE  /\ UNCHANGED <<parents, rows, creations>>
             /\ \A k \in Job : jobs[k].state # "none" => jobs'[k].state # "none"
  BY <1>3, <1>t DEF TakeJob, Stall, JobState
<1>4. ASSUME NEW j \in Job, NEW t \in Try, CompleteJob(j, t) \/ RetryJob(j, t)
      PROVE  /\ UNCHANGED <<parents, rows, creations>>
             /\ \A k \in Job : jobs[k].state # "none" => jobs'[k].state # "none"
  BY <1>4, <1>t DEF CompleteJob, RetryJob, JobState
<1>5. ASSUME NEW j \in Job, NEW t \in Try, Process(j, t) \/ Die(j, t)
      PROVE  /\ UNCHANGED <<parents, rows, creations>>
             /\ \A k \in Job : jobs[k].state # "none" => jobs'[k].state # "none"
  BY <1>4, <1>5, WorkKeepsBookkeeping
<1>6. CASE UNCHANGED vars
  BY <1>6 DEF vars
<1> QED BY <1>1, <1>2, <1>3, <1>5, <1>6 DEF Next

(* A channel once served stays so: rows and jobs are not forgotten.        *)
LEMMA ServedStays ==
  ASSUME Bookkeeping, [Next]_vars, NEW c \in Creation, NEW ch \in Channel, Served(c, ch)
  PROVE  Served(c, ch)'
<1>1. PICK d : d = <<c, ch>>
  OBVIOUS
<1>2. d \in Delivery /\ (ch \in External => d \in Job)
  BY <1>1 DEF Delivery, Job
<1>3. rows'[d] # "unused" /\ (ch \in External => jobs'[d].state # "none")
  <2>1. ASSUME NEW b \in Creation, Create(b)
        PROVE  rows'[d] # "unused" /\ (ch \in External => jobs'[d].state # "none")
    <3>1. rows'[d] # "unused"
      BY <1>1, <1>2, <2>1, CreateFootprint DEF Served, Bookkeeping, TypeOK
    <3>2. jobs \in [Job -> JobState]
      BY DEF Bookkeeping, TypeOK
    <3>3. jobs' = jobs \/ jobs' = [jobs EXCEPT ![Current(b)].state = "waiting"]
      BY <2>1, CreateFootprint
    <3>4. ASSUME ch \in External PROVE jobs'[d].state # "none"
      BY <1>1, <1>2, <3>2, <3>3, <3>4 DEF Served, JobState
    <3> QED BY <3>1, <3>4
  <2>2. ASSUME ~\E b \in Creation : Create(b)
        PROVE  rows'[d] # "unused" /\ (ch \in External => jobs'[d].state # "none")
    BY <1>1, <1>2, <2>2, OtherFootprint DEF Served, Bookkeeping, TypeOK
  <2> QED BY <2>1, <2>2
<1> QED BY <1>1, <1>3 DEF Served

(* Successes and claims are backed at every step.                          *)
LEMMA BackedStep == Bookkeeping /\ Backed /\ [Next]_vars => Backed'
<1> SUFFICES ASSUME Bookkeeping, Backed, [Next]_vars, NEW c \in Creation
             PROVE  /\ \A ch \in creations'[c].successes : Served(c, ch)'
                    /\ parents'[c] # NoRow => \A ch \in parents'[c].channelsSent : Served(c, ch)'
  BY DEF Backed
<1>1. /\ creations[c].successes \subseteq Channel
      /\ parents[c] # NoRow => parents[c].channelsSent \subseteq Channel
  BY CreationTyped DEF Bookkeeping, TypeOK, ParentRow
<1>2. /\ \A ch \in creations[c].successes : Served(c, ch)'
      /\ parents[c] # NoRow => \A ch \in parents[c].channelsSent : Served(c, ch)'
  BY <1>1, ServedStays DEF Backed
<1>3. ASSUME LogInApp(c)
      PROVE  \A ch \in creations'[c].successes : Served(c, ch)'
  <2>1. /\ NextChannel(c, InApp, TRUE) /\ rows'[<<c, InApp>>] = "exists"
    BY <1>3 DEF LogInApp, Exists, Current
  <2>2. creations'[c].successes = creations[c].successes \cup {InApp}
    BY <2>1 DEF NextChannel, Bookkeeping, TypeOK, CreationState
  <2>3. Served(c, InApp)'
    BY <2>1, NotificationDeliveryAssumption DEF Served
  <2> QED BY <1>2, <2>2, <2>3
<1>4. ASSUME AddJob(c)
      PROVE  \A ch \in creations'[c].successes : Served(c, ch)'
  <2>1. PICK x : x = creations[c].channel
    OBVIOUS
  <2>2. /\ Current(c) = <<c, x>> /\ Current(c) \in Job
        /\ rows'[<<c, x>>] # "unused"
        /\ jobs' = [jobs EXCEPT ![<<c, x>>].state = "waiting"]
    BY <1>4, <2>1, CreationTyped DEF AddJob, Creating, Bookkeeping, NothingAhead, Current
  <2>3. creations'[c].successes \subseteq creations[c].successes \cup {x}
    <3>1. PICK answered \in BOOLEAN : NextChannel(c, x, answered)
      BY <1>4, <2>1 DEF AddJob
    <3> QED BY <3>1 DEF NextChannel, Bookkeeping, TypeOK, CreationState
  <2>4. Served(c, x)'
    BY <2>2 DEF Served, Bookkeeping, TypeOK, JobState
  <2> QED BY <1>2, <2>3, <2>4
<1>5. CASE \E b \in Creation : Create(b)
  <2>1. PICK b \in Creation : Create(b)
    BY <1>5
  <2>2. \A ch \in creations'[c].successes : Served(c, ch)'
    <3>1. CASE b = c /\ ~LogInApp(c) /\ ~AddJob(c)
      BY <1>2, <2>1, <3>1, CreateFootprint
    <3>2. CASE b # c
      BY <1>2, <2>1, <3>2, CreateFootprint
    <3> QED BY <1>3, <1>4, <3>1, <3>2
  <2>3. \/ parents'[c] = parents[c]
        \/ parents'[c] = [channelsSent |-> {}]
        \/ parents'[c] = [channelsSent |-> creations[c].successes]
    BY <2>1, CreateFootprint DEF Bookkeeping, TypeOK
  <2> QED BY <1>2, <2>2, <2>3
<1>6. CASE ~\E b \in Creation : Create(b)
  <2>1. creations' = creations /\ (parents'[c] = parents[c] \/ parents'[c] = NoRow)
    BY <1>6, OtherFootprint DEF Bookkeeping, TypeOK
  <2> QED BY <1>2, <2>1
<1> QED BY <1>5, <1>6

(* A channel a notification names was served, whatever failed meanwhile.   *)
THEOREM ClaimsAreBackedHolds == Spec => []ClaimsAreBacked
<1>1. Init => Backed
  BY DEF Init, Backed
<1>2. Backed => ClaimsAreBacked
  BY DEF Backed, Served, ClaimsAreBacked
<1> QED BY <1>1, <1>2, BackedStep, BookkeepingInit, BookkeepingStep, PTL DEF Spec

=============================================================================
