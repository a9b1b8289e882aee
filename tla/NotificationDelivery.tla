------------------------- MODULE NotificationDelivery -------------------------
(***************************************************************************)
(* From a notification to the vendors that mail or text it: the rows and   *)
(* logs that NotificationService.create and the channels write, the BullMQ *)
(* jobs they queue, and the attempts of the queue processors to work these *)
(* off (src/src/notifications).                                            *)
(*                                                                         *)
(* A creation writes one row of its own and every channel another one; a   *)
(* job belongs to the row of its channel.  BullMQ gives a job to a worker  *)
(* that holds a lock on it; when the lock runs out, because the worker     *)
(* died or only was slow, the job stalls and is given to another one, and  *)
(* what the first one reports afterwards is refused.                       *)
(***************************************************************************)
EXTENDS Naturals, FiniteSets

CONSTANTS
  Creation,   \* calls of NotificationService.create
  InApp,      \* the channel that is served at once
  External,   \* the channels that are queued: email and SMS
  Attempts,   \* maxRetries: how often a job may fail before it is given up
  MaxStalls,  \* how often a job may stall before BullMQ gives it up
  NoRow       \* no such notification, not yet or not any more

Channel == {InApp} \cup External
ParentRow == [channelsSent : SUBSET Channel]

ASSUME NotificationDeliveryAssumption ==
  /\ InApp \notin External
  /\ Attempts \in Nat \ {0}
  /\ MaxStalls \in Nat
  /\ NoRow \notin ParentRow

Job == Creation \X External
Delivery == Creation \X Channel

(* Workers that take one job, one after the other; 0 stands for the channel.*)
Try == 1 .. (Attempts + MaxStalls)
Author == {0} \cup Try

LogStatus == {"PENDING", "SENT", "FAILED"}
JobState == [state : {"none", "waiting", "active", "completed", "failed"},
             failures : 0 .. Attempts, stalls : 0 .. (MaxStalls + 1),
             starts : 0 .. (Attempts + MaxStalls)]
CreationState == [step : {"new", "creating", "channel", "logging", "queueing", "returned"},
                  todo : SUBSET Channel, channel : Channel, successes : SUBSET Channel]
TryStep == {"none", "logging", "sending", "recording", "failing", "done", "thrown", "over"}

VARIABLES
  parents,    \* the row each creation writes
  rows,       \* which channels have a row of their own
  logs,       \* the delivery logs of these rows
  jobs,       \* the BullMQ jobs
  creations,  \* what each creation is doing
  tries,      \* what each worker of each job is doing
  sent        \* history: which tries the vendor accepted

vars == <<parents, rows, logs, jobs, creations, tries, sent>>

-----------------------------------------------------------------------------
NoLog == "none"

Exists(d) == rows[d] = "exists"

TypeOK ==
  /\ parents \in [Creation -> ParentRow \cup {NoRow}]
  /\ rows \in [Delivery -> {"unused", "exists", "gone"}]
  /\ logs \in [Delivery -> [Author -> LogStatus \cup {NoLog}]]
  /\ jobs \in [Job -> JobState]
  /\ creations \in [Creation -> CreationState]
  /\ tries \in [Job -> [Try -> TryStep]]
  /\ sent \in [Job -> SUBSET Try]

Init ==
  /\ parents = [c \in Creation |-> NoRow]
  /\ rows = [d \in Delivery |-> "unused"]
  /\ logs = [d \in Delivery |-> [a \in Author |-> NoLog]]
  /\ jobs = [j \in Job |-> [state |-> "none", failures |-> 0, stalls |-> 0, starts |-> 0]]
  /\ creations = [c \in Creation |-> [step |-> "new", todo |-> {}, channel |-> InApp,
                                     successes |-> {}]]
  /\ tries = [j \in Job |-> [t \in Try |-> "none"]]
  /\ sent = [j \in Job |-> {}]

-----------------------------------------------------------------------------
(* Where a creation and a worker stand.                                    *)

Creating(c, step) == creations[c].step = step
Current(c) == <<c, creations[c].channel>>

Goto(c, step) == creations' = [creations EXCEPT ![c].step = step]

(* The channels whose turn it is: the in-app channel comes first, the      *)
(* others in either order.                                                 *)
Turn(c) ==
  IF InApp \in creations[c].todo THEN {InApp} ELSE creations[c].todo

(* The loop over the channels goes on without a channel, or with its       *)
(* success.                                                                *)
NextChannel(c, ch, success) ==
  creations' = [creations EXCEPT
    ![c].step = "channel",
    ![c].todo = @ \ {ch},
    ![c].successes = IF success THEN @ \cup {ch} ELSE @]

HoldsLock(j, t) == jobs[j].state = "active" /\ jobs[j].starts = t

Advance(j, t, step) == tries' = [tries EXCEPT ![j][t] = step]

-----------------------------------------------------------------------------
(* Plausible mistakes in the handlers below, for mutation checks.          *)

(* A failure result that counts as success.                                *)
FailChannelCounted(c) ==
  /\ Creating(c, "logging") \/ Creating(c, "queueing")
  /\ NextChannel(c, creations[c].channel, TRUE)
  /\ UNCHANGED <<parents, rows, logs, jobs, tries, sent>>

(* A queue that forgets jobs that failed once.                             *)
TakeJobOnce(j) ==
  /\ jobs[j].state = "waiting" /\ jobs[j].starts = 0
  /\ jobs' = [jobs EXCEPT ![j].state = "active", ![j].starts = @ + 1]
  /\ Advance(j, jobs[j].starts + 1, "logging")
  /\ UNCHANGED <<parents, rows, logs, creations, sent>>

(* A refusal that is answered, not thrown, and not looked at.              *)
SendFailsUnchecked(j, t) ==
  /\ tries[j][t] = "sending"
  /\ Advance(j, t, "recording")
  /\ UNCHANGED <<parents, rows, logs, jobs, creations, sent>>

(* A handler that records the error and swallows it.                       *)
RecordFailedSwallowed(j, t) ==
  /\ tries[j][t] = "failing"
  /\ Exists(j)
  /\ logs' = [logs EXCEPT ![j][t] = "FAILED"]
  /\ Advance(j, t, "done")
  /\ UNCHANGED <<parents, rows, jobs, creations, sent>>

(* A retry policy that is off by one.                                      *)
RetryJobOnceLess(j, t) ==
  /\ tries[j][t] = "thrown"
  /\ jobs' = IF HoldsLock(j, t)
             THEN [jobs EXCEPT
                    ![j].failures = @ + 1,
                    ![j].state = IF jobs[j].failures + 2 < Attempts THEN "waiting" ELSE "failed"]
             ELSE jobs
  /\ Advance(j, t, "over")
  /\ UNCHANGED <<parents, rows, logs, creations, sent>>

-----------------------------------------------------------------------------
(* NotificationService.create *)

(* The user's preferences are read once, at the start.                     *)
ReadPreferences(c, enabled) ==
  /\ Creating(c, "new")
  /\ creations' = [creations EXCEPT ![c].step = "creating", ![c].todo = enabled]
  /\ UNCHANGED <<parents, rows, logs, jobs, tries, sent>>

CreateParent(c) ==
  /\ Creating(c, "creating")
  /\ parents' = [parents EXCEPT ![c] = [channelsSent |-> {}]]
  /\ Goto(c, "channel")
  /\ UNCHANGED <<rows, logs, jobs, tries, sent>>

(* A channel's own row, which names the channel as sent ...                *)
CreateRow(c, ch) ==
  /\ Creating(c, "channel")
  /\ ch \in Turn(c)
  /\ rows' = [rows EXCEPT ![<<c, ch>>] = "exists"]
  /\ creations' = [creations EXCEPT ![c].step = "logging", ![c].channel = ch]
  /\ UNCHANGED <<parents, logs, jobs, tries, sent>>

(* ... its log, by which an in-app notification is delivered ...           *)
LogInApp(c) ==
  /\ Creating(c, "logging")
  /\ creations[c].channel = InApp
  /\ Exists(Current(c))
  /\ logs' = [logs EXCEPT ![Current(c)][0] = "SENT"]
  /\ NextChannel(c, InApp, TRUE)
  /\ UNCHANGED <<parents, rows, jobs, tries, sent>>

LogQueued(c) ==
  /\ Creating(c, "logging")
  /\ creations[c].channel \in External
  /\ Exists(Current(c))
  /\ logs' = [logs EXCEPT ![Current(c)][0] = "PENDING"]
  /\ Goto(c, "queueing")
  /\ UNCHANGED <<parents, rows, jobs, tries, sent>>

(* ... and a job, of which Redis may or may not tell that it is there.     *)
AddJob(c) ==
  /\ Creating(c, "queueing")
  /\ jobs' = [jobs EXCEPT ![Current(c)].state = "waiting"]
  /\ \E answered \in BOOLEAN : NextChannel(c, creations[c].channel, answered)
  /\ UNCHANGED <<parents, rows, logs, tries, sent>>

(* A channel that is not available, a payload it does not accept and a user*)
(* without an address end this channel only ...                            *)
SkipChannel(c, ch) ==
  /\ Creating(c, "channel")
  /\ ch \in Turn(c)
  /\ NextChannel(c, ch, FALSE)
  /\ UNCHANGED <<parents, rows, logs, jobs, tries, sent>>

(* ... and so does every error.                                            *)
FailChannel(c) ==
  /\ Creating(c, "logging") \/ Creating(c, "queueing")
  /\ NextChannel(c, creations[c].channel, FALSE)
  /\ UNCHANGED <<parents, rows, logs, jobs, tries, sent>>

UpdateParent(c) ==
  /\ Creating(c, "channel")
  /\ creations[c].todo = {}
  /\ parents[c] # NoRow
  /\ parents' = [parents EXCEPT ![c] = [channelsSent |-> creations[c].successes]]
  /\ Goto(c, "returned")
  /\ UNCHANGED <<rows, logs, jobs, tries, sent>>

(* An error outside the loop, or the process dies.                         *)
FailCreation(c) ==
  /\ ~Creating(c, "returned")
  /\ Goto(c, "returned")
  /\ UNCHANGED <<parents, rows, logs, jobs, tries, sent>>

-----------------------------------------------------------------------------
(* Rows go: the retention job deletes them one by one, deleting their user *)
(* or tenant does; the logs go with them.                                  *)

DeleteParent(c) ==
  /\ parents[c] # NoRow
  /\ parents' = [parents EXCEPT ![c] = NoRow]
  /\ UNCHANGED <<rows, logs, jobs, creations, tries, sent>>

DeleteRow(d) ==
  /\ Exists(d)
  /\ rows' = [rows EXCEPT ![d] = "gone"]
  /\ logs' = [logs EXCEPT ![d] = [a \in Author |-> NoLog]]
  /\ UNCHANGED <<parents, jobs, creations, tries, sent>>

-----------------------------------------------------------------------------
(* What BullMQ does with a job: start it, retry it, give it up.            *)

TakeJob(j) ==
  /\ jobs[j].state = "waiting"
  /\ jobs' = [jobs EXCEPT ![j].state = "active", ![j].starts = @ + 1]
  /\ Advance(j, jobs[j].starts + 1, "logging")
  /\ UNCHANGED <<parents, rows, logs, creations, sent>>

(* The lock runs out.                                                      *)
Stall(j) ==
  /\ jobs[j].state = "active"
  /\ jobs' = [jobs EXCEPT
       ![j].state = IF jobs[j].stalls < MaxStalls THEN "waiting" ELSE "failed",
       ![j].stalls = @ + 1]
  /\ UNCHANGED <<parents, rows, logs, creations, tries, sent>>

(* The processor returned.                                                 *)
CompleteJob(j, t) ==
  /\ tries[j][t] = "done"
  /\ jobs' = IF HoldsLock(j, t) THEN [jobs EXCEPT ![j].state = "completed"] ELSE jobs
  /\ Advance(j, t, "over")
  /\ UNCHANGED <<parents, rows, logs, creations, sent>>

(* The processor threw: the job waits for its backoff, or has used up its  *)
(* attempts.                                                               *)
RetryJob(j, t) ==
  /\ tries[j][t] = "thrown"
  /\ jobs' = IF HoldsLock(j, t)
             THEN [jobs EXCEPT
                    ![j].failures = @ + 1,
                    ![j].state = IF jobs[j].failures + 1 < Attempts THEN "waiting" ELSE "failed"]
             ELSE jobs
  /\ Advance(j, t, "over")
  /\ UNCHANGED <<parents, rows, logs, creations, sent>>

-----------------------------------------------------------------------------
(* process of the email and the SMS processor *)

(* The log of this attempt, unless the notification is gone.               *)
CreateLog(j, t) ==
  /\ tries[j][t] = "logging"
  /\ Exists(j)
  /\ logs' = [logs EXCEPT ![j][t] = "PENDING"]
  /\ Advance(j, t, "sending")
  /\ UNCHANGED <<parents, rows, jobs, creations, sent>>

(* A refused log is thrown before anything is sent.                        *)
RefuseLog(j, t) ==
  /\ tries[j][t] = "logging"
  /\ Advance(j, t, "thrown")
  /\ UNCHANGED <<parents, rows, logs, jobs, creations, sent>>

(* The vendor accepts the message; the answer may get lost.                *)
Send(j, t) ==
  /\ tries[j][t] = "sending"
  /\ sent' = [sent EXCEPT ![j] = @ \cup {t}]
  /\ \E outcome \in {"recording", "failing"} : Advance(j, t, outcome)
  /\ UNCHANGED <<parents, rows, logs, jobs, creations>>

(* No provider, no template, or the vendor refuses.                        *)
SendFails(j, t) ==
  /\ tries[j][t] = "sending"
  /\ Advance(j, t, "failing")
  /\ UNCHANGED <<parents, rows, logs, jobs, creations, sent>>

RecordSent(j, t) ==
  /\ tries[j][t] = "recording"
  /\ Exists(j)
  /\ logs' = [logs EXCEPT ![j][t] = "SENT"]
  /\ \E outcome \in {"done", "failing"} : Advance(j, t, outcome)
  /\ UNCHANGED <<parents, rows, jobs, creations, sent>>

(* A message that was sent but not recorded counts as a failed attempt.    *)
RecordingFails(j, t) ==
  /\ tries[j][t] = "recording"
  /\ Advance(j, t, "failing")
  /\ UNCHANGED <<parents, rows, logs, jobs, creations, sent>>

(* The handler of the error records FAILED and throws again; it throws as  *)
(* well if it cannot.                                                      *)
RecordFailed(j, t) ==
  /\ tries[j][t] = "failing"
  /\ Exists(j)
  /\ logs' = [logs EXCEPT ![j][t] = "FAILED"]
  /\ Advance(j, t, "thrown")
  /\ UNCHANGED <<parents, rows, jobs, creations, sent>>

ThrowUnrecorded(j, t) ==
  /\ tries[j][t] = "failing"
  /\ Advance(j, t, "thrown")
  /\ UNCHANGED <<parents, rows, logs, jobs, creations, sent>>

(* The worker's process dies.                                              *)
Die(j, t) ==
  /\ tries[j][t] \notin {"none", "over"}
  /\ Advance(j, t, "over")
  /\ UNCHANGED <<parents, rows, logs, jobs, creations, sent>>

-----------------------------------------------------------------------------
Create(c) ==
  \/ \E enabled \in SUBSET Channel : ReadPreferences(c, enabled)
  \/ CreateParent(c)
  \/ \E ch \in Channel : CreateRow(c, ch) \/ SkipChannel(c, ch)
  \/ LogInApp(c)
  \/ LogQueued(c)
  \/ AddJob(c)
  \/ FailChannel(c)
  \/ UpdateParent(c)
  \/ FailCreation(c)

(* A step of a worker that is alive.                                       *)
Process(j, t) ==
  \/ CreateLog(j, t)
  \/ RefuseLog(j, t)
  \/ Send(j, t)
  \/ SendFails(j, t)
  \/ RecordSent(j, t)
  \/ RecordingFails(j, t)
  \/ RecordFailed(j, t)
  \/ ThrowUnrecorded(j, t)
  \/ CompleteJob(j, t)
  \/ RetryJob(j, t)

Next ==
  \/ \E c \in Creation : Create(c) \/ DeleteParent(c)
  \/ \E d \in Delivery : DeleteRow(d)
  \/ \E j \in Job :
       \/ TakeJob(j)
       \/ Stall(j)
       \/ \E t \in Try : Process(j, t) \/ Die(j, t)

Spec == Init /\ [][Next]_vars

(* Workers run, answer or die, and BullMQ looks for jobs whose lock ran out.*)
FairSpec ==
  /\ Spec
  /\ \A j \in Job :
       /\ WF_vars(TakeJob(j))
       /\ WF_vars(Stall(j))
       /\ \A t \in Try : WF_vars(Process(j, t))

-----------------------------------------------------------------------------
(* What delivery guarantees *)

(* requirements.md:99-100 of the notification system: whatever a vendor    *)
(* accepted has a log, and a log that says SENT was accepted by a vendor - *)
(* across retries, stalls, slow workers and crashes.                       *)
LogsMatchSends ==
  \A j \in Job, t \in Try : Exists(j) =>
    /\ t \in sent[j] => logs[j][t] # NoLog
    /\ logs[j][t] = "SENT" => t \in sent[j]

(* A job counts as done only if the try that ended it recorded SENT.  A    *)
(* slow worker that lost its lock cannot end the job of its successor.     *)
CompletedWasSent ==
  \A j \in Job :
    jobs[j].state = "completed" =>
      /\ jobs[j].starts \in sent[j]
      /\ Exists(j) => logs[j][jobs[j].starts] = "SENT"

(* The channels a notification says it went out by were served: each has a *)
(* row of its own and, unless it is in-app, a job.  What failed meanwhile  *)
(* on other channels, or was queued without an answer, does not matter.    *)
ClaimsAreBacked ==
  \A c \in Creation : parents[c] # NoRow =>
    \A ch \in parents[c].channelsSent :
      /\ rows[<<c, ch>>] # "unused"
      /\ ch \in External => jobs[<<c, ch>>].state # "none"

(* A user gets a message twice only if an attempt failed or stalled.  It   *)
(* follows from DeliversAtLeastOnce below, so no run repeats it.           *)
SendsExplained ==
  \A j \in Job : Cardinality(sent[j]) <= 1 + jobs[j].failures + jobs[j].stalls

(* A message is queued as long as BullMQ may start its job again, and given*)
(* up after Attempts failures or one stall more than MaxStalls.            *)
Fate ==
  [none |-> "unqueued", waiting |-> "queued", active |-> "queued",
   completed |-> "delivered", failed |-> "abandoned"]

Fates == [j \in Job |-> Fate[jobs[j].state]]
Copies == [j \in Job |-> Cardinality(sent[j])]
Mishaps == [j \in Job |-> jobs[j].failures + jobs[j].stalls]

Promise == INSTANCE AtLeastOnce WITH
  Message <- Job,
  Patience <- IF Attempts <= MaxStalls THEN Attempts ELSE MaxStalls + 1,
  MaxMishaps <- Attempts + MaxStalls,
  fate <- Fates, copies <- Copies, mishaps <- Mishaps

(* Queueing, the workers and the locks implement at-least-once delivery:   *)
(* no step of a creation, a worker or BullMQ, early or late, delivers a    *)
(* message that was not sent, sends one copy too many, gives a message up  *)
(* too early, or changes what has become of a message that ended.          *)
DeliversAtLeastOnce == Promise!Spec

(* A queued message is sent or given up in the end.                        *)
JobsEnd ==
  \A j \in Job : jobs[j].state = "waiting" ~> jobs[j].state \in {"completed", "failed"}

=============================================================================
