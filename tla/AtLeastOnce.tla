----------------------------- MODULE AtLeastOnce -----------------------------
(***************************************************************************)
(* What the queues of the notification component promise of a message,     *)
(* without workers, locks, logs and rows: it is sent at least once before  *)
(* it counts as delivered, again only if something went wrong, and given   *)
(* up only after enough went wrong.  Module NotificationDelivery           *)
(* implements this.                                                        *)
(***************************************************************************)
EXTENDS Naturals

CONSTANTS
  Message,
  Patience,   \* so much must go wrong before a message may be given up
  MaxMishaps  \* and this much is the end of it

VARIABLES
  fate,     \* what has become of each message
  copies,   \* how often the vendor accepted it
  mishaps   \* how often an attempt failed or was taken for dead

promiseVars == <<fate, copies, mishaps>>

Init ==
  /\ fate = [m \in Message |-> "unqueued"]
  /\ copies = [m \in Message |-> 0]
  /\ mishaps = [m \in Message |-> 0]

Queue(m) ==
  /\ fate[m] = "unqueued"
  /\ fate' = [fate EXCEPT ![m] = "queued"]
  /\ UNCHANGED <<copies, mishaps>>

(* One copy, and another one for each mishap.  An attempt that was taken   *)
(* for dead may send its copy when all is over.                            *)
Send(m) ==
  /\ fate[m] # "unqueued"
  /\ copies[m] <= mishaps[m]
  /\ copies' = [copies EXCEPT ![m] = @ + 1]
  /\ UNCHANGED <<fate, mishaps>>

Deliver(m) ==
  /\ fate[m] = "queued"
  /\ copies[m] > 0
  /\ fate' = [fate EXCEPT ![m] = "delivered"]
  /\ UNCHANGED <<copies, mishaps>>

(* The message is tried again ...                                          *)
Mishap(m) ==
  /\ fate[m] = "queued"
  /\ mishaps[m] + 1 < MaxMishaps
  /\ mishaps' = [mishaps EXCEPT ![m] = @ + 1]
  /\ UNCHANGED <<fate, copies>>

(* ... or this was the last time.                                          *)
GiveUp(m) ==
  /\ fate[m] = "queued"
  /\ mishaps[m] + 1 \in Patience .. MaxMishaps
  /\ mishaps' = [mishaps EXCEPT ![m] = @ + 1]
  /\ fate' = [fate EXCEPT ![m] = "abandoned"]
  /\ UNCHANGED copies

Next ==
  \E m \in Message : Queue(m) \/ Send(m) \/ Deliver(m) \/ Mishap(m) \/ GiveUp(m)

Spec == Init /\ [][Next]_promiseVars

=============================================================================
