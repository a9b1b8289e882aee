---------------------------- MODULE InboxProofs ----------------------------
(* Proofs about Inbox, for any users, creations, broadcasts and sockets.   *)
EXTENDS Inbox, FiniteSetTheorems, TLAPS

-----------------------------------------------------------------------------
(* The inductive invariant *)

(* The creation of a row has written it and will not write it again.       *)
Spent(n) ==
  /\ creations[n[1]].step \notin {"new", "storing"}
  /\ n[2] \notin creations[n[1]].todo

(* A row belongs to the user of its creation and expires when that says;   *)
(* the external channels come after the one in the application, so that    *)
(* none has written before that one is done.                               *)
RowsHaveCreations ==
  \A n \in Stored :
    /\ Spent(n)
    /\ rows[n].user = creations[n[1]].user /\ rows[n].expires = creations[n[1]].expires
    /\ n[2] \in External =>
         InApp \notin creations[n[1]].todo /\ creations[n[1]].step \notin {"counting", "pushing"}

(* The rows of a user who has done nothing are as they were inserted.      *)
UntouchedAreNew ==
  \A n \in Stored : rows[n].user \notin history.touched =>
    ~rows[n].read /\ ~rows[n].dismissed /\ rows[n].retention = None

(* The service's own row stays, unless its user does something.            *)
ServiceRowsStay ==
  \A c \in Creation :
    creations[c].step \notin {"new", "storing", "thrown"} /\ creations[c].user \notin history.touched =>
      <<c, Service>> \in Stored

(* A broadcast has created for whom it listed and has not to come to, and  *)
(* with its own date of expiry.                                            *)
BroadcastsCover ==
  \A b \in Broadcast :
    /\ \A u \in broadcasts[b].listed \ broadcasts[b].todo :
         \E c \in Creation : creations[c].by = b /\ creations[c].user = u /\ creations[c].step # "new"
    /\ broadcasts[b].step = "ended" =>
         broadcasts[b].todo = {} /\ \A c \in Creation : creations[c].by = b => ~Active(c)
    /\ \A c \in Creation : creations[c].by = b =>
         broadcasts[b].step # "new" /\ creations[c].expires = broadcasts[b].expires

(* What the retention job found is still due, if it is there and nobody    *)
(* changed it.                                                             *)
FoundAreDue ==
  found # None => \A f \in found :
    /\ Spent(f[1])
    /\ f[1] \in Stored /\ f[1] \notin history.changed => Due(f[1]) /\ rows[f[1]].sensitive = f[2]

(* The rows can be counted.                                                *)
FinitelyMany == IsFiniteSet(Stored)

(* How far a socket's handler got says what is known of the socket, and a  *)
(* closed one has been told nothing.                                       *)
Sound(s) ==
  /\ sockets[s].step \in {"new", "checking"} => sockets[s].user = None /\ sockets[s].count = None
  /\ sockets[s].step = "joining" => sockets[s].user \in User
  /\ sockets[s].step # "done" => sockets[s].closed # "late"
  /\ ~Up(s) => sockets[s].count = None

(* What the map names went through the handler and was not closed after    *)
(* that; two live sockets make their user one who reconnected, and the     *)
(* open socket of any other is known once its handler is done.             *)
SocketsKnown ==
  /\ \A s \in Socket : Sound(s)
  /\ \A u \in User : connected[u] # None =>
       /\ sockets[connected[u]].user = u /\ sockets[connected[u]].step = "done"
       /\ sockets[connected[u]].closed # "late"
  /\ \A s, t \in Socket, u \in User :
       sockets[s].user = u /\ sockets[t].user = u /\ Live(s) /\ Live(t) /\ s # t =>
         u \in history.reconnected
  /\ \A s \in Socket, u \in User :
       sockets[s].user = u /\ Up(s) /\ sockets[s].step = "done" /\ u \notin history.reconnected =>
         connected[u] = s

(* Only a user marked as crowded has two creations at once.                *)
OneAtATime ==
  \A c, d \in Creation :
    Active(c) /\ Active(d) /\ creations[c].user = creations[d].user /\ c # d =>
      creations[c].user \in history.crowded

(* No count that was taken or told is ahead of the rows.                   *)
CountsBehind ==
  \A u \in User \ history.touched :
    /\ \A c \in Creation : creations[c].user = u /\ creations[c].step = "pushing" =>
         creations[c].count <= Cardinality(Of(u))
    /\ \A s \in Socket : sockets[s].user = u /\ sockets[s].count # None =>
         sockets[s].count <= Cardinality(Of(u))

(* What a user's sockets were told is all but what the external channels   *)
(* wrote for the creation that was pushed last.                            *)
Late(u) == {<<history.last[u], ch>> : ch \in External}
Regular(u) ==
  /\ u \notin history.touched \cup history.unpushed \cup history.crowded
  /\ \A n \in Of(u) : ~Lapsed(n)
Told(u) ==
  \A s \in Socket : sockets[s].user = u /\ sockets[s].count # None =>
    sockets[s].count = Cardinality(Of(u) \ Late(u))

(* The invariant behind exact counts: of a user served by one creation at  *)
(* a time, the pushed number is that of the rows, or the push is still to  *)
(* come.                                                                   *)
CountsExact ==
  \A u \in User : Regular(u) =>
    /\ \A c \in Creation : creations[c].user = u =>
         /\ creations[c].step = "pushing" => creations[c].count = Cardinality(Of(u))
         /\ creations[c].step = "channels" /\ InApp \notin creations[c].todo =>
              history.last[u] = c /\ Told(u)
    /\ (\A c \in Creation : creations[c].user = u => ~Active(c)) => Told(u)

(* The inductive invariant: where rows come from and who takes them, whom  *)
(* a broadcast covers, which sockets are known, and what was pushed.       *)
IInv ==
  /\ TypeOK
  /\ RowsHaveCreations /\ UntouchedAreNew /\ ServiceRowsStay
  /\ BroadcastsCover /\ FoundAreDue
  /\ SocketsKnown
  /\ FinitelyMany /\ OneAtATime /\ CountsBehind /\ CountsExact

-----------------------------------------------------------------------------
(* Types *)

(* A row is of a creation, and of the service or of a channel.             *)
LEMMA Ids ==
  ASSUME NEW n \in RowId
  PROVE  /\ n[1] \in Creation /\ n[2] \in {Service} \cup Channel
         /\ n = <<n[1], n[2]>>
  BY DEF RowId

(* Such a pair is the id of a row.                                         *)
LEMMA RowIds ==
  ASSUME NEW c \in Creation, NEW ch \in {Service} \cup Channel
  PROVE  <<c, ch>> \in RowId /\ <<c, ch>>[1] = c /\ <<c, ch>>[2] = ch
  BY DEF RowId

(* The initial state is well typed.                                        *)
LEMMA InitTypes == Init => TypeOK
  BY InboxAssumption DEF Init, TypeOK, CreationStep, Channel, Date, SocketRecord

(* The fields a step of a creation changes keep their types.               *)
CreationShape == [step : CreationStep, user : User \cup {None}, by : Broadcast \cup {None},
                  expires : Date, todo : SUBSET Channel, count : Nat]

(* The part of the type invariant about creations.                         *)
CreationsOK ==
  /\ creations \in [Creation -> CreationShape]
  /\ \A c \in Creation : creations[c].step # "new" => creations[c].user \in User

(* The types of the history.                                               *)
HistoryShape == [touched : SUBSET User, unpushed : SUBSET User, crowded : SUBSET User,
                 changed : SUBSET RowId, reconnected : SUBSET User,
                 last : [User -> Creation \cup {None}]]

(* What the fields of a creation hold.                                     *)
LEMMA Fields ==
  ASSUME TypeOK, NEW c \in Creation
  PROVE  /\ creations[c].step \in CreationStep /\ creations[c].todo \subseteq Channel
         /\ creations[c].user \in User \cup {None} /\ creations[c].by \in Broadcast \cup {None}
         /\ creations[c].count \in Nat /\ creations[c].expires \in Date
         /\ creations[c].step # "new" => creations[c].user \in User
         /\ DOMAIN creations[c] = {"step", "user", "by", "expires", "todo", "count"}
         /\ creations[c] \in CreationShape
         /\ creations[c] = [step |-> creations[c].step, user |-> creations[c].user,
                            by |-> creations[c].by, expires |-> creations[c].expires,
                            todo |-> creations[c].todo, count |-> creations[c].count]
<1>1. creations[c] \in CreationShape /\ (creations[c].step # "new" => creations[c].user \in User)
  BY DEF TypeOK, CreationShape
<1> QED BY <1>1 DEF CreationShape

(* What a step makes of one creation, field by field.                      *)
Becomes(c, step, todo, count) ==
  /\ creations' \in [Creation -> CreationShape]
  /\ creations'[c].step = step /\ creations'[c].todo = todo /\ creations'[c].count = count
  /\ creations'[c].user = creations[c].user /\ creations'[c].by = creations[c].by
  /\ creations'[c].expires = creations[c].expires
  /\ \A d \in Creation \ {c} : creations'[d] = creations[d]

(* Creations are records of this shape.                                    *)
LEMMA Shape == ASSUME TypeOK PROVE creations \in [Creation -> CreationShape]
  BY DEF TypeOK, CreationShape

(* Going to a step changes the step ...                                    *)
LEMMA StepBecomes ==
  ASSUME TypeOK, NEW c \in Creation, NEW step \in CreationStep, Goto(c, step)
  PROVE  Becomes(c, step, creations[c].todo, creations[c].count)
  BY Shape DEF CreationShape, Goto, Becomes

(* ... taking up channels the channels ...                                 *)
LEMMA TodoBecomes ==
  ASSUME TypeOK, NEW c \in Creation, NEW todo \in SUBSET Channel,
         creations' = [creations EXCEPT ![c].todo = todo]
  PROVE  Becomes(c, creations[c].step, todo, creations[c].count)
  BY Shape DEF CreationShape, Becomes

(* ... doing both changes both ...                                         *)
LEMMA StepAndTodoBecome ==
  ASSUME TypeOK, NEW c \in Creation, NEW step \in CreationStep, NEW todo \in SUBSET Channel,
         creations' = [creations EXCEPT ![c].step = step, ![c].todo = todo]
  PROVE  Becomes(c, step, todo, creations[c].count)
  BY Shape DEF CreationShape, Becomes

(* ... and counting the step and the number.                               *)
LEMMA StepAndCountBecome ==
  ASSUME TypeOK, NEW c \in Creation, NEW step \in CreationStep, NEW count \in Nat,
         creations' = [creations EXCEPT ![c].step = step, ![c].count = count]
  PROVE  Becomes(c, step, creations[c].todo, count)
  BY Shape DEF CreationShape, Becomes

(* After the service row come the channels preferred.                      *)
LEMMA StoreBecomes ==
  ASSUME TypeOK, NEW c \in Creation, Store(c)
  PROVE  Becomes(c, "channels", preferences[creations[c].user], creations[c].count)
<1>1. preferences[creations[c].user] \in SUBSET Channel
  BY Fields DEF Store, TypeOK
<1> QED BY <1>1, StepAndTodoBecome DEF CreationStep, Store, GetEnabledChannels

(* After the in-app row comes the count.                                   *)
LEMMA InsertInAppBecomes ==
  ASSUME TypeOK, NEW c \in Creation, InsertInApp(c)
  PROVE  Becomes(c, "counting", creations[c].todo \ {InApp}, creations[c].count)
<1>1. creations[c].todo \ {InApp} \in SUBSET Channel
  BY Fields
<1>2. creations' = [creations EXCEPT ![c].step = "counting", ![c].todo = creations[c].todo \ {InApp}]
  BY Shape DEF InsertInApp, CreationShape
<1> QED BY <1>1, <1>2, StepAndTodoBecome DEF CreationStep

(* After the count comes the push of that number.                          *)
LEMMA CountUnreadBecomes ==
  ASSUME TypeOK, FinitelyMany, NEW c \in Creation, CountUnread(c)
  PROVE  Becomes(c, "pushing", creations[c].todo, Cardinality(CountedOf(creations[c].user)))
<1>1. Cardinality(CountedOf(creations[c].user)) \in Nat
  BY FS_Subset, FS_CardinalityType DEF FinitelyMany, CountedOf, Of
<1> QED BY <1>1, StepAndCountBecome DEF CreationStep, CountUnread

(* A channel that is done is not done again.                               *)
LEMMA DropBecomes ==
  ASSUME TypeOK, NEW c \in Creation, NEW ch,
         creations' = [creations EXCEPT ![c].todo = @ \ {ch}]
  PROVE  Becomes(c, creations[c].step, creations[c].todo \ {ch}, creations[c].count)
<1>1. creations[c].todo \ {ch} \in SUBSET Channel
  BY Fields
<1>2. creations' = [creations EXCEPT ![c].todo = creations[c].todo \ {ch}]
  BY Shape DEF CreationShape
<1> QED BY <1>1, <1>2, TodoBecomes

(* A creation starts for a user, by itself or of a broadcast.              *)
Starts(c, u, b, expires) ==
  /\ creations' \in [Creation -> CreationShape]
  /\ creations[c].step = "new"
  /\ creations'[c].step = "storing"
  /\ creations'[c].user = u /\ creations'[c].by = b /\ creations'[c].expires = expires
  /\ \A d \in Creation \ {c} : creations'[d] = creations[d]

(* A creation starts with nothing stored or counted.                       *)
LEMMA Starting ==
  ASSUME TypeOK, NEW c \in Creation, NEW u \in User, NEW b \in Broadcast \cup {None},
         NEW expires \in Date, Start(c, u, b, expires)
  PROVE  Starts(c, u, b, expires)
<1> DEFINE r == [creations[c] EXCEPT !.step = "storing", !.user = u, !.by = b, !.expires = expires]
<1>1. "storing" \in CreationStep /\ u \in User \cup {None}
  BY DEF CreationStep
<1>2. r \in CreationShape
  BY <1>1, Fields DEF CreationShape
<1>3. r.step = "storing" /\ r.user = u /\ r.by = b /\ r.expires = expires
  BY Fields
<1>4. creations' = [creations EXCEPT ![c] = r]
  BY Shape DEF Start
<1> HIDE DEF r
<1>5. creations'[c] = r /\ \A d \in Creation \ {c} : creations'[d] = creations[d]
  BY <1>4, Shape
<1>6. creations' \in [Creation -> CreationShape]
  BY <1>2, <1>4, Shape
<1> QED BY <1>3, <1>5, <1>6 DEF Starts, Start

-----------------------------------------------------------------------------
(* What the steps do to the history *)

(* What the fields of the history hold.                                    *)
LEMMA HistoryFields ==
  ASSUME TypeOK
  PROVE  /\ history \in HistoryShape
         /\ history.touched \subseteq User /\ history.unpushed \subseteq User
         /\ history.crowded \subseteq User /\ history.reconnected \subseteq User
         /\ history.changed \subseteq RowId /\ history.last \in [User -> Creation \cup {None}]
<1>1. history \in HistoryShape
  BY DEF TypeOK, HistoryShape
<1> QED BY <1>1 DEF HistoryShape

(* All but what the retention job, the gateway and the pushes look back at.*)
SameUsers ==
  /\ history'.touched = history.touched
  /\ history'.unpushed = history.unpushed
  /\ history'.crowded = history.crowded

(* Only the users touched change ...                                       *)
LEMMA Touching ==
  ASSUME TypeOK, NEW u \in User, Touched(u)
  PROVE  /\ history' \in HistoryShape
         /\ history'.touched = history.touched \cup {u}
         /\ history'.unpushed = history.unpushed /\ history'.crowded = history.crowded
         /\ history'.changed = history.changed /\ history'.reconnected = history.reconnected
         /\ history'.last = history.last
  BY HistoryFields DEF HistoryShape, Touched

(* ... only those not pushed to ...                                        *)
LEMMA Unpushing ==
  ASSUME TypeOK, NEW u \in User, Unpushed(u)
  PROVE  /\ history' \in HistoryShape
         /\ history'.unpushed = history.unpushed \cup {u}
         /\ history'.touched = history.touched /\ history'.crowded = history.crowded
         /\ history'.changed = history.changed /\ history'.reconnected = history.reconnected
         /\ history'.last = history.last
  BY HistoryFields DEF HistoryShape, Unpushed

(* A row that is stored is a row.                                          *)
LEMMA StoredRows ==
  ASSUME TypeOK, NEW n \in Stored
  PROVE  n \in RowId /\ rows[n] \in Row /\ rows[n] # None
  BY DEF TypeOK, Stored

(* ... only the rows changed and their user ...                            *)
LEMMA Changing ==
  ASSUME TypeOK, NEW n \in Stored, Changed(n)
  PROVE  /\ history' \in HistoryShape
         /\ history'.touched = history.touched \cup {rows[n].user}
         /\ history'.unpushed = history.unpushed /\ history'.crowded = history.crowded
         /\ history.changed \subseteq history'.changed
         /\ found # None => n \in history'.changed
         /\ history'.reconnected = history.reconnected
         /\ history'.last = history.last
<1>1. rows[n].user \in User /\ n \in RowId
  BY StoredRows DEF Row
<1> QED BY <1>1, HistoryFields DEF HistoryShape, Changed

(* ... only those served by two creations at once ...                      *)
LEMMA Crowding ==
  ASSUME TypeOK, NEW c \in Creation, NEW u \in User, NEW b, NEW e, Start(c, u, b, e)
  PROVE  /\ history' \in HistoryShape
         /\ history.crowded \subseteq history'.crowded
         /\ (\E d \in Creation : Active(d) /\ creations[d].user = u) => u \in history'.crowded
         /\ history'.touched = history.touched /\ history'.unpushed = history.unpushed
         /\ history'.changed = history.changed /\ history'.reconnected = history.reconnected
         /\ history'.last = history.last
<1> DEFINE more == IF \E d \in Creation : Active(d) /\ creations[d].user = u
                   THEN history.crowded \cup {u} ELSE history.crowded
<1>1. more \in SUBSET User
  BY HistoryFields
<1>2. /\ history.crowded \subseteq more
      /\ (\E d \in Creation : Active(d) /\ creations[d].user = u) => u \in more
  OBVIOUS
<1>3. history' = [history EXCEPT !.crowded = more]
  BY DEF Start
<1> HIDE DEF more
<1> QED BY <1>1, <1>2, <1>3, HistoryFields DEF HistoryShape

(* ... and the last push of one user.                                      *)
LEMMA Pushing ==
  ASSUME TypeOK, NEW c \in Creation, EmitUnreadCount(c)
  PROVE  /\ history' \in HistoryShape
         /\ SameUsers
         /\ history'.changed = history.changed /\ history'.reconnected = history.reconnected
         /\ history'.last[creations[c].user] = c
         /\ \A u \in User \ {creations[c].user} : history'.last[u] = history.last[u]
<1>1. creations[c].user \in User
  BY Fields DEF EmitUnreadCount
<1>2. history' = [history EXCEPT !.last[creations[c].user] = c]
  BY DEF EmitUnreadCount
<1>3. history'.last = [history.last EXCEPT ![creations[c].user] = c]
  BY <1>2, HistoryFields DEF HistoryShape
<1>4. history'.last \in [User -> Creation \cup {None}]
  BY <1>1, <1>3, HistoryFields
<1>5. /\ history'.touched = history.touched /\ history'.unpushed = history.unpushed
      /\ history'.crowded = history.crowded
      /\ history'.changed = history.changed /\ history'.reconnected = history.reconnected
  BY <1>2, HistoryFields DEF HistoryShape
<1>6. history' \in HistoryShape
  BY <1>2, <1>4, <1>3, HistoryFields DEF HistoryShape
<1> QED BY <1>1, <1>3, <1>5, <1>6, HistoryFields DEF SameUsers

-----------------------------------------------------------------------------
(* What the steps do to the rows *)

(* The part of the type invariant about rows.                              *)
RowsOK == rows \in [RowId -> Row \cup {None}]

(* An insert makes one row, unread and without a date of retention.        *)
LEMMA Inserting ==
  ASSUME TypeOK, NEW n \in RowId, Insert(n)
  PROVE  /\ RowsOK'
         /\ rows'[n] # None /\ rows'[n].user = creations[n[1]].user
         /\ rows'[n].expires = creations[n[1]].expires
         /\ ~rows'[n].read /\ ~rows'[n].dismissed /\ rows'[n].retention = None
         /\ \A m \in RowId \ {n} : rows'[m] = rows[m]
         /\ Stored' = Stored \cup {n}
         /\ creations[n[1]].user \in User
<1> DEFINE new == [user |-> creations[n[1]].user, made |-> day, read |-> FALSE,
                   dismissed |-> FALSE, sensitive |-> FALSE, retention |-> None,
                   expires |-> creations[n[1]].expires]
<1>0. creations[n[1]].expires \in Date
  BY Ids, Fields
<1>1. new \in Row /\ creations[n[1]].user \in User
  BY <1>0 DEF TypeOK, Insert, Row, Date
<1>2. new # None
  BY <1>1, InboxAssumption
<1>3. rows' = [rows EXCEPT ![n] = new] /\ rows \in [RowId -> Row \cup {None}]
  BY DEF Insert, TypeOK
<1>4. /\ new.user = creations[n[1]].user /\ ~new.read /\ ~new.dismissed /\ new.retention = None
      /\ new.expires = creations[n[1]].expires
  OBVIOUS
<1> HIDE DEF new
<1>5. rows'[n] = new /\ RowsOK' /\ \A m \in RowId \ {n} : rows'[m] = rows[m]
  BY <1>1, <1>3 DEF RowsOK
<1>6. Stored' = Stored \cup {n}
  BY <1>2, <1>5 DEF Stored
<1> QED BY <1>1, <1>2, <1>4, <1>5, <1>6

(* What owners, the retention job and the deletion of a user do: they      *)
(* change or delete rows of users they mark as touched, and the rows that  *)
(* the retention job has found stay as due as they were or are marked.     *)
EditedRow(n) ==
  \/ rows'[n] = None
  \/ /\ rows'[n] \in Row /\ rows'[n].user = rows[n].user /\ rows'[n].expires = rows[n].expires
     /\ \/ found # None => n \in history'.changed
        \/ /\ rows'[n].made = rows[n].made /\ rows'[n].dismissed = rows[n].dismissed
           /\ rows'[n].retention = rows[n].retention /\ rows'[n].sensitive = rows[n].sensitive

(* A step that changes, dates or deletes rows, of users whose touch it     *)
(* records.                                                                *)
Edits ==
  /\ RowsOK'
  /\ UNCHANGED <<creations, broadcasts, sockets, connected>>
  /\ history' \in HistoryShape
  /\ history.touched \subseteq history'.touched
  /\ history'.unpushed = history.unpushed /\ history'.crowded = history.crowded
  /\ history.changed \subseteq history'.changed
  /\ history'.reconnected = history.reconnected /\ history'.last = history.last
  /\ \A n \in RowId \ Stored : rows'[n] = None
  /\ \A n \in Stored : EditedRow(n)
  /\ \A n \in Stored : rows[n].user \notin history'.touched => rows'[n] = rows[n]
  /\ found' = found \/ (found # None /\ found' \subseteq found)

(* One row is given another value and marked.                              *)
LEMMA ChangeEdits ==
  ASSUME TypeOK, NEW n \in Stored, NEW new \in Row, new.user = rows[n].user,
         new.expires = rows[n].expires, rows' = [rows EXCEPT ![n] = new], Changed(n),
         UNCHANGED <<creations, broadcasts, sockets, connected, found>>
  PROVE  Edits
<1>1. /\ RowsOK' /\ rows'[n] = new /\ \A m \in RowId \ {n} : rows'[m] = rows[m]
  BY StoredRows DEF TypeOK, RowsOK
<1>2. \A m \in Stored : m # n => rows'[m] = rows[m] /\ rows'[m] \in Row
  BY <1>1, StoredRows
<1>3. \A m \in Stored : EditedRow(m)
  BY <1>1, <1>2, Changing DEF EditedRow
<1>4. \A m \in RowId \ Stored : rows'[m] = None
  BY <1>1 DEF Stored
<1>5. \A m \in Stored : rows[m].user \notin history'.touched => rows'[m] = rows[m]
  BY <1>2, Changing
<1> QED BY <1>1, <1>3, <1>4, <1>5, Changing DEF Edits

(* A row that is changed is still a row of its user.                       *)
LEMMA OwnersChange ==
  ASSUME TypeOK, NEW n \in Stored
  PROVE  /\ \A date \in Date : [rows[n] EXCEPT !.retention = date] \in Row
         /\ \A d \in BOOLEAN : [rows[n] EXCEPT !.dismissed = d] \in Row
         /\ [rows[n] EXCEPT !.read = TRUE] \in Row
         /\ [rows[n] EXCEPT !.sensitive = TRUE] \in Row
         /\ \A date : /\ [rows[n] EXCEPT !.retention = date].user = rows[n].user
                       /\ [rows[n] EXCEPT !.retention = date].expires = rows[n].expires
         /\ \A d : /\ [rows[n] EXCEPT !.dismissed = d].user = rows[n].user
                    /\ [rows[n] EXCEPT !.dismissed = d].expires = rows[n].expires
         /\ [rows[n] EXCEPT !.read = TRUE].user = rows[n].user
         /\ [rows[n] EXCEPT !.read = TRUE].expires = rows[n].expires
         /\ [rows[n] EXCEPT !.sensitive = TRUE].user = rows[n].user
         /\ [rows[n] EXCEPT !.sensitive = TRUE].expires = rows[n].expires
  BY StoredRows DEF Row

(* Requests of the owner edit rows.                                        *)
LEMMA OwnersEdit ==
  ASSUME TypeOK, MarkAsRead \/ SoftDeleteNotification \/ RestoreNotification
  PROVE  Edits
<1>1. CASE MarkAsRead
  BY <1>1, OwnersChange, ChangeEdits DEF MarkAsRead, calls, gateway
<1>2. CASE SoftDeleteNotification
  BY <1>2, OwnersChange, ChangeEdits DEF SoftDeleteNotification, calls, gateway
<1>3. CASE RestoreNotification
  BY <1>3, OwnersChange, ChangeEdits DEF RestoreNotification, calls, gateway
<1> QED BY <1>1, <1>2, <1>3

(* Marking and dating rows edits them.                                     *)
LEMMA MarksEdit ==
  ASSUME TypeOK, NEW n \in RowId, MarkAsSensitive(n) \/ \E date \in Dates : SetRetentionDate(n, date)
  PROVE  Edits
<1>1. CASE MarkAsSensitive(n)
  BY <1>1, OwnersChange, ChangeEdits DEF MarkAsSensitive, calls, gateway
<1>2. ASSUME NEW date \in Dates, SetRetentionDate(n, date) PROVE Edits
  <2>1. date \in Date
    BY InboxAssumption DEF Date
  <2> QED BY <1>2, <2>1, OwnersChange, ChangeEdits DEF SetRetentionDate, calls, gateway
<1> QED BY <1>1, <1>2

(* Marking all as read edits rows.                                         *)
LEMMA MarkAllEdits ==
  ASSUME TypeOK, NEW u \in User, MarkAllAsRead(u)
  PROVE  Edits
<1>1. \A n \in Stored : [rows[n] EXCEPT !.read = TRUE] \in Row /\ rows[n] \in Row
  BY OwnersChange, StoredRows
<1>2. \A n \in RowId : rows'[n] = IF n \in Of(u) THEN [rows[n] EXCEPT !.read = TRUE] ELSE rows[n]
  BY DEF MarkAllAsRead
<1>3. Of(u) \subseteq Stored
  BY DEF Of
<1>4. RowsOK'
  BY <1>1, <1>2, <1>3 DEF MarkAllAsRead, RowsOK, TypeOK
<1>5. \A n \in RowId \ Stored : rows'[n] = None
  BY <1>2, <1>3 DEF Stored
<1>6. ASSUME NEW n \in Stored PROVE EditedRow(n)
  BY <1>1, <1>2, StoredRows DEF EditedRow, Row
<1>7. \A n \in Stored : n \in Of(u) => rows[n].user = u
  BY DEF Of
<1>8. Touched(u)
  BY DEF MarkAllAsRead
<1>9. \A n \in Stored : rows[n].user \notin history'.touched => rows'[n] = rows[n]
  BY <1>2, <1>7, <1>8, Touching, StoredRows
<1> QED BY <1>4, <1>5, <1>6, <1>8, <1>9, Touching DEF Edits, MarkAllAsRead, calls, gateway

(* Rows of users who are marked as touched are deleted.                    *)
LEMMA DeletionEdits ==
  ASSUME TypeOK, NEW u \in User, Touched(u), NEW deleted \in SUBSET Stored,
         \A n \in deleted : rows[n].user = u,
         rows' = [n \in RowId |-> IF n \in deleted THEN None ELSE rows[n]],
         UNCHANGED <<creations, broadcasts, sockets, connected>>,
         found' = found \/ (found # None /\ found' \subseteq found)
  PROVE  Edits
<1>1. RowsOK' /\ \A n \in RowId : rows'[n] = IF n \in deleted THEN None ELSE rows[n]
  BY DEF RowsOK, TypeOK
<1>2. \A n \in RowId \ Stored : rows'[n] = None
  BY <1>1 DEF Stored
<1>3. \A n \in Stored : EditedRow(n)
  BY <1>1, StoredRows DEF EditedRow
<1>4. \A n \in Stored : rows[n].user \notin history'.touched => rows'[n] = rows[n]
  BY <1>1, Touching, StoredRows
<1> QED BY <1>1, <1>2, <1>3, <1>4, Touching DEF Edits

(* Deleting a user edits rows.                                             *)
LEMMA DeleteUserEdits ==
  ASSUME TypeOK, NEW u \in User, DeleteUser(u)
  PROVE  Edits
<1>1. Of(u) \in SUBSET Stored /\ \A n \in Of(u) : rows[n].user = u
  BY DEF Of
<1> QED BY <1>1, DeletionEdits DEF DeleteUser, calls, gateway

(* The retention job edits rows.                                           *)
LEMMA DeleteExpiredEdits ==
  ASSUME TypeOK, DeleteExpired
  PROVE  Edits
<1>1. PICK f \in found :
        /\ found' = found \ {f}
        /\ IF ~f[2] /\ f[1] \in Stored
           THEN /\ rows' = [rows EXCEPT ![f[1]] = None]
                /\ Touched(rows[f[1]].user)
           ELSE UNCHANGED <<rows, history>>
  BY DEF DeleteExpired
<1>2. /\ UNCHANGED <<creations, broadcasts, sockets, connected>>
      /\ found # None /\ found' \subseteq found
  BY <1>1 DEF DeleteExpired, calls, gateway
<1>3. CASE ~f[2] /\ f[1] \in Stored
  <2>1. rows[f[1]].user \in User /\ Touched(rows[f[1]].user)
    BY <1>1, <1>3, StoredRows DEF Row
  <2>2. {f[1]} \in SUBSET Stored /\ \A n \in {f[1]} : rows[n].user = rows[f[1]].user
    BY <1>3
  <2>3. rows' = [n \in RowId |-> IF n \in {f[1]} THEN None ELSE rows[n]]
    BY <1>1, <1>3 DEF TypeOK
  <2> QED BY <1>2, <2>1, <2>2, <2>3, DeletionEdits
<1>4. CASE ~(~f[2] /\ f[1] \in Stored)
  <2>1. UNCHANGED <<rows, history>>
    BY <1>1, <1>4
  <2>2. RowsOK' /\ \A n \in RowId \ Stored : rows'[n] = None
    BY <2>1 DEF TypeOK, RowsOK, Stored
  <2>3. \A n \in Stored : EditedRow(n)
    BY <2>1, StoredRows DEF EditedRow
  <2> QED BY <1>2, <2>1, <2>2, <2>3, HistoryFields DEF Edits
<1> QED BY <1>3, <1>4

-----------------------------------------------------------------------------
(* The kinds of steps there are *)

(* A step that leaves all of this alone.                                   *)
Idles == UNCHANGED <<rows, creations, broadcasts, found, sockets, connected, day, history>>

(* A creation begins, for an event or for a broadcast.                     *)
Begins(c, u, b, e) ==
  /\ Start(c, u, b, e)
  /\ UNCHANGED <<rows, found, sockets, connected, day>>
  /\ \/ b = None /\ UNCHANGED broadcasts
     \/ /\ b \in Broadcast /\ u \in broadcasts[b].todo
        /\ broadcasts[b].step = "running" /\ e = broadcasts[b].expires
        /\ broadcasts' = [broadcasts EXCEPT ![b].todo = @ \ {u}]

(* A broadcast begins.                                                     *)
Sending(b) == \E expires \in Date : SendToTenant(b, expires)

(* A broadcast ends when its creations have.                               *)
Ends(b) ==
  /\ broadcasts[b].step = "running" /\ broadcasts[b].todo = {}
  /\ \A c \in Creation : creations[c].by = b => ~Active(c)
  /\ broadcasts' = [broadcasts EXCEPT ![b].step = "ended"]
  /\ UNCHANGED <<rows, creations, found, sockets, connected, day, history>>

(* The kinds of steps there are.                                           *)
Kinds ==
  \/ Idles
  \/ Edits /\ UNCHANGED day
  \/ \E c \in Creation, u \in User, b \in Broadcast \cup {None}, e \in Date : Begins(c, u, b, e)
  \/ \E c \in Creation : Create(c) /\ UNCHANGED day
  \/ \E b \in Broadcast : (Sending(b) /\ UNCHANGED day) \/ Ends(b)
  \/ (FindExpired \/ StopRetention) /\ UNCHANGED day
  \/ \E s \in Socket : Connect(s) /\ UNCHANGED day
  \/ Tick

(* A call of the service is a step of one of these kinds ...               *)
LEMMA SendKinds ==
  ASSUME TypeOK, UNCHANGED day, NEW expires \in Date,
         \/ \E c \in Creation, u \in User : SendToUser(c, u, expires)
         \/ \E b \in Broadcast : SendToTenant(b, expires)
  PROVE  Kinds
<1>1. ASSUME NEW c \in Creation, NEW u \in User, SendToUser(c, u, expires) PROVE Kinds
  <2>1. Begins(c, u, None, expires)
    BY <1>1 DEF SendToUser, Begins, gateway
  <2> QED BY <2>1 DEF Kinds
<1>2. ASSUME NEW b \in Broadcast, SendToTenant(b, expires) PROVE Kinds
  BY <1>2 DEF Kinds, Sending
<1> QED BY <1>1, <1>2

(* ... and so is what an event or a request makes of it.                   *)
LEMMA EventKinds ==
  ASSUME TypeOK, CreateNotification \/ \E event : HandleEvent(event), UNCHANGED day
  PROVE  Kinds
<1>1. None \in Date /\ {None} \cup Dates \subseteq Date
  BY InboxAssumption DEF Date
<1>2. \E expires \in Date :
        \/ \E c \in Creation, u \in User : SendToUser(c, u, expires)
        \/ \E b \in Broadcast : SendToTenant(b, expires)
  BY <1>1 DEF CreateNotification, HandleEvent
<1> QED BY <1>2, SendKinds

(* So is the next step of a broadcast ...                                  *)
LEMMA BroadcastKinds ==
  ASSUME TypeOK, NEW b \in Broadcast, NextOfBroadcast(b), UNCHANGED day
  PROVE  Kinds
<1>1. ASSUME NEW u \in broadcasts[b].todo, NEW c \in Creation, Start(c, u, b, broadcasts[b].expires),
             broadcasts' = [broadcasts EXCEPT ![b].todo = @ \ {u}]
      PROVE  Kinds
  <2>1. u \in User /\ broadcasts[b].expires \in Date
    BY DEF TypeOK
  <2>2. Begins(c, u, b, broadcasts[b].expires)
    BY <1>1 DEF NextOfBroadcast, Begins, gateway
  <2> QED BY <2>1, <2>2 DEF Kinds
<1>2. CASE broadcasts[b].todo = {} /\ broadcasts' = [broadcasts EXCEPT ![b].step = "ended"]
           /\ UNCHANGED <<creations, history>>
  <2>1. Ends(b)
    BY <1>2 DEF NextOfBroadcast, Ends, gateway
  <2> QED BY <2>1 DEF Kinds
<1> QED BY <1>1, <1>2 DEF NextOfBroadcast

(* ... every request of an owner ...                                       *)
LEMMA OwnerKinds ==
  ASSUME TypeOK, Owners, UNCHANGED day
  PROVE  Kinds
<1>1. ASSUME NEW n \in RowId, \E kind \in Owned : Find(kind, n) PROVE Kinds
  <2>1. Idles
    BY <1>1 DEF Find, Idles, calls, gateway
  <2> QED BY <2>1 DEF Kinds
<1>2. ASSUME NEW n \in RowId, MarkAsSensitive(n) \/ \E date \in Dates : SetRetentionDate(n, date)
      PROVE  Kinds
  <2>1. n \in Stored
    BY <1>2 DEF MarkAsSensitive, SetRetentionDate
  <2>2. Edits
    BY <1>2, <2>1, MarksEdit
  <2> QED BY <2>2 DEF Kinds
<1>3. CASE MarkAsRead \/ SoftDeleteNotification \/ RestoreNotification
  BY <1>3, OwnersEdit DEF Kinds
<1>4. CASE FailRequest
  <2>1. Idles
    BY <1>4 DEF FailRequest, Idles, calls, gateway
  <2> QED BY <2>1 DEF Kinds
<1>5. ASSUME NEW u \in User, MarkAllAsRead(u) \/ DeleteUser(u) PROVE Kinds
  BY <1>5, MarkAllEdits, DeleteUserEdits DEF Kinds
<1>6. ASSUME NEW u \in User, \E enabled \in Choices : UpdatePreference(u, enabled) PROVE Kinds
  <2>1. Idles
    BY <1>6 DEF UpdatePreference, Idles, calls, gateway
  <2> QED BY <2>1 DEF Kinds
<1> QED BY <1>1, <1>2, <1>3, <1>4, <1>5, <1>6 DEF Owners

(* ... and every step at all.                                              *)
LEMMA StepKinds ==
  ASSUME TypeOK, [Next]_vars
  PROVE  Kinds
<1>1. CASE UNCHANGED vars
  <2>1. Idles
    BY <1>1 DEF vars, Idles, calls, gateway
  <2> QED BY <2>1 DEF Kinds
<1>2. CASE Tick
  BY <1>2 DEF Kinds
<1>3. CASE Step /\ UNCHANGED day
  <2>1. CASE CreateNotification \/ \E event : HandleEvent(event)
    BY <1>3, <2>1, EventKinds
  <2>2. ASSUME NEW c \in Creation, Create(c) PROVE Kinds
    BY <1>3, <2>2 DEF Kinds
  <2>3. ASSUME NEW b \in Broadcast, NextOfBroadcast(b) PROVE Kinds
    BY <1>3, <2>3, BroadcastKinds
  <2>4. CASE Owners
    BY <1>3, <2>4, OwnerKinds
  <2>5. CASE FindExpired \/ StopRetention
    BY <1>3, <2>5 DEF Kinds
  <2>6. CASE DeleteExpired
    BY <1>3, <2>6, DeleteExpiredEdits DEF Kinds
  <2>7. ASSUME NEW s \in Socket, Connect(s)
        PROVE  Kinds
    BY <1>3, <2>7 DEF Kinds
  <2> QED BY <1>3, <2>1, <2>2, <2>3, <2>4, <2>5, <2>6, <2>7 DEF Step
<1> QED BY <1>1, <1>2, <1>3 DEF Next

(* What an external channel does not overtake.                             *)
AppDone(c) == InApp \notin creations[c].todo /\ creations[c].step \notin {"counting", "pushing"}

(* What every step of a creation does: it goes on, and if it inserts a row *)
(* it is one that it has not written yet and now has.                      *)
Moves(c) ==
  /\ creations' \in [Creation -> CreationShape]
  /\ creations'[c].user = creations[c].user /\ creations'[c].by = creations[c].by
  /\ creations'[c].expires = creations[c].expires
  /\ Active(c) /\ creations'[c].step \notin {"new", "storing"}
  /\ creations[c].step = "storing" \/ creations'[c].todo \subseteq creations[c].todo
  /\ \A d \in Creation \ {c} : creations'[d] = creations[d]
  /\ history' \in HistoryShape
  /\ history'.touched = history.touched /\ history'.crowded = history.crowded
  /\ history.unpushed \subseteq history'.unpushed
  /\ history'.changed = history.changed /\ history'.reconnected = history.reconnected
  /\ UNCHANGED <<broadcasts, found, connected>>
  /\ sockets' \in [Socket -> SocketRecord]
  /\ \A s \in Socket :
       /\ sockets'[s].user = sockets[s].user
       /\ sockets'[s].step = sockets[s].step /\ sockets'[s].closed = sockets[s].closed
       /\ sockets'[s] = sockets[s] \/ (Up(s) /\ sockets[s].user = creations[c].user)
  /\ \/ UNCHANGED rows
     \/ \E n \in RowId :
          /\ n[1] = c /\ Insert(n) /\ ~Spent(n) /\ Spent(n)'
          /\ n[2] \in External => AppDone(c)'

(* What a socket holds.                                                    *)
LEMMA SocketShape ==
  ASSUME TypeOK
  PROVE  /\ sockets \in [Socket -> SocketRecord]
         /\ \A s \in Socket : /\ sockets[s].user \in User \cup {None} /\ sockets[s].count \in Nat \cup {None}
                              /\ sockets[s].step \in {"new", "checking", "joining", "done"}
                              /\ sockets[s].closed \in {"not", "early", "late"}
  BY DEF TypeOK, SocketRecord

(* Storing the service row moves the creation and its rows only.           *)
LEMMA StoreMoves ==
  ASSUME TypeOK, NEW c \in Creation, Store(c)
  PROVE  Moves(c)
<1> DEFINE n == <<c, Service>>
<1>1. n \in RowId /\ n[1] = c /\ n[2] = Service
  BY RowIds
<1>2. creations[c].user \in User
  BY Fields DEF Store
<1>3. Becomes(c, "channels", preferences[creations[c].user], creations[c].count)
  BY StoreBecomes
<1>4. preferences[creations[c].user] \subseteq Channel
  BY <1>2 DEF TypeOK
<1>5. ~Spent(n) /\ Spent(n)'
  BY <1>1, <1>3, <1>4, InboxAssumption DEF Store, Spent, Becomes
<1>6. history' = history \/ Unpushed(creations[c].user)
  BY DEF Store
<1>7. history' \in HistoryShape /\ history'.touched = history.touched /\ history'.crowded = history.crowded
      /\ history.unpushed \subseteq history'.unpushed
      /\ history'.changed = history.changed /\ history'.reconnected = history.reconnected
  BY <1>2, <1>6, Unpushing, HistoryFields
<1>8. Insert(n) /\ creations[c].step = "storing" /\ UNCHANGED <<broadcasts, found, sockets, connected>>
  BY DEF Store, gateway
<1>9. Service \notin External
  BY InboxAssumption DEF Channel
<1> HIDE DEF n
<1> QED BY <1>1, <1>3, <1>5, <1>7, <1>8, <1>9, SocketShape DEF Moves, Becomes, Active

(* So does the in-app row ...                                              *)
LEMMA InsertInAppMoves ==
  ASSUME TypeOK, NEW c \in Creation, InsertInApp(c)
  PROVE  Moves(c)
<1> DEFINE n == <<c, InApp>>
<1>1. n \in RowId /\ n[1] = c /\ n[2] = InApp
  BY RowIds DEF Channel
<1>2. Becomes(c, "counting", creations[c].todo \ {InApp}, creations[c].count)
  BY InsertInAppBecomes
<1>3. ~Spent(n) /\ Spent(n)'
  BY <1>1, <1>2 DEF InsertInApp, Spent, Becomes
<1>4. Insert(n) /\ creations[c].step = "channels" /\ UNCHANGED <<broadcasts, found, sockets, connected, history>>
  BY DEF InsertInApp, gateway
<1>5. InApp \notin External
  BY InboxAssumption
<1> HIDE DEF n
<1> QED BY <1>1, <1>2, <1>3, <1>4, <1>5, SocketShape, HistoryFields DEF Moves, Becomes, Active

(* ... a row for the worker of another channel ...                         *)
LEMMA InsertExternalMoves ==
  ASSUME TypeOK, NEW c \in Creation, NEW ch \in External, InsertExternal(c, ch)
  PROVE  Moves(c) /\ Becomes(c, "channels", creations[c].todo \ {ch}, creations[c].count)
<1> DEFINE n == <<c, ch>>
<1>1. n \in RowId /\ n[1] = c /\ n[2] = ch
  BY RowIds DEF Channel
<1>2. Becomes(c, "channels", creations[c].todo \ {ch}, creations[c].count)
  BY DropBecomes DEF InsertExternal
<1>3. ~Spent(n) /\ Spent(n)'
  BY <1>1, <1>2 DEF InsertExternal, Spent, Becomes
<1>4. Insert(n) /\ creations[c].step = "channels" /\ UNCHANGED <<broadcasts, found, sockets, connected, history>>
  BY DEF InsertExternal, gateway
<1>5. AppDone(c)'
  BY <1>2 DEF InsertExternal, AppDone, Becomes
<1> HIDE DEF n
<1> QED BY <1>1, <1>2, <1>3, <1>4, <1>5, SocketShape, HistoryFields DEF Moves, Becomes, Active

(* ... the count ...                                                       *)
LEMMA CountUnreadMoves ==
  ASSUME TypeOK, FinitelyMany, NEW c \in Creation, CountUnread(c)
  PROVE  Moves(c)
<1>1. Becomes(c, "pushing", creations[c].todo, Cardinality(CountedOf(creations[c].user)))
  BY CountUnreadBecomes
<1>2. creations[c].step = "counting" /\ UNCHANGED <<rows, broadcasts, found, sockets, connected, history>>
  BY DEF CountUnread, gateway
<1> QED BY <1>1, <1>2, SocketShape, HistoryFields DEF Moves, Becomes, Active

(* What a push makes of a socket.                                          *)
LEMMA EmitTells ==
  ASSUME TypeOK, NEW c \in Creation, EmitUnreadCount(c)
  PROVE  /\ creations[c].user \in User
         /\ sockets' \in [Socket -> SocketRecord]
         /\ \A s \in Socket :
              /\ sockets'[s].user = sockets[s].user
              /\ sockets'[s].step = sockets[s].step /\ sockets'[s].closed = sockets[s].closed
              /\ IF Up(s) /\ sockets[s].user = creations[c].user
                 THEN sockets'[s].count = creations[c].count ELSE sockets'[s] = sockets[s]
<1>1. creations[c].user \in User /\ creations[c].count \in Nat
  BY Fields DEF EmitUnreadCount
<1>2. \A s \in Socket : sockets[s] \in SocketRecord
  BY SocketShape
<1>3. \A s \in Socket :
        LET told == [sockets[s] EXCEPT !.count = creations[c].count]
        IN  /\ told \in SocketRecord /\ told.count = creations[c].count
            /\ told.user = sockets[s].user /\ told.step = sockets[s].step /\ told.closed = sockets[s].closed
  BY <1>1, <1>2 DEF SocketRecord
<1>4. sockets' = [s \in Socket |->
        IF Up(s) /\ sockets[s].user = creations[c].user
        THEN [sockets[s] EXCEPT !.count = creations[c].count] ELSE sockets[s]]
  BY DEF EmitUnreadCount
<1> QED BY <1>1, <1>2, <1>3, <1>4

(* ... the push ...                                                        *)
LEMMA EmitMoves ==
  ASSUME TypeOK, NEW c \in Creation, EmitUnreadCount(c)
  PROVE  Moves(c) /\ Becomes(c, "channels", creations[c].todo, creations[c].count)
<1>1. Becomes(c, "channels", creations[c].todo, creations[c].count)
  BY StepBecomes DEF EmitUnreadCount, CreationStep
<1>2. creations[c].step = "pushing" /\ UNCHANGED <<rows, broadcasts, found, connected>>
  BY DEF EmitUnreadCount
<1> QED BY <1>1, <1>2, EmitTells, Pushing DEF Moves, Becomes, Active, SameUsers

(* ... the return ...                                                      *)
LEMMA ReturnMoves ==
  ASSUME TypeOK, NEW c \in Creation, Return(c)
  PROVE  Moves(c) /\ Becomes(c, "returned", creations[c].todo, creations[c].count)
<1>1. Becomes(c, "returned", creations[c].todo, creations[c].count)
  BY StepBecomes DEF Return, CreationStep
<1>2. creations[c].step = "channels" /\ UNCHANGED <<rows, broadcasts, found, sockets, connected, history>>
  BY DEF Return, gateway
<1> QED BY <1>1, <1>2, SocketShape, HistoryFields DEF Moves, Becomes, Active

(* ... an exception ...                                                    *)
LEMMA ThrowMoves ==
  ASSUME TypeOK, NEW c \in Creation, Throw(c)
  PROVE  Moves(c) /\ Becomes(c, "thrown", creations[c].todo, creations[c].count)
<1>1. Becomes(c, "thrown", creations[c].todo, creations[c].count)
  BY StepBecomes DEF Throw, CreationStep
<1>2. /\ creations[c].step \in {"storing", "channels"} /\ Unpushed(creations[c].user)
      /\ UNCHANGED <<rows, broadcasts, found, sockets, connected>>
  BY DEF Throw, gateway
<1>3. creations[c].user \in User
  BY <1>2, Fields
<1> QED BY <1>1, <1>2, <1>3, SocketShape, Unpushing DEF Moves, Becomes, Active

(* A failing channel: none of its rows, and the step the creation is at.   *)
LEMMA FailChannelMoves ==
  ASSUME TypeOK, NEW c \in Creation, FailChannel(c)
  PROVE  /\ Moves(c)
         /\ creations[c].user \in User /\ Unpushed(creations[c].user)
         /\ UNCHANGED <<rows, sockets>>
         /\ \/ creations'[c].step = "channels"
            \/ creations'[c].step = "pushing" /\ creations'[c].count = 0
         /\ creations[c].step \in {"channels", "counting", "pushing"}
         /\ creations[c].step \in {"counting", "pushing"} => creations'[c].todo = creations[c].todo
<1>1. /\ UNCHANGED <<rows, broadcasts, found, sockets, connected>> /\ Unpushed(creations[c].user)
  BY DEF FailChannel, gateway
<1>2. ASSUME NEW ch \in creations[c].todo, creations[c].step = "channels",
             creations' = [creations EXCEPT ![c].todo = @ \ {ch}]
      PROVE  Becomes(c, "channels", creations[c].todo \ {ch}, creations[c].count)
  BY <1>2, DropBecomes
<1>3. ASSUME creations[c].step \in {"counting", "pushing"}, Goto(c, "channels")
      PROVE  Becomes(c, "channels", creations[c].todo, creations[c].count)
  BY <1>3, StepBecomes DEF CreationStep
<1>4. ASSUME creations[c].step = "counting",
             creations' = [creations EXCEPT ![c].step = "pushing", ![c].count = 0]
      PROVE  Becomes(c, "pushing", creations[c].todo, 0)
  BY <1>4, StepAndCountBecome DEF CreationStep
<1>5. \E step \in {"channels", "pushing"}, todo \in SUBSET creations[c].todo, count \in Nat :
        /\ Becomes(c, step, todo, count) /\ (step = "pushing" => count = 0)
        /\ creations[c].step \in {"channels", "counting", "pushing"}
        /\ creations[c].step \in {"counting", "pushing"} => todo = creations[c].todo
  BY <1>2, <1>3, <1>4, Fields DEF FailChannel, NextChannel
<1>6. PICK step \in {"channels", "pushing"}, todo \in SUBSET creations[c].todo, count \in Nat :
        /\ Becomes(c, step, todo, count) /\ (step = "pushing" => count = 0)
        /\ creations[c].step \in {"channels", "counting", "pushing"}
        /\ creations[c].step \in {"counting", "pushing"} => todo = creations[c].todo
  BY <1>5
<1>7. creations[c].user \in User
  BY <1>6, Fields
<1>8. Moves(c)
  BY <1>1, <1>6, <1>7, SocketShape, Unpushing DEF Moves, Becomes, Active
<1> QED BY <1>1, <1>6, <1>7, <1>8 DEF Becomes

(* A channel that refuses what has expired is done with.                   *)
LEMMA RejectMoves ==
  ASSUME TypeOK, NEW c \in Creation, Reject(c)
  PROVE  /\ Moves(c)
         /\ creations[c].user \in User /\ Unpushed(creations[c].user)
         /\ UNCHANGED <<rows, sockets>>
         /\ creations[c].step = "channels" /\ creations'[c].step = "channels"
         /\ creations'[c].todo \subseteq creations[c].todo
<1>1. /\ UNCHANGED <<rows, broadcasts, found, sockets, connected>> /\ Unpushed(creations[c].user)
  BY DEF Reject, gateway
<1>2. PICK ch \in creations[c].todo :
        creations[c].step = "channels" /\ creations' = [creations EXCEPT ![c].todo = @ \ {ch}]
  BY DEF Reject, NextChannel
<1>3. Becomes(c, "channels", creations[c].todo \ {ch}, creations[c].count)
  BY <1>2, DropBecomes
<1>4. creations[c].user \in User
  BY <1>2, Fields
<1>5. Moves(c)
  BY <1>1, <1>2, <1>3, <1>4, SocketShape, Unpushing DEF Moves, Becomes, Active
<1> QED BY <1>1, <1>2, <1>3, <1>4, <1>5 DEF Becomes

(* ... and so every step of a creation.                                    *)
LEMMA CreateMoves ==
  ASSUME TypeOK, FinitelyMany, NEW c \in Creation, Create(c)
  PROVE  Moves(c)
  BY StoreMoves, InsertInAppMoves, InsertExternalMoves, CountUnreadMoves, EmitMoves, ReturnMoves,
     ThrowMoves, FailChannelMoves, RejectMoves DEF Create

-----------------------------------------------------------------------------
(* Type correctness *)

(* The part of the type invariant about requests and their answers.        *)
RequestsOK ==
  /\ users \subseteq User
  /\ preferences \in [User -> SUBSET Channel]
  /\ audits \subseteq RowId \X {"DELETE", "UPDATE"}
  /\ request = None \/ request \in [kind : Owned, row : RowId, sensitive : BOOLEAN]
  /\ served \in 0 .. MaxServed

(* Requests served stay within their bound.                                *)
LEMMA Serving ==
  ASSUME TypeOK, Serve
  PROVE  served' \in 0 .. MaxServed
  BY InboxAssumption DEF TypeOK, Serve

(* Creations keep these types.                                             *)
LEMMA CreateRequests ==
  ASSUME TypeOK, NEW c \in Creation, Create(c)
  PROVE  RequestsOK'
<1>1. UNCHANGED <<users, preferences, audits, request>>
  BY DEF Create, Store, InsertInApp, CountUnread, EmitUnreadCount, InsertExternal, Return, Throw,
     FailChannel, Reject
<1>2. served' = served \/ Serve
  BY DEF Create, Store, InsertInApp, CountUnread, EmitUnreadCount, InsertExternal, Return, Throw,
     FailChannel, Reject
<1> QED BY <1>1, <1>2, Serving DEF TypeOK, RequestsOK

(* Audit rows keep these types.                                            *)
LEMMA AuditRows ==
  ASSUME TypeOK, NEW n \in RowId, NEW action \in {"DELETE", "UPDATE"}, CreateAuditLog(n, action)
  PROVE  audits' \subseteq RowId \X {"DELETE", "UPDATE"}
  BY DEF TypeOK, CreateAuditLog

(* Requests of owners keep these types.                                    *)
LEMMA OwnerRequests ==
  ASSUME TypeOK, Owners
  PROVE  RequestsOK'
<1>1. ASSUME NEW n \in RowId, NEW kind \in Owned, Find(kind, n) PROVE RequestsOK'
  <2>1. rows[n].sensitive \in BOOLEAN
    BY <1>1, StoredRows DEF Find, Row
  <2> QED BY <1>1, <2>1, Serving DEF Find, TypeOK, RequestsOK
<1>2. ASSUME NEW n \in RowId, MarkAsSensitive(n) \/ \E date \in Dates : SetRetentionDate(n, date)
      PROVE  RequestsOK'
  BY <1>2, Serving DEF MarkAsSensitive, SetRetentionDate, TypeOK, RequestsOK
<1>3. CASE MarkAsRead
  BY <1>3 DEF MarkAsRead, TypeOK, RequestsOK
<1>4. CASE SoftDeleteNotification
  <2>1. request.row \in RowId
    BY <1>4 DEF SoftDeleteNotification, Stored
  <2> QED BY <1>4, <2>1, AuditRows DEF SoftDeleteNotification, TypeOK, RequestsOK
<1>5. CASE RestoreNotification
  <2>1. request.row \in RowId
    BY <1>5 DEF RestoreNotification, Stored
  <2> QED BY <1>5, <2>1, AuditRows DEF RestoreNotification, TypeOK, RequestsOK
<1>6. CASE FailRequest
  BY <1>6 DEF FailRequest, TypeOK, RequestsOK
<1>7. ASSUME NEW u \in User, MarkAllAsRead(u) PROVE RequestsOK'
  BY <1>7, Serving DEF MarkAllAsRead, TypeOK, RequestsOK
<1>8. ASSUME NEW u \in User, DeleteUser(u) PROVE RequestsOK'
  BY <1>8, Serving DEF DeleteUser, TypeOK, RequestsOK
<1>9. ASSUME NEW u \in User, NEW enabled \in Choices, UpdatePreference(u, enabled) PROVE RequestsOK'
  <2>1. enabled \in SUBSET Channel
    BY InboxAssumption
  <2> QED BY <1>9, <2>1, Serving DEF UpdatePreference, TypeOK, RequestsOK
<1> QED BY <1>1, <1>2, <1>3, <1>4, <1>5, <1>6, <1>7, <1>8, <1>9 DEF Owners

(* Every step keeps these types.                                           *)
LEMMA RequestTypes ==
  ASSUME TypeOK, [Next]_vars
  PROVE  RequestsOK'
<1>1. CASE UNCHANGED vars \/ Tick
  BY <1>1 DEF vars, Tick, TypeOK, RequestsOK
<1>2. CASE Step
  <2>1. CASE CreateNotification \/ \E event : HandleEvent(event)
    <3>1. \E expires : \/ \E c \in Creation, u \in User : SendToUser(c, u, expires)
                       \/ \E b \in Broadcast : SendToTenant(b, expires)
      BY <2>1 DEF CreateNotification, HandleEvent
    <3> QED BY <3>1, Serving DEF SendToUser, SendToTenant, TypeOK, RequestsOK
  <2>2. ASSUME NEW c \in Creation, Create(c) PROVE RequestsOK'
    BY <2>2, CreateRequests
  <2>3. ASSUME NEW b \in Broadcast, NextOfBroadcast(b) PROVE RequestsOK'
    BY <2>3 DEF NextOfBroadcast, TypeOK, RequestsOK
  <2>4. CASE Owners
    BY <2>4, OwnerRequests
  <2>5. CASE FindExpired \/ StopRetention
    BY <2>5, Serving DEF FindExpired, StopRetention, TypeOK, RequestsOK
  <2>6. CASE DeleteExpired
    BY <2>6 DEF DeleteExpired, TypeOK, RequestsOK
  <2>7. ASSUME NEW s \in Socket, Connect(s)
        PROVE  RequestsOK'
    BY <2>7, Serving DEF Connect, HandleConnection, ValidateToken, RejectToken, SetConnected, FailJoin,
       HandleDisconnect, TypeOK, RequestsOK
  <2> QED BY <1>2, <2>1, <2>2, <2>3, <2>4, <2>5, <2>6, <2>7 DEF Step
<1> QED BY <1>1, <1>2 DEF Next

(* The part of the type invariant about broadcasts.                        *)
BroadcastsOK == broadcasts \in [Broadcast -> [step : {"new", "running", "ended"}, expires : Date,
                                              listed : SUBSET User, todo : SUBSET User]]
SocketsOK ==
  /\ sockets \in [Socket -> SocketRecord]
  /\ connected \in [User -> Socket \cup {None}]

(* What a step of the gateway leaves alone.                                *)
LEMMA ConnectKeeps ==
  ASSUME NEW s \in Socket, Connect(s)
  PROVE  UNCHANGED <<rows, creations, broadcasts, found>>
  BY DEF Connect, HandleConnection, ValidateToken, RejectToken, SetConnected, FailJoin, HandleDisconnect, calls

(* What it makes of the history.                                           *)
LEMMA ConnectHistory ==
  ASSUME TypeOK, NEW s \in Socket, Connect(s)
  PROVE  /\ history' \in HistoryShape /\ SameUsers
         /\ history'.last = history.last /\ history'.changed = history.changed
         /\ history.reconnected \subseteq history'.reconnected
         /\ \A u \in User :
              ValidateToken(s, u) /\ (\E t \in Socket : sockets[t].user = u /\ Live(t)) =>
                u \in history'.reconnected
<1>1. CASE history' = history /\ \A u \in User : ~ValidateToken(s, u)
  BY <1>1, HistoryFields DEF SameUsers
<1>2. ASSUME NEW u \in User, ValidateToken(s, u)
      PROVE  /\ history' \in HistoryShape /\ SameUsers
             /\ history'.last = history.last /\ history'.changed = history.changed
             /\ history.reconnected \subseteq history'.reconnected
             /\ (\E t \in Socket : sockets[t].user = u /\ Live(t)) => u \in history'.reconnected
  <2> DEFINE more == IF \E other \in Socket : sockets[other].user = u /\ Live(other)
                     THEN history.reconnected \cup {u} ELSE history.reconnected
  <2>1. /\ more \in SUBSET User /\ history.reconnected \subseteq more
        /\ (\E t \in Socket : sockets[t].user = u /\ Live(t)) => u \in more
    BY HistoryFields
  <2>2. history' = [history EXCEPT !.reconnected = more]
    BY <1>2 DEF ValidateToken
  <2> HIDE DEF more
  <2> QED BY <2>1, <2>2, HistoryFields DEF HistoryShape, SameUsers
<1> QED BY <1>1, <1>2 DEF Connect, HandleConnection, RejectToken, SetConnected, FailJoin, HandleDisconnect

(* What it makes of the socket; the others stay as they are.               *)
Turns(s, step, closed, user, count) ==
  /\ sockets' \in [Socket -> SocketRecord]
  /\ sockets'[s].step = step /\ sockets'[s].closed = closed
  /\ sockets'[s].user = user /\ sockets'[s].count = count
  /\ \A t \in Socket \ {s} : sockets'[t] = sockets[t]

(* How each step of the gateway turns its socket.                          *)
LEMMA Turning ==
  ASSUME TypeOK, NEW s \in Socket
  PROVE  /\ HandleConnection(s) =>
              Turns(s, "checking", sockets[s].closed, sockets[s].user, sockets[s].count)
         /\ \A u \in User : ValidateToken(s, u) =>
              Turns(s, "joining", sockets[s].closed, u, sockets[s].count)
         /\ RejectToken(s) => Turns(s, "done", "early", sockets[s].user, sockets[s].count)
         /\ SetConnected(s) => Turns(s, "done", sockets[s].closed, sockets[s].user, sockets[s].count)
         /\ FailJoin(s) => Turns(s, "done", "early", sockets[s].user, None)
         /\ HandleDisconnect(s) => Turns(s, sockets[s].step, Closing(s), sockets[s].user, None)
<1>1. sockets \in [Socket -> SocketRecord] /\ sockets[s] \in SocketRecord
  BY SocketShape
<1> DEFINE closing(step, closed) == [sockets[s] EXCEPT !.step = step, !.closed = closed, !.count = None]
           rejected == [sockets[s] EXCEPT !.step = "done", !.closed = "early"]
<1>0. /\ rejected \in SocketRecord /\ rejected.step = "done" /\ rejected.closed = "early"
      /\ rejected.user = sockets[s].user /\ rejected.count = sockets[s].count
      /\ \A step \in {"new", "checking", "joining", "done"}, closed \in {"early", "late"} :
           /\ closing(step, closed) \in SocketRecord
           /\ closing(step, closed).step = step /\ closing(step, closed).closed = closed
           /\ closing(step, closed).user = sockets[s].user /\ closing(step, closed).count = None
  BY <1>1 DEF SocketRecord
<1>2. HandleConnection(s) => Turns(s, "checking", sockets[s].closed, sockets[s].user, sockets[s].count)
  BY <1>1 DEF HandleConnection, Turns, SocketRecord
<1>3. ASSUME NEW u \in User, ValidateToken(s, u)
      PROVE  Turns(s, "joining", sockets[s].closed, u, sockets[s].count)
  BY <1>1, <1>3 DEF ValidateToken, Turns, SocketRecord
<1>4. RejectToken(s) => Turns(s, "done", "early", sockets[s].user, sockets[s].count)
  <2>1. RejectToken(s) => sockets' = [sockets EXCEPT ![s] = rejected]
    BY <1>1 DEF RejectToken
  <2> HIDE DEF rejected
  <2> QED BY <1>0, <1>1, <2>1 DEF Turns
<1>5. SetConnected(s) => Turns(s, "done", sockets[s].closed, sockets[s].user, sockets[s].count)
  BY <1>1 DEF SetConnected, Turns, SocketRecord
<1>6. FailJoin(s) => Turns(s, "done", "early", sockets[s].user, None)
  <2>1. FailJoin(s) => sockets' = [sockets EXCEPT ![s] = closing("done", "early")]
    BY <1>1 DEF FailJoin
  <2> HIDE DEF closing
  <2> QED BY <1>0, <1>1, <2>1 DEF Turns
<1>7. HandleDisconnect(s) => Turns(s, sockets[s].step, Closing(s), sockets[s].user, None)
  <2>1. Closing(s) \in {"early", "late"} /\ sockets[s].step \in {"new", "checking", "joining", "done"}
    BY SocketShape DEF Closing
  <2>2. HandleDisconnect(s) => sockets' = [sockets EXCEPT ![s] = closing(sockets[s].step, Closing(s))]
    BY <1>1 DEF HandleDisconnect, SocketRecord
  <2> HIDE DEF closing
  <2> QED BY <1>0, <1>1, <2>1, <2>2 DEF Turns
<1> QED BY <1>2, <1>3, <1>4, <1>5, <1>6, <1>7

(* So sockets and map keep their types.                                    *)
LEMMA ConnectTypes ==
  ASSUME TypeOK, NEW s \in Socket, Connect(s)
  PROVE  SocketsOK'
<1>1. sockets' \in [Socket -> SocketRecord]
  BY Turning DEF Connect, Turns
<1>2. connected' \in [User -> Socket \cup {None}]
  BY DEF TypeOK, Connect, HandleConnection, ValidateToken, RejectToken, SetConnected, FailJoin,
     HandleDisconnect
<1> QED BY <1>1, <1>2 DEF SocketsOK

(* Every step keeps the types of broadcasts.                               *)
LEMMA BroadcastTypes ==
  ASSUME TypeOK, FinitelyMany, Kinds
  PROVE  BroadcastsOK'
<1>0. BroadcastsOK
  BY DEF TypeOK, BroadcastsOK
<1>1. ASSUME NEW c \in Creation, NEW u \in User, NEW b \in Broadcast \cup {None}, NEW e \in Date,
             Begins(c, u, b, e)
      PROVE  BroadcastsOK'
  BY <1>0, <1>1 DEF Begins, BroadcastsOK
<1>2. ASSUME NEW b \in Broadcast, Sending(b) \/ Ends(b)
      PROVE  BroadcastsOK'
  <2>1. users \in SUBSET User
    BY DEF TypeOK
  <2> QED BY <1>0, <1>2, <2>1 DEF BroadcastsOK, Sending, SendToTenant, Ends
<1>3. ASSUME NEW c \in Creation, Create(c) PROVE BroadcastsOK'
  BY <1>0, <1>3, CreateMoves DEF Moves, BroadcastsOK
<1>4. CASE Idles \/ Edits
  BY <1>0, <1>4 DEF Idles, Edits, BroadcastsOK
<1>5. CASE FindExpired \/ StopRetention \/ Tick
  BY <1>0, <1>5 DEF FindExpired, StopRetention, Tick, calls, BroadcastsOK
<1>6. ASSUME NEW s \in Socket, Connect(s)
      PROVE  BroadcastsOK'
  BY <1>0, <1>6, ConnectKeeps DEF BroadcastsOK
<1> QED BY <1>1, <1>2, <1>3, <1>4, <1>5, <1>6 DEF Kinds

(* Every step keeps the types of sockets.                                  *)
LEMMA SocketTypes ==
  ASSUME TypeOK, FinitelyMany, Kinds
  PROVE  SocketsOK'
<1>0. SocketsOK
  BY DEF TypeOK, SocketsOK
<1>1. ASSUME NEW c \in Creation, NEW u \in User, NEW b \in Broadcast \cup {None}, NEW e \in Date,
             Begins(c, u, b, e)
      PROVE  SocketsOK'
  BY <1>0, <1>1 DEF Begins, SocketsOK
<1>2. ASSUME NEW b \in Broadcast, Sending(b) \/ Ends(b)
      PROVE  SocketsOK'
  BY <1>0, <1>2 DEF SocketsOK, Sending, SendToTenant, Ends, gateway
<1>3. ASSUME NEW c \in Creation, Create(c) PROVE SocketsOK'
  BY <1>0, <1>3, CreateMoves DEF Moves, SocketsOK
<1>4. CASE Idles \/ Edits
  BY <1>0, <1>4 DEF Idles, Edits, SocketsOK
<1>5. CASE FindExpired \/ StopRetention \/ Tick
  BY <1>0, <1>5 DEF FindExpired, StopRetention, Tick, gateway, SocketsOK
<1>6. ASSUME NEW s \in Socket, Connect(s)
      PROVE  SocketsOK'
  BY <1>6, ConnectTypes
<1> QED BY <1>1, <1>2, <1>3, <1>4, <1>5, <1>6 DEF Kinds

(* The part of the type invariant about the retention job.                 *)
RetentionOK == found = None \/ found \subseteq RowId \X BOOLEAN

(* The job finds the rows that are due.                                    *)
LEMMA Finding ==
  ASSUME TypeOK, FindExpired
  PROVE  /\ RetentionOK' /\ history' \in HistoryShape /\ SameUsers
         /\ history'.last = history.last /\ history'.reconnected = history.reconnected
         /\ found' = {<<n, rows[n].sensitive>> : n \in {m \in Stored : Due(m)}}
<1>1. found' = {<<n, rows[n].sensitive>> : n \in {m \in Stored : Due(m)}}
  BY DEF FindExpired
<1>2. \A n \in Stored : n \in RowId /\ rows[n].sensitive \in BOOLEAN
  BY StoredRows DEF Row
<1>3. RetentionOK'
  BY <1>1, <1>2 DEF RetentionOK
<1>4. history' = [history EXCEPT !.changed = {}]
  BY DEF FindExpired
<1> QED BY <1>1, <1>3, <1>4, HistoryFields DEF HistoryShape, SameUsers

(* Every step keeps the types of the job and the clock.                    *)
LEMMA RetentionTypes ==
  ASSUME TypeOK, FinitelyMany, Kinds
  PROVE  RetentionOK' /\ day' \in 0 .. LastDay
<1>0. RetentionOK /\ day \in 0 .. LastDay
  BY DEF TypeOK, RetentionOK
<1>1. ASSUME NEW c \in Creation, NEW u \in User, NEW b \in Broadcast \cup {None}, NEW e \in Date,
             Begins(c, u, b, e)
      PROVE  RetentionOK' /\ day' \in 0 .. LastDay
  BY <1>0, <1>1 DEF Begins, RetentionOK
<1>2. ASSUME NEW b \in Broadcast, (Sending(b) /\ UNCHANGED day) \/ Ends(b)
      PROVE  RetentionOK' /\ day' \in 0 .. LastDay
  BY <1>0, <1>2 DEF RetentionOK, Sending, SendToTenant, Ends
<1>3. ASSUME NEW c \in Creation, Create(c), UNCHANGED day PROVE RetentionOK' /\ day' \in 0 .. LastDay
  BY <1>0, <1>3, CreateMoves DEF Moves, RetentionOK
<1>4. CASE Idles \/ (Edits /\ UNCHANGED day)
  BY <1>0, <1>4 DEF Idles, Edits, RetentionOK
<1>5. CASE Tick
  BY <1>0, <1>5, InboxAssumption DEF Tick, RetentionOK
<1>6. CASE (FindExpired \/ StopRetention) /\ UNCHANGED day
  BY <1>0, <1>6, Finding DEF StopRetention, RetentionOK
<1>7. ASSUME NEW s \in Socket, Connect(s),
             UNCHANGED day
      PROVE  RetentionOK' /\ day' \in 0 .. LastDay
  BY <1>0, <1>7, ConnectKeeps DEF RetentionOK
<1> QED BY <1>1, <1>2, <1>3, <1>4, <1>5, <1>6, <1>7 DEF Kinds

(* The steps that leave the rows and the creations as they are.            *)
Rests ==
  /\ UNCHANGED <<rows, creations>>
  /\ history' \in HistoryShape /\ SameUsers /\ history'.last = history.last

(* A step edits rows, begins or moves a creation, or leaves rows and       *)
(* creations alone.                                                        *)
LEMMA RestKinds ==
  ASSUME TypeOK, FinitelyMany, Kinds
  PROVE  \/ Rests
         \/ Edits /\ UNCHANGED day
         \/ \E c \in Creation, u \in User, b \in Broadcast \cup {None}, e \in Date : Begins(c, u, b, e)
         \/ \E c \in Creation : Create(c) /\ Moves(c) /\ UNCHANGED day
<1>1. ASSUME NEW b \in Broadcast, Sending(b) \/ Ends(b) PROVE Rests
  BY <1>1, HistoryFields DEF Sending, SendToTenant, Ends, Rests, SameUsers
<1>2. CASE Idles \/ StopRetention \/ Tick
  BY <1>2, HistoryFields DEF Idles, StopRetention, Tick, calls, Rests, SameUsers
<1>3. CASE FindExpired
  <2>1. UNCHANGED <<rows, creations>>
    BY <1>3 DEF FindExpired, calls
  <2> QED BY <1>3, <2>1, Finding DEF Rests
<1>4. ASSUME NEW s \in Socket, Connect(s) PROVE Rests
  BY <1>4, ConnectKeeps, ConnectHistory DEF Rests
<1>5. ASSUME NEW c \in Creation, Create(c), UNCHANGED day
      PROVE  \E d \in Creation : Create(d) /\ Moves(d) /\ UNCHANGED day
  BY <1>5, CreateMoves
<1> QED BY <1>1, <1>2, <1>3, <1>4, <1>5 DEF Kinds

(* Every step keeps the types of rows and creations.                       *)
LEMMA RowTypes ==
  ASSUME TypeOK, FinitelyMany, Kinds
  PROVE  RowsOK' /\ CreationsOK' /\ history' \in HistoryShape /\ FinitelyMany'
<1>0. RowsOK /\ CreationsOK
  BY DEF TypeOK, RowsOK, CreationsOK, CreationShape
<1>1. CASE Rests
  BY <1>0, <1>1 DEF Rests, RowsOK, CreationsOK, FinitelyMany, Stored
<1>2. CASE Edits
  <2>1. Stored' \subseteq Stored
    BY <1>2 DEF Edits, Stored
  <2> QED BY <1>0, <1>2, <2>1, FS_Subset DEF Edits, CreationsOK, FinitelyMany
<1>3. ASSUME NEW c \in Creation, NEW u \in User, NEW b \in Broadcast \cup {None}, NEW e \in Date,
             Begins(c, u, b, e)
      PROVE  RowsOK' /\ CreationsOK' /\ history' \in HistoryShape /\ FinitelyMany'
  <2>1. Start(c, u, b, e) /\ UNCHANGED rows
    BY <1>3 DEF Begins
  <2>2. CreationsOK'
    BY <1>0, <2>1, Starting DEF Starts, CreationsOK
  <2> QED BY <1>0, <2>1, <2>2, Crowding DEF RowsOK, FinitelyMany, Stored
<1>4. ASSUME NEW c \in Creation, Moves(c)
      PROVE  RowsOK' /\ CreationsOK' /\ history' \in HistoryShape /\ FinitelyMany'
  <2>1. CreationsOK'
    <3>1. creations[c].user \in User
      BY <1>4, Fields DEF Moves, Active
    <3> QED BY <1>0, <1>4, <3>1 DEF Moves, CreationsOK
  <2>2. CASE UNCHANGED rows
    BY <1>0, <1>4, <2>1, <2>2 DEF Moves, RowsOK, FinitelyMany, Stored
  <2>3. ASSUME NEW n \in RowId, Insert(n)
        PROVE  RowsOK' /\ FinitelyMany'
    BY <2>3, Inserting, FS_AddElement DEF FinitelyMany
  <2> QED BY <1>4, <2>1, <2>2, <2>3 DEF Moves
<1> QED BY <1>1, <1>2, <1>3, <1>4, RestKinds

(* Every step keeps all types.                                             *)
LEMMA StepTypes ==
  ASSUME TypeOK, FinitelyMany, [Next]_vars
  PROVE  TypeOK' /\ FinitelyMany'
<1>1. Kinds
  BY StepKinds
<1> QED
  BY <1>1, RequestTypes, BroadcastTypes, SocketTypes, RetentionTypes, RowTypes
  DEF TypeOK, RequestsOK, BroadcastsOK, SocketsOK, RetentionOK, RowsOK, CreationsOK,
      CreationShape, HistoryShape

-----------------------------------------------------------------------------
(* The gateway *)

(* Steps of the gateway keep what is known of the other sockets.           *)
LEMMA OthersKnown ==
  ASSUME NEW s \in Socket, NEW step, NEW closed, NEW user, NEW count, Turns(s, step, closed, user, count)
  PROVE  \A t \in Socket \ {s} :
           /\ sockets'[t] = sockets[t] /\ (Sound(t) => Sound(t)')
           /\ (Up(t)' <=> Up(t)) /\ (Live(t)' <=> Live(t))
  BY DEF Turns, Sound, Up, Live

(* A connection turns a socket that nobody knows yet.                      *)
LEMMA ConnectionKnown ==
  ASSUME TypeOK, SocketsKnown, NEW s \in Socket, HandleConnection(s) \/ RejectToken(s)
  PROVE  SocketsKnown'
<1>0. /\ \A v \in User : connected[v] \in Socket \cup {None}
      /\ None \notin User
  BY InboxAssumption DEF TypeOK
<1>1. /\ sockets[s].step \in {"new", "checking"} /\ sockets[s].user = None /\ sockets[s].count = None
      /\ sockets[s].closed # "late" /\ connected' = connected /\ history' = history
  BY DEF HandleConnection, RejectToken, SocketsKnown, Sound
<1>2. /\ sockets'[s].step \in {"checking", "done"} /\ sockets'[s].user = None /\ sockets'[s].count = None
      /\ sockets'[s].step # "done" => sockets'[s].closed # "late"
      /\ \A t \in Socket \ {s} :
           /\ sockets'[t] = sockets[t] /\ (Sound(t) => Sound(t)')
           /\ (Up(t)' <=> Up(t)) /\ (Live(t)' <=> Live(t))
  BY <1>1, Turning, OthersKnown DEF Turns
<1>3. Sound(s)'
  BY <1>2 DEF Sound
<1>4. \A v \in User : connected[v] # s
  BY <1>1, InboxAssumption DEF SocketsKnown
<1> QED BY <1>0, <1>1, <1>2, <1>3, <1>4 DEF SocketsKnown

(* A token that is valid makes the socket live for its user.               *)
LEMMA ValidationKnown ==
  ASSUME TypeOK, SocketsKnown, NEW s \in Socket, NEW u \in User, ValidateToken(s, u)
  PROVE  SocketsKnown'
<1>0. /\ \A v \in User : connected[v] \in Socket \cup {None}
      /\ None \notin User
  BY InboxAssumption DEF TypeOK
<1>1. /\ sockets[s].step = "checking" /\ sockets[s].user = None /\ sockets[s].count = None
      /\ sockets[s].closed # "late" /\ connected' = connected
  BY DEF ValidateToken, SocketsKnown, Sound
<1>2. /\ sockets'[s].step = "joining" /\ sockets'[s].user = u /\ sockets'[s].count = None
      /\ sockets'[s].closed = sockets[s].closed
      /\ \A t \in Socket \ {s} :
           /\ sockets'[t] = sockets[t] /\ (Sound(t) => Sound(t)')
           /\ (Up(t)' <=> Up(t)) /\ (Live(t)' <=> Live(t))
  BY <1>1, Turning, OthersKnown DEF Turns
<1>3. Sound(s)'
  BY <1>1, <1>2 DEF Sound
<1>4. \A v \in User : connected[v] # s
  BY <1>1, InboxAssumption DEF SocketsKnown
<1>5. /\ history.reconnected \subseteq history'.reconnected
      /\ (\E t \in Socket : sockets[t].user = u /\ Live(t)) => u \in history'.reconnected
  BY ConnectHistory DEF Connect
<1>6. ASSUME NEW t \in Socket, NEW r \in Socket, NEW v \in User,
             sockets'[t].user = v, sockets'[r].user = v, Live(t)', Live(r)', t # r
      PROVE  v \in history'.reconnected
  <2>1. CASE t # s /\ r # s
    BY <1>2, <1>5, <1>6, <2>1 DEF SocketsKnown
  <2>2. CASE t = s \/ r = s
    BY <1>2, <1>5, <1>6, <2>2
  <2> QED BY <2>1, <2>2
<1>7. ASSUME NEW t \in Socket, NEW v \in User, sockets'[t].user = v, Up(t)', sockets'[t].step = "done",
             v \notin history'.reconnected
      PROVE  connected'[v] = t
  BY <1>1, <1>2, <1>5, <1>7 DEF SocketsKnown
<1> QED BY <1>0, <1>1, <1>2, <1>3, <1>4, <1>6, <1>7 DEF SocketsKnown

(* The map comes to know the socket.                                       *)
LEMMA SettingKnown ==
  ASSUME TypeOK, SocketsKnown, NEW s \in Socket, SetConnected(s)
  PROVE  SocketsKnown'
<1> DEFINE u == sockets[s].user
<1>0. /\ \A v \in User : connected[v] \in Socket \cup {None}
      /\ None \notin User
  BY InboxAssumption DEF TypeOK
<1>1. /\ sockets[s].step = "joining" /\ u \in User /\ sockets[s].closed # "late"
      /\ (~Up(s) => sockets[s].count = None) /\ history' = history
      /\ connected'[u] = s /\ \A v \in User \ {u} : connected'[v] = connected[v]
  BY DEF SetConnected, SocketsKnown, Sound, TypeOK
<1>2. /\ sockets'[s].step = "done" /\ sockets'[s].user = u /\ sockets'[s].count = sockets[s].count
      /\ sockets'[s].closed = sockets[s].closed
      /\ \A t \in Socket \ {s} :
           /\ sockets'[t] = sockets[t] /\ (Sound(t) => Sound(t)')
           /\ (Up(t)' <=> Up(t)) /\ (Live(t)' <=> Live(t))
  BY <1>1, Turning, OthersKnown DEF Turns
<1> HIDE DEF u
<1>3. sockets[s].user = u /\ Live(s) /\ (Up(s)' => Up(s)) /\ (Live(s)' => Live(s))
  BY <1>1, <1>2 DEF u, Live, Up
<1>4. Sound(s)'
  BY <1>1, <1>2 DEF Sound, Up
<1>5. ASSUME NEW t \in Socket, NEW v \in User, sockets'[t].user = v, Up(t)', sockets'[t].step = "done",
             v \notin history'.reconnected
      PROVE  connected'[v] = t
  <2>1. CASE t = s
    BY <1>1, <1>2, <1>5, <2>1
  <2>2. CASE t # s
    <3>1. v # u
      BY <1>1, <1>2, <1>3, <1>5, <2>2 DEF SocketsKnown, Live
    <3> QED BY <1>1, <1>2, <1>5, <2>2, <3>1 DEF SocketsKnown
  <2> QED BY <2>1, <2>2
<1>6. ASSUME NEW v \in User, connected'[v] # None
      PROVE  /\ sockets'[connected'[v]].user = v /\ sockets'[connected'[v]].step = "done"
             /\ sockets'[connected'[v]].closed # "late"
  <2>1. CASE v = u
    BY <1>1, <1>2, <2>1
  <2>2. CASE v # u
    <3>1. /\ connected'[v] = connected[v] /\ connected[v] \in Socket
          /\ sockets[connected[v]].user = v /\ sockets[connected[v]].step = "done"
          /\ sockets[connected[v]].closed # "late"
      BY <1>0, <1>1, <1>6, <2>2 DEF SocketsKnown
    <3> QED BY <1>1, <1>2, <3>1
  <2> QED BY <2>1, <2>2
<1> QED BY <1>1, <1>2, <1>3, <1>4, <1>5, <1>6 DEF SocketsKnown

(* A socket that is closed, by the client or because joining failed, takes *)
(* the entry of its user along.                                            *)
LEMMA ClosingKnown ==
  ASSUME TypeOK, SocketsKnown, NEW s \in Socket, HandleDisconnect(s) \/ FailJoin(s)
  PROVE  SocketsKnown'
<1> DEFINE u == sockets[s].user
<1>0. /\ \A v \in User : connected[v] \in Socket \cup {None} /\ v # None
      /\ None \notin User
  BY InboxAssumption DEF TypeOK
<1>1. /\ Up(s) => \A v \in User : connected'[v] = IF v = u THEN None ELSE connected[v]
      /\ ~Up(s) => connected' = connected /\ sockets[s].step = "joining"
  BY <1>0 DEF HandleDisconnect, FailJoin, SocketsKnown, Sound, TypeOK, Up
<1>2. /\ sockets'[s].user = u /\ sockets'[s].count = None /\ sockets'[s].closed # "not"
      /\ sockets'[s].step = sockets[s].step \/ (sockets[s].step = "joining" /\ sockets'[s].step = "done")
      /\ sockets'[s].step # "done" => sockets'[s].closed # "late"
      /\ \A t \in Socket \ {s} :
           /\ sockets'[t] = sockets[t] /\ (Sound(t) => Sound(t)')
           /\ (Up(t)' <=> Up(t)) /\ (Live(t)' <=> Live(t))
  BY Turning, OthersKnown DEF Turns, Closing, FailJoin
<1>3. history' = history
  BY DEF HandleDisconnect, FailJoin
<1>4. ~Up(s)' /\ (Live(s)' => Live(s))
  BY <1>2 DEF Up, Live
<1> HIDE DEF u
<1>5. sockets[s].user = u
  BY DEF u
<1>6. Sound(s)'
  BY <1>2, <1>5, SocketShape DEF SocketsKnown, Sound
<1>7. ASSUME NEW v \in User, connected'[v] # None
      PROVE  connected'[v] = connected[v] /\ connected[v] # s
  <2>1. connected'[v] = connected[v]
    BY <1>1, <1>7
  <2>2. CASE Up(s)
    BY <1>1, <1>5, <1>7, <2>1, <2>2 DEF SocketsKnown
  <2>3. CASE ~Up(s)
    BY <1>1, <1>7, <2>1, <2>3 DEF SocketsKnown
  <2> QED BY <2>1, <2>2, <2>3
<1>8. ASSUME NEW v \in User, connected'[v] # None
      PROVE  /\ sockets'[connected'[v]].user = v /\ sockets'[connected'[v]].step = "done"
             /\ sockets'[connected'[v]].closed # "late"
  BY <1>0, <1>2, <1>7, <1>8 DEF SocketsKnown
<1>9. ASSUME NEW t \in Socket, NEW v \in User, sockets'[t].user = v, Up(t)', sockets'[t].step = "done",
             v \notin history'.reconnected
      PROVE  connected'[v] = t
  <2>1. t # s /\ sockets[t].user = v /\ Up(t) /\ sockets[t].step = "done" /\ v \notin history.reconnected
    BY <1>2, <1>3, <1>4, <1>9
  <2>2. connected[v] = t
    BY <2>1 DEF SocketsKnown
  <2>3. Up(s) => v # u
    BY <1>5, <2>1 DEF SocketsKnown, Live
  <2> QED BY <1>1, <2>2, <2>3
<1> QED BY <1>2, <1>3, <1>4, <1>5, <1>6, <1>8, <1>9 DEF SocketsKnown

(* The map of connected users stays within the sockets.                    *)
LEMMA SocketsStep ==
  ASSUME TypeOK, FinitelyMany, SocketsKnown, Kinds
  PROVE  SocketsKnown'
<1>1. CASE UNCHANGED <<sockets, connected>> /\ history'.reconnected = history.reconnected
  BY <1>1 DEF SocketsKnown, Sound, Up, Live
<1>2. CASE Idles \/ Edits
  BY <1>1, <1>2 DEF Idles, Edits
<1>3. ASSUME NEW c \in Creation, NEW u \in User, NEW b \in Broadcast \cup {None}, NEW e \in Date,
             Begins(c, u, b, e)
      PROVE  SocketsKnown'
  BY <1>1, <1>3, Crowding DEF Begins
<1>4. ASSUME NEW b \in Broadcast, Sending(b) \/ Ends(b) PROVE SocketsKnown'
  BY <1>1, <1>4 DEF Sending, SendToTenant, Ends, gateway
<1>5. CASE StopRetention \/ Tick
  BY <1>1, <1>5 DEF StopRetention, Tick, gateway
<1>6. CASE FindExpired
  BY <1>1, <1>6, Finding DEF FindExpired, gateway
<1>7. ASSUME NEW c \in Creation, Create(c) PROVE SocketsKnown'
  <2>1. Moves(c) /\ creations[c].user \in User
    BY <1>7, CreateMoves, Fields DEF Moves, Active
  <2>2. connected' = connected /\ history'.reconnected = history.reconnected
    BY <2>1 DEF Moves
  <2>3. \A s \in Socket :
          /\ sockets'[s].user = sockets[s].user /\ sockets'[s].step = sockets[s].step
          /\ sockets'[s].closed = sockets[s].closed
          /\ (Up(s)' <=> Up(s)) /\ (Live(s)' <=> Live(s))
    BY <2>1 DEF Moves, Up, Live
  <2>4. \A s \in Socket : Sound(s)'
    BY <2>1, <2>3, InboxAssumption DEF Moves, SocketsKnown, Sound
  <2>5. \A u \in User : connected[u] \in Socket \cup {None}
    BY DEF TypeOK
  <2> QED BY <2>2, <2>3, <2>4, <2>5 DEF SocketsKnown
<1>8. ASSUME NEW s \in Socket, Connect(s) PROVE SocketsKnown'
  BY <1>8, ConnectionKnown, ValidationKnown, SettingKnown, ClosingKnown DEF Connect
<1> QED BY <1>2, <1>3, <1>4, <1>5, <1>6, <1>7, <1>8 DEF Kinds

(* That makes the map right.                                               *)
LEMMA MapFromSockets == SocketsKnown => ConnectedMapRight
  BY InboxAssumption DEF SocketsKnown, ConnectedMapRight, IsUserConnected

-----------------------------------------------------------------------------
(* The rows and their creations *)

(* What a creation has written it does not write again.                    *)
LEMMA SpentStays ==
  ASSUME TypeOK, FinitelyMany, Kinds, NEW n \in RowId, Spent(n)
  PROVE  Spent(n)'
<1>1. CASE Rests \/ Edits
  BY <1>1 DEF Rests, Edits, Spent
<1>2. ASSUME NEW c \in Creation, NEW u \in User, NEW b \in Broadcast \cup {None}, NEW e \in Date,
             Begins(c, u, b, e)
      PROVE  Spent(n)'
  BY <1>2, Starting, Ids DEF Begins, Starts, Spent
<1>3. ASSUME NEW c \in Creation, Moves(c) PROVE Spent(n)'
  BY <1>3, Ids DEF Moves, Spent
<1> QED BY <1>1, <1>2, <1>3, RestKinds

(* The in-app row is inserted once.                                        *)
LEMMA AppDoneStays ==
  ASSUME TypeOK, FinitelyMany, NEW c \in Creation, Create(c), AppDone(c),
         creations[c].step # "storing"
  PROVE  AppDone(c)'
<1>1. CASE InsertInApp(c) \/ CountUnread(c) \/ EmitUnreadCount(c) \/ Store(c)
  BY <1>1 DEF InsertInApp, CountUnread, EmitUnreadCount, Store, AppDone
<1>2. ASSUME NEW ch \in External, InsertExternal(c, ch) PROVE AppDone(c)'
  BY <1>2, InsertExternalMoves DEF AppDone, Becomes
<1>3. CASE Return(c) \/ Throw(c)
  BY <1>3, ReturnMoves, ThrowMoves DEF AppDone, Becomes
<1>4. CASE FailChannel(c)
  <2>1. creations[c].step = "channels"
    BY <1>4, FailChannelMoves DEF AppDone
  <2>2. PICK ch : creations' = [creations EXCEPT ![c].todo = @ \ {ch}]
    BY <1>4, <2>1 DEF FailChannel
  <2>3. Becomes(c, creations[c].step, creations[c].todo \ {ch}, creations[c].count)
    BY <2>2, DropBecomes
  <2> QED BY <2>1, <2>3 DEF AppDone, Becomes
<1>5. CASE Reject(c)
  BY <1>5, RejectMoves DEF AppDone
<1> QED BY <1>1, <1>2, <1>3, <1>4, <1>5 DEF Create

(* Rows stay those of their creations.                                     *)
LEMMA RowsStep ==
  ASSUME TypeOK, FinitelyMany, RowsHaveCreations, Kinds
  PROVE  RowsHaveCreations'
<1> DEFINE Known(n) ==
      /\ Spent(n)
      /\ rows[n].user = creations[n[1]].user /\ rows[n].expires = creations[n[1]].expires
      /\ n[2] \in External => AppDone(n[1])
<1>1. \A n \in Stored : Known(n) /\ n \in RowId /\ n[1] \in Creation
  BY StoredRows, Ids DEF RowsHaveCreations, AppDone
<1>2. CASE Rests
  BY <1>2 DEF Rests, RowsHaveCreations, Stored, Spent
<1>3. CASE Edits
  <2>1. Stored' \subseteq Stored
    BY <1>3 DEF Edits, Stored
  <2>2. \A n \in Stored' : rows'[n].user = rows[n].user /\ rows'[n].expires = rows[n].expires
    BY <1>3, <2>1 DEF Edits, EditedRow, Stored
  <2> QED BY <1>3, <2>1, <2>2 DEF Edits, RowsHaveCreations, Spent
<1>4. ASSUME NEW c \in Creation, NEW u \in User, NEW b \in Broadcast \cup {None}, NEW e \in Date,
             Begins(c, u, b, e)
      PROVE  RowsHaveCreations'
  <2>1. Starts(c, u, b, e) /\ UNCHANGED rows
    BY <1>4, Starting DEF Begins
  <2>2. \A n \in Stored : n[1] # c
    BY <1>1, <2>1 DEF Spent, Starts
  <2>3. \A n \in Stored : creations'[n[1]] = creations[n[1]]
    BY <1>1, <2>1, <2>2 DEF Starts
  <2> QED BY <2>1, <2>3 DEF RowsHaveCreations, Spent, Stored
<1>5. ASSUME NEW c \in Creation, Create(c), Moves(c) PROVE RowsHaveCreations'
  <2>1. ASSUME NEW n \in Stored
        PROVE  /\ Spent(n)'
               /\ rows[n].user = creations'[n[1]].user /\ rows[n].expires = creations'[n[1]].expires
               /\ n[2] \in External => AppDone(n[1])'
    <3>1. Spent(n)'
      BY <1>1, SpentStays
    <3>2. creations'[n[1]].user = creations[n[1]].user /\ creations'[n[1]].expires = creations[n[1]].expires
      BY <1>1, <1>5 DEF Moves
    <3>3. ASSUME n[2] \in External PROVE AppDone(n[1])'
      <4>1. CASE n[1] = c
        BY <1>1, <1>5, <3>3, <4>1, AppDoneStays DEF Spent
      <4>2. CASE n[1] # c
        BY <1>1, <1>5, <3>3, <4>2 DEF Moves, AppDone
      <4> QED BY <4>1, <4>2
    <3> QED BY <1>1, <3>1, <3>2, <3>3
  <2>2. CASE UNCHANGED rows
    BY <2>1, <2>2 DEF RowsHaveCreations, AppDone, Stored, Spent
  <2>3. ASSUME NEW n \in RowId, n[1] = c, Insert(n), Spent(n)', n[2] \in External => AppDone(c)'
        PROVE  RowsHaveCreations'
    <3>1. /\ Stored' = Stored \cup {n}
          /\ rows'[n].user = creations[c].user /\ rows'[n].expires = creations[c].expires
          /\ \A m \in RowId \ {n} : rows'[m] = rows[m]
      BY <2>3, Inserting
    <3>2. creations'[c].user = creations[c].user /\ creations'[c].expires = creations[c].expires
      BY <1>5 DEF Moves
    <3>3. ASSUME NEW m \in Stored'
          PROVE  /\ Spent(m)'
                 /\ rows'[m].user = creations'[m[1]].user /\ rows'[m].expires = creations'[m[1]].expires
                 /\ m[2] \in External => AppDone(m[1])'
      <4>1. CASE m = n
        BY <2>3, <3>1, <3>2, <4>1
      <4>2. CASE m # n
        BY <1>1, <2>1, <3>1, <4>2
      <4> QED BY <4>1, <4>2
    <3> QED BY <3>3 DEF RowsHaveCreations, AppDone
  <2> QED BY <1>5, <2>2, <2>3 DEF Moves
<1> QED BY <1>2, <1>3, <1>4, <1>5, RestKinds

(* Rows of a user nobody touched stay new.                                 *)
LEMMA UntouchedStep ==
  ASSUME TypeOK, FinitelyMany, UntouchedAreNew, Kinds
  PROVE  UntouchedAreNew'
<1>1. CASE Rests
  BY <1>1 DEF Rests, SameUsers, UntouchedAreNew, Stored
<1>2. CASE Edits
  <2>1. ASSUME NEW n \in Stored', rows'[n].user \notin history'.touched
        PROVE  ~rows'[n].read /\ ~rows'[n].dismissed /\ rows'[n].retention = None
    <3>1. n \in Stored /\ rows'[n].user = rows[n].user
      BY <1>2 DEF Edits, EditedRow, Stored
    <3>2. rows'[n] = rows[n] /\ rows[n].user \notin history.touched
      BY <1>2, <2>1, <3>1 DEF Edits
    <3> QED BY <3>1, <3>2 DEF UntouchedAreNew
  <2> QED BY <2>1 DEF UntouchedAreNew
<1>3. ASSUME NEW c \in Creation, NEW u \in User, NEW b \in Broadcast \cup {None}, NEW e \in Date,
             Begins(c, u, b, e)
      PROVE  UntouchedAreNew'
  BY <1>3, Crowding DEF Begins, UntouchedAreNew, Stored
<1>4. ASSUME NEW c \in Creation, Moves(c) PROVE UntouchedAreNew'
  <2>1. CASE UNCHANGED rows
    BY <1>4, <2>1 DEF Moves, UntouchedAreNew, Stored
  <2>2. ASSUME NEW n \in RowId, Insert(n) PROVE UntouchedAreNew'
    <3>1. ASSUME NEW m \in Stored', rows'[m].user \notin history'.touched
          PROVE  ~rows'[m].read /\ ~rows'[m].dismissed /\ rows'[m].retention = None
      <4>1. CASE m = n
        BY <2>2, <4>1, Inserting
      <4>2. CASE m # n
        <5>1. m \in Stored /\ rows'[m] = rows[m]
          BY <2>2, <4>2, Inserting, StoredRows
        <5> QED BY <1>4, <3>1, <5>1 DEF Moves, UntouchedAreNew
      <4> QED BY <4>1, <4>2
    <3> QED BY <3>1 DEF UntouchedAreNew
  <2> QED BY <1>4, <2>1, <2>2 DEF Moves
<1> QED BY <1>1, <1>2, <1>3, <1>4, RestKinds

(* Service rows stay until their user or the job takes them.               *)
LEMMA ServiceStep ==
  ASSUME TypeOK, FinitelyMany, RowsHaveCreations, ServiceRowsStay, Kinds
  PROVE  ServiceRowsStay'
<1>1. CASE Rests
  BY <1>1 DEF Rests, SameUsers, ServiceRowsStay, Stored
<1>2. CASE Edits
  <2>1. ASSUME NEW c \in Creation, creations'[c].step \notin {"new", "storing", "thrown"},
               creations'[c].user \notin history'.touched
        PROVE  <<c, Service>> \in Stored'
    <3> DEFINE n == <<c, Service>>
    <3>1. n \in Stored /\ n[1] = c
      BY <1>2, <2>1, RowIds DEF Edits, ServiceRowsStay
    <3>2. rows[n].user \notin history'.touched
      BY <1>2, <2>1, <3>1 DEF Edits, RowsHaveCreations
    <3>3. rows'[n] = rows[n]
      BY <1>2, <3>1, <3>2 DEF Edits
    <3> QED BY <3>1, <3>3 DEF Stored
  <2> QED BY <2>1 DEF ServiceRowsStay
<1>3. ASSUME NEW c \in Creation, NEW u \in User, NEW b \in Broadcast \cup {None}, NEW e \in Date,
             Begins(c, u, b, e)
      PROVE  ServiceRowsStay'
  BY <1>3, Starting, Crowding DEF Begins, Starts, ServiceRowsStay, Stored
<1>4. ASSUME NEW c \in Creation, Create(c), Moves(c) PROVE ServiceRowsStay'
  <2>1. Stored \subseteq Stored'
    BY <1>4, Inserting DEF Moves, Stored
  <2>2. ASSUME NEW d \in Creation, creations'[d].step \notin {"new", "storing", "thrown"},
               creations'[d].user \notin history'.touched
        PROVE  <<d, Service>> \in Stored'
    <3>1. CASE d = c /\ creations[c].step = "storing"
      <4>1. Store(c)
        BY <1>4, <2>2, <3>1, ThrowMoves
        DEF Create, InsertInApp, CountUnread, EmitUnreadCount, InsertExternal, Return, FailChannel, Reject,
            NextChannel, Becomes
      <4> QED BY <3>1, <4>1, RowIds, Inserting DEF Store
    <3>2. CASE d = c /\ creations[c].step # "storing"
      <4>1. creations[c].step \notin {"new", "storing", "thrown"}
        BY <1>4, <3>2 DEF Moves, Active
      <4> QED BY <1>4, <2>1, <2>2, <3>2, <4>1 DEF Moves, ServiceRowsStay
    <3>3. CASE d # c
      BY <1>4, <2>1, <2>2, <3>3 DEF Moves, ServiceRowsStay
    <3> QED BY <3>1, <3>2, <3>3
  <2> QED BY <2>2 DEF ServiceRowsStay
<1> QED BY <1>1, <1>2, <1>3, <1>4, RestKinds

-----------------------------------------------------------------------------
(* Broadcasts *)

(* One of the creations of a broadcast for a user it listed.               *)
Created(b, u) ==
  \E c \in Creation : creations[c].by = b /\ creations[c].user = u /\ creations[c].step # "new"

(* A creation made for a broadcast stays made.                             *)
LEMMA CreatedStays ==
  ASSUME TypeOK, FinitelyMany, Kinds, NEW b \in Broadcast, NEW u \in User, Created(b, u)
  PROVE  Created(b, u)'
<1>1. PICK c \in Creation : creations[c].by = b /\ creations[c].user = u /\ creations[c].step # "new"
  BY DEF Created
<1>2. creations'[c].by = b /\ creations'[c].user = u /\ creations'[c].step # "new"
  <2>1. CASE Rests \/ Edits
    BY <1>1, <2>1 DEF Rests, Edits
  <2>2. ASSUME NEW d \in Creation, NEW v \in User, NEW x \in Broadcast \cup {None}, NEW e \in Date,
               Begins(d, v, x, e)
        PROVE  creations'[c] = creations[c]
    BY <1>1, <2>2, Starting DEF Begins, Starts
  <2>3. ASSUME NEW d \in Creation, Moves(d)
        PROVE  creations'[c].by = b /\ creations'[c].user = u /\ creations'[c].step # "new"
    BY <1>1, <2>3 DEF Moves
  <2> QED BY <1>1, <2>1, <2>2, <2>3, RestKinds
<1> QED BY <1>2 DEF Created

(* A broadcast keeps covering its list.                                    *)
LEMMA BroadcastsStep ==
  ASSUME TypeOK, FinitelyMany, BroadcastsCover, Kinds
  PROVE  BroadcastsCover'
<1> DEFINE Quiet(b) == \A c \in Creation : creations[c].by = b => ~Active(c)
           Dated(b) == \A c \in Creation : creations[c].by = b =>
                         broadcasts[b].step # "new" /\ creations[c].expires = broadcasts[b].expires
           Covers(b) == \A u \in broadcasts[b].listed \ broadcasts[b].todo : Created(b, u)
<1>1. BroadcastsCover <=> \A b \in Broadcast :
        /\ Covers(b) /\ (broadcasts[b].step = "ended" => broadcasts[b].todo = {} /\ Quiet(b))
        /\ Dated(b)
  BY DEF BroadcastsCover, Created
<1>2. BroadcastsCover' <=> \A b \in Broadcast :
        /\ Covers(b)' /\ (broadcasts'[b].step = "ended" => broadcasts'[b].todo = {} /\ Quiet(b)')
        /\ Dated(b)'
  BY DEF BroadcastsCover, Created
<1>3. \A b \in Broadcast : broadcasts[b].listed \subseteq User /\ broadcasts[b].todo \subseteq User
  BY DEF TypeOK
<1>4. ASSUME NEW b \in Broadcast, broadcasts'[b] = broadcasts[b] PROVE Covers(b)'
  BY <1>1, <1>3, <1>4, CreatedStays
<1>5. ASSUME UNCHANGED creations PROVE \A b \in Broadcast : Quiet(b) => Quiet(b)'
  BY <1>5 DEF Active
<1>6. CASE Idles \/ Edits \/ FindExpired \/ StopRetention \/ Tick
  <2>1. UNCHANGED <<broadcasts, creations>>
    BY <1>6 DEF Idles, Edits, FindExpired, StopRetention, Tick, calls
  <2> QED BY <1>1, <1>2, <1>4, <1>5, <2>1
<1>7. ASSUME NEW s \in Socket, Connect(s)
      PROVE  BroadcastsCover'
  <2>1. UNCHANGED <<broadcasts, creations>>
    BY <1>7, ConnectKeeps
  <2> QED BY <1>1, <1>2, <1>4, <1>5, <2>1
<1>8. ASSUME NEW b \in Broadcast, Sending(b) \/ Ends(b) PROVE BroadcastsCover'
  <2>1. UNCHANGED creations
    BY <1>8 DEF Sending, SendToTenant, Ends
  <2>2. \A o \in Broadcast \ {b} : broadcasts'[o] = broadcasts[o]
    BY <1>8 DEF Sending, SendToTenant, Ends, TypeOK
  <2>3. Covers(b)' /\ (broadcasts'[b].step = "ended" => broadcasts'[b].todo = {} /\ Quiet(b)')
    <3>1. CASE Sending(b)
      BY <3>1 DEF Sending, SendToTenant, TypeOK
    <3>2. CASE Ends(b)
      <4>1. broadcasts'[b].listed = broadcasts[b].listed /\ broadcasts'[b].todo = broadcasts[b].todo
        BY <3>2 DEF Ends, TypeOK
      <4>2. Covers(b)'
        BY <1>1, <1>3, <4>1, CreatedStays
      <4>3. Quiet(b) /\ broadcasts[b].todo = {}
        BY <3>2 DEF Ends
      <4> QED BY <1>5, <2>1, <4>1, <4>2, <4>3
    <3> QED BY <1>8, <3>1, <3>2
  <2>4. Dated(b)'
    <3>1. CASE Sending(b)
      <4>1. \A c \in Creation : creations[c].by # b
        BY <1>1, <3>1 DEF Sending, SendToTenant
      <4> QED BY <2>1, <4>1
    <3>2. CASE Ends(b)
      <4>1. broadcasts'[b].expires = broadcasts[b].expires /\ broadcasts'[b].step = "ended"
        BY <3>2 DEF Ends, TypeOK
      <4> QED BY <1>1, <2>1, <4>1
    <3> QED BY <1>8, <3>1, <3>2
  <2>5. \A o \in Broadcast \ {b} : Dated(o)'
    BY <1>1, <2>1, <2>2
  <2> HIDE DEF Quiet, Covers, Dated
  <2> QED BY <1>1, <1>2, <1>4, <1>5, <2>1, <2>2, <2>3, <2>4, <2>5
<1>9. ASSUME NEW c \in Creation, NEW u \in User, NEW x \in Broadcast \cup {None}, NEW e \in Date,
             Begins(c, u, x, e)
      PROVE  BroadcastsCover'
  <2>1. Starts(c, u, x, e)
    BY <1>9, Starting DEF Begins
  <2>2. ASSUME NEW b \in Broadcast, b # x
        PROVE  Covers(b)' /\ (broadcasts'[b].step = "ended" => broadcasts'[b].todo = {} /\ Quiet(b)')
    <3>1. broadcasts'[b] = broadcasts[b]
      BY <1>9, <2>2 DEF Begins, TypeOK
    <3>2. Quiet(b) => Quiet(b)'
      BY <2>1, <2>2 DEF Starts, Active
    <3> QED BY <1>1, <1>4, <3>1, <3>2
  <2>3. ASSUME x \in Broadcast
        PROVE  Covers(x)' /\ broadcasts'[x].step # "ended"
    <3>1. /\ broadcasts'[x].listed = broadcasts[x].listed
          /\ broadcasts'[x].todo = broadcasts[x].todo \ {u}
          /\ broadcasts'[x].step = "running"
      BY <1>9, <2>3, InboxAssumption DEF Begins, TypeOK
    <3>2. Created(x, u)'
      BY <2>1 DEF Starts, Created
    <3> QED BY <1>1, <1>3, <2>3, <3>1, <3>2, CreatedStays
  <2>4. ASSUME NEW b \in Broadcast PROVE Dated(b)'
    <3>1. CASE b # x
      <4>1. broadcasts'[b] = broadcasts[b]
        BY <1>9, <3>1 DEF Begins, TypeOK
      <4> QED BY <1>1, <2>1, <3>1, <4>1 DEF Starts
    <3>2. CASE b = x
      <4>1. broadcasts'[b].expires = e /\ broadcasts'[b].step # "new" /\ broadcasts[b].expires = e
        BY <1>9, <3>2, InboxAssumption DEF Begins, TypeOK
      <4> QED BY <1>1, <2>1, <3>2, <4>1 DEF Starts
    <3> QED BY <3>1, <3>2
  <2> HIDE DEF Quiet, Covers, Dated
  <2> QED BY <1>2, <2>2, <2>3, <2>4
<1>10. ASSUME NEW c \in Creation, Moves(c) PROVE BroadcastsCover'
  <2>1. \A b \in Broadcast : Quiet(b) => Quiet(b)'
    BY <1>10 DEF Moves, Active
  <2>2. UNCHANGED broadcasts
    BY <1>10 DEF Moves
  <2>3. \A b \in Broadcast : Dated(b)'
    BY <1>1, <1>10, <2>2 DEF Moves
  <2> HIDE DEF Quiet, Dated
  <2> QED BY <1>1, <1>2, <1>4, <2>1, <2>2, <2>3
<1>11. ASSUME NEW c \in Creation, Create(c) PROVE BroadcastsCover'
  BY <1>10, <1>11, CreateMoves
<1> QED BY <1>6, <1>7, <1>8, <1>9, <1>11 DEF Kinds

(* A broadcast that covers its list reaches it.                            *)
LEMMA Reaching ==
  ASSUME TypeOK, RowsHaveCreations, UntouchedAreNew, ServiceRowsStay, BroadcastsCover
  PROVE  BroadcastReaches
<1> SUFFICES ASSUME NEW b \in Broadcast, broadcasts[b].step = "ended", ~Past(broadcasts[b].expires),
                    NEW u \in broadcasts[b].listed \ history.touched
             PROVE  \E c \in Creation :
                      /\ creations[c].by = b /\ creations[c].user = u
                      /\ creations[c].step = "thrown" \/ <<c, Service>> \in InboxOf(u)
  BY DEF BroadcastReaches
<1>1. PICK c \in Creation : creations[c].by = b /\ creations[c].user = u /\ creations[c].step # "new"
  BY DEF BroadcastsCover
<1>2. creations[c].step \in {"returned", "thrown"}
  BY <1>1 DEF BroadcastsCover, Active
<1>3. ASSUME creations[c].step = "returned" PROVE <<c, Service>> \in InboxOf(u)
  <2> DEFINE n == <<c, Service>>
  <2>1. n \in Stored /\ n[1] = c
    BY <1>1, <1>3, RowIds DEF ServiceRowsStay
  <2>2. rows[n].user = u
    BY <1>1, <2>1 DEF RowsHaveCreations
  <2>3. ~rows[n].dismissed /\ rows[n].retention = None
    BY <2>1, <2>2 DEF UntouchedAreNew
  <2>4. rows[n].expires = broadcasts[b].expires
    BY <1>1, <2>1 DEF RowsHaveCreations, BroadcastsCover
  <2> QED BY <2>1, <2>2, <2>3, <2>4 DEF InboxOf, Of, PastRetention, Past, Lapsed
<1> QED BY <1>1, <1>2, <1>3

-----------------------------------------------------------------------------
(* Retention *)

(* What the job found are rows with a mark.                                *)
LEMMA FoundPairs ==
  ASSUME TypeOK, found # None, NEW f \in found
  PROVE  f[1] \in RowId /\ f[2] \in BOOLEAN
  BY DEF TypeOK

(* A row that is there after a step and was found before: it was there     *)
(* before, because it was written.                                         *)
LEMMA SpentNotNew ==
  ASSUME TypeOK, FinitelyMany, Kinds, NEW n \in RowId, Spent(n), n \in Stored'
  PROVE  n \in Stored
<1>1. CASE Rests
  BY <1>1 DEF Rests, Stored
<1>2. CASE Edits
  BY <1>2 DEF Edits, Stored
<1>3. ASSUME NEW c \in Creation, NEW u \in User, NEW b \in Broadcast \cup {None}, NEW e \in Date,
             Begins(c, u, b, e)
      PROVE  n \in Stored
  BY <1>3 DEF Begins, Stored
<1>4. ASSUME NEW c \in Creation, Moves(c) PROVE n \in Stored
  BY <1>4, Inserting DEF Moves, Stored
<1> QED BY <1>1, <1>2, <1>3, <1>4, RestKinds

(* What the job found stays due, unless changed.                           *)
LEMMA FoundStep ==
  ASSUME TypeOK, FinitelyMany, RowsHaveCreations, FoundAreDue, Kinds
  PROVE  FoundAreDue'
<1> DEFINE Right(f) ==
      f[1] \in Stored /\ f[1] \notin history.changed => Due(f[1]) /\ rows[f[1]].sensitive = f[2]
<1>1. ASSUME found # None, NEW f \in found PROVE Spent(f[1])' /\ Right(f) /\ f[1] \in RowId
  BY <1>1, FoundPairs, SpentStays DEF FoundAreDue
<1>2. ASSUME UNCHANGED <<rows, found, day>>, history'.changed = history.changed PROVE FoundAreDue'
  BY <1>1, <1>2 DEF FoundAreDue, Stored, Due
<1>3. CASE Idles
  BY <1>2, <1>3 DEF Idles
<1>4. CASE Edits /\ UNCHANGED day
  <2>1. ASSUME found' # None, NEW f \in found' PROVE Right(f)'
    <3>1. found # None /\ f \in found
      BY <1>4, <2>1 DEF Edits
    <3> DEFINE n == f[1]
    <3>2. n \in RowId /\ Right(f)
      BY <1>1, <3>1
    <3>3. ASSUME n \in Stored', n \notin history'.changed
          PROVE  Due(n)' /\ rows'[n].sensitive = f[2]
      <4>1. n \in Stored /\ rows'[n] # None /\ n \notin history.changed
        BY <1>4, <3>2, <3>3 DEF Edits, Stored
      <4>2. /\ rows'[n].made = rows[n].made /\ rows'[n].dismissed = rows[n].dismissed
            /\ rows'[n].retention = rows[n].retention /\ rows'[n].sensitive = rows[n].sensitive
        BY <1>4, <3>1, <3>3, <4>1 DEF Edits, EditedRow
      <4> QED BY <1>4, <3>2, <4>1, <4>2 DEF Due
    <3> QED BY <3>3
  <2>2. ASSUME found' # None, NEW f \in found' PROVE Spent(f[1])'
    BY <1>1, <1>4, <2>2 DEF Edits
  <2> QED BY <2>1, <2>2 DEF FoundAreDue
<1>5. ASSUME NEW c \in Creation, NEW u \in User, NEW b \in Broadcast \cup {None}, NEW e \in Date,
             Begins(c, u, b, e)
      PROVE  FoundAreDue'
  BY <1>2, <1>5, Crowding DEF Begins
<1>6. ASSUME NEW c \in Creation, Create(c), UNCHANGED day PROVE FoundAreDue'
  <2>1. Moves(c)
    BY <1>6, CreateMoves
  <2>2. ASSUME found # None, NEW f \in found, f[1] \in Stored'
        PROVE  f[1] \in Stored /\ rows'[f[1]] = rows[f[1]]
    <3>1. f[1] \in Stored /\ f[1] \in RowId /\ Spent(f[1])
      BY <1>1, <2>2, SpentNotNew DEF FoundAreDue
    <3> QED BY <2>1, <3>1, Inserting DEF Moves
  <2> QED BY <1>1, <1>6, <2>1, <2>2 DEF Moves, FoundAreDue, Due
<1>7. ASSUME NEW b \in Broadcast, (Sending(b) /\ UNCHANGED day) \/ Ends(b) PROVE FoundAreDue'
  BY <1>2, <1>7 DEF Sending, SendToTenant, Ends
<1>8. CASE StopRetention
  BY <1>8 DEF StopRetention, FoundAreDue
<1>9. CASE FindExpired /\ UNCHANGED day
  <2>1. UNCHANGED <<rows, creations>>
    BY <1>9 DEF FindExpired, calls
  <2>2. ASSUME NEW f \in found'
        PROVE  Spent(f[1]) /\ Due(f[1]) /\ rows[f[1]].sensitive = f[2]
    <3>1. PICK n \in Stored : Due(n) /\ f = <<n, rows[n].sensitive>>
      BY <1>9, <2>2, Finding
    <3>2. f[1] = n /\ f[2] = rows[n].sensitive
      BY <3>1
    <3> QED BY <3>1, <3>2 DEF RowsHaveCreations
  <2> QED BY <1>9, <2>1, <2>2 DEF FoundAreDue, Spent, Due
<1>10. ASSUME NEW s \in Socket, Connect(s),
              UNCHANGED day
       PROVE  FoundAreDue'
  BY <1>2, <1>10, ConnectKeeps, ConnectHistory
<1>11. CASE Tick
  <2>1. UNCHANGED <<rows, found, history, creations>> /\ day' = day + 1 /\ day \in Nat
    BY <1>11, InboxAssumption DEF Tick, calls, TypeOK
  <2>2. ASSUME NEW n \in Stored, Due(n) PROVE Due(n)'
    <3>1. rows[n].made \in Nat /\ (rows[n].retention # None => rows[n].retention \in Nat)
      BY StoredRows, InboxAssumption DEF Row, Date
    <3> QED BY <2>1, <2>2, <3>1 DEF Due
  <2>3. Stored' = Stored
    BY <2>1 DEF Stored
  <2> QED BY <2>1, <2>2, <2>3 DEF FoundAreDue, Spent
<1> QED BY <1>3, <1>4, <1>5, <1>6, <1>7, <1>8, <1>9, <1>10, <1>11 DEF Kinds

(* A deletion is the job's or that of the user: nothing else makes a row   *)
(* disappear.                                                              *)
LEMMA ValuesKept ==
  ASSUME TypeOK, NEW n \in Stored, NEW m \in Stored, NEW new \in Row, rows' = [rows EXCEPT ![m] = new]
  PROVE  rows'[n] # None
  BY StoredRows, InboxAssumption DEF TypeOK

(* No request of an owner deletes a row, but for the deletion of a user.   *)
LEMMA OwnersDeleteNothing ==
  ASSUME TypeOK, Owners, NEW n \in Stored, \A u \in User : ~DeleteUser(u)
  PROVE  rows'[n] # None
<1>0. n \in RowId /\ rows[n] # None
  BY StoredRows
<1>1. ASSUME NEW m \in RowId, \E kind \in Owned : Find(kind, m) PROVE rows'[n] # None
  BY <1>0, <1>1 DEF Find
<1>2. ASSUME NEW m \in RowId, MarkAsSensitive(m) PROVE rows'[n] # None
  BY <1>2, OwnersChange, ValuesKept DEF MarkAsSensitive
<1>3. ASSUME NEW m \in RowId, NEW date \in Dates, SetRetentionDate(m, date) PROVE rows'[n] # None
  <2>1. date \in Date
    BY InboxAssumption DEF Date
  <2> QED BY <1>3, <2>1, OwnersChange, ValuesKept DEF SetRetentionDate
<1>4. CASE MarkAsRead
  BY <1>4, OwnersChange, ValuesKept DEF MarkAsRead
<1>5. CASE SoftDeleteNotification
  BY <1>5, OwnersChange, ValuesKept DEF SoftDeleteNotification
<1>6. CASE RestoreNotification
  BY <1>6, OwnersChange, ValuesKept DEF RestoreNotification
<1>7. ASSUME NEW u \in User, MarkAllAsRead(u) PROVE rows'[n] # None
  <2>1. rows'[n] = IF n \in Of(u) THEN [rows[n] EXCEPT !.read = TRUE] ELSE rows[n]
    BY <1>0, <1>7 DEF MarkAllAsRead
  <2>2. [rows[n] EXCEPT !.read = TRUE] \in Row
    BY OwnersChange
  <2>3. [rows[n] EXCEPT !.read = TRUE] # None
    BY <2>2, InboxAssumption
  <2> QED BY <1>0, <2>1, <2>3
<1>8. CASE FailRequest \/ \E u \in User, enabled \in Choices : UpdatePreference(u, enabled)
  BY <1>0, <1>8 DEF FailRequest, UpdatePreference
<1> QED BY <1>1, <1>2, <1>3, <1>4, <1>5, <1>6, <1>7, <1>8 DEF Owners

(* What disappears in a step.                                              *)
Taken(n) ==
  \/ Due(n) /\ ~rows[n].sensitive
  \/ found # None /\ n \in history.changed
  \/ rows[n].user \notin users'

(* The deletion of a user takes his rows.                                  *)
LEMMA DeleteUserTakes ==
  ASSUME TypeOK, NEW u \in User, DeleteUser(u), NEW n \in Stored, rows'[n] = None
  PROVE  Taken(n)
<1>1. n \in Of(u)
  BY StoredRows DEF DeleteUser
<1> QED BY <1>1 DEF Of, DeleteUser, Taken

(* The job takes rows that are due.                                        *)
LEMMA DeleteExpiredTakes ==
  ASSUME TypeOK, FoundAreDue, DeleteExpired, NEW n \in Stored, rows'[n] = None
  PROVE  Taken(n)
<1>1. PICK f \in found :
        IF ~f[2] /\ f[1] \in Stored THEN rows' = [rows EXCEPT ![f[1]] = None] ELSE UNCHANGED rows
  BY DEF DeleteExpired
<1>2. n = f[1] /\ ~f[2] /\ found # None
  BY <1>1, StoredRows DEF DeleteExpired, TypeOK
<1>3. n \in history.changed \/ (Due(n) /\ rows[n].sensitive = f[2])
  BY <1>2 DEF FoundAreDue
<1> QED BY <1>2, <1>3 DEF Taken

(* Nothing else takes a row.                                               *)
LEMMA StepTakes ==
  ASSUME IInv, [Next]_vars
  PROVE  \A n \in Stored : rows'[n] = None => Taken(n)
<1> SUFFICES ASSUME NEW n \in Stored, rows'[n] = None PROVE Taken(n)
  OBVIOUS
<1> USE DEF IInv
<1>0. n \in RowId /\ rows[n] # None
  BY StoredRows
<1>1. CASE UNCHANGED vars \/ Tick
  BY <1>0, <1>1 DEF vars, Tick
<1>2. CASE Step
  <2>1. CASE CreateNotification \/ \E event : HandleEvent(event)
    BY <1>0, <2>1 DEF CreateNotification, HandleEvent, SendToUser, SendToTenant
  <2>2. ASSUME NEW c \in Creation, Create(c) PROVE Taken(n)
    <3>1. Moves(c)
      BY <2>2, CreateMoves
    <3> QED BY <1>0, <3>1, Inserting DEF Moves
  <2>3. ASSUME NEW b \in Broadcast, NextOfBroadcast(b) PROVE Taken(n)
    BY <1>0, <2>3 DEF NextOfBroadcast
  <2>4. CASE Owners
    BY <2>4, OwnersDeleteNothing, DeleteUserTakes
  <2>5. CASE FindExpired \/ StopRetention
    BY <1>0, <2>5 DEF FindExpired, StopRetention
  <2>6. CASE DeleteExpired
    BY <2>6, DeleteExpiredTakes
  <2>7. ASSUME NEW s \in Socket, Connect(s)
        PROVE  Taken(n)
    BY <1>0, <2>7, ConnectKeeps
  <2> QED BY <1>2, <2>1, <2>2, <2>3, <2>4, <2>5, <2>6, <2>7 DEF Step
<1> QED BY <1>1, <1>2 DEF Next

-----------------------------------------------------------------------------
(* Counts *)

(* Two creations for one user make him crowded.                            *)
LEMMA OneAtATimeStep ==
  ASSUME TypeOK, FinitelyMany, OneAtATime, Kinds
  PROVE  OneAtATime'
<1>1. CASE Rests
  BY <1>1 DEF Rests, SameUsers, OneAtATime, Active
<1>2. CASE Edits
  BY <1>2 DEF Edits, OneAtATime, Active
<1>3. ASSUME NEW c \in Creation, NEW u \in User, NEW b \in Broadcast \cup {None}, NEW e \in Date,
             Begins(c, u, b, e)
      PROVE  OneAtATime'
  <2>1. Starts(c, u, b, e)
    BY <1>3, Starting DEF Begins
  <2>2. /\ history.crowded \subseteq history'.crowded
        /\ (\E d \in Creation : Active(d) /\ creations[d].user = u) => u \in history'.crowded
    BY <1>3, Crowding DEF Begins
  <2> QED BY <2>1, <2>2 DEF Starts, OneAtATime, Active
<1>4. ASSUME NEW c \in Creation, Moves(c) PROVE OneAtATime'
  BY <1>4 DEF Moves, OneAtATime, Active
<1> QED BY <1>1, <1>2, <1>3, <1>4, RestKinds

(* Rows of a user can be counted, and fewer rows count less.               *)
LEMMA OfSubset ==
  ASSUME FinitelyMany, NEW u, NEW S \in SUBSET Of(u)
  PROVE  /\ IsFiniteSet(S) /\ IsFiniteSet(Of(u)) /\ Cardinality(S) \in Nat
         /\ Cardinality(Of(u)) \in Nat /\ Cardinality(S) <= Cardinality(Of(u))
<1>1. IsFiniteSet(Of(u))
  BY FS_Subset DEF FinitelyMany, Of
<1> QED BY <1>1, FS_Subset, FS_CardinalityType

(* The step of a creation leaves the rows there are as they are.           *)
LEMMA MovesKeep ==
  ASSUME TypeOK, RowsHaveCreations, NEW c \in Creation, Moves(c), NEW n \in Stored
  PROVE  n \in Stored' /\ rows'[n] = rows[n]
<1>1. Spent(n) /\ n \in RowId
  BY StoredRows DEF RowsHaveCreations
<1> QED BY <1>1, Inserting DEF Moves, Stored

(* Time only passes.                                                       *)
LEMMA DayGrows ==
  ASSUME TypeOK, FinitelyMany, Kinds
  PROVE  day \in Nat /\ day' \in Nat /\ day <= day'
<1>0. day \in Nat /\ day' \in Nat
  BY RetentionTypes, InboxAssumption DEF TypeOK
<1>1. UNCHANGED day \/ day' = day + 1
  BY DEF Kinds, Idles, Begins, Ends, Tick
<1> QED BY <1>0, <1>1

(* The rows of users who do nothing: they stay and only become more.       *)
LEMMA OfGrows ==
  ASSUME TypeOK, FinitelyMany, RowsHaveCreations, Kinds, NEW u \in User, u \notin history'.touched
  PROVE  /\ u \notin history.touched
         /\ Of(u) \subseteq Of(u)' /\ \A n \in Of(u) : rows'[n] = rows[n]
         /\ Cardinality(Of(u)) \in Nat /\ Cardinality(Of(u)') \in Nat
         /\ Cardinality(Of(u)) <= Cardinality(Of(u)')
<1>1. u \notin history.touched /\ Of(u) \subseteq Of(u)' /\ \A n \in Of(u) : rows'[n] = rows[n]
  <2>1. CASE Rests
    BY <2>1 DEF Rests, SameUsers, Of, Stored
  <2>2. CASE Edits
    BY <2>2, StoredRows DEF Edits, Of, Stored
  <2>3. ASSUME NEW c \in Creation, NEW v \in User, NEW b \in Broadcast \cup {None}, NEW e \in Date,
               Begins(c, v, b, e)
        PROVE  u \notin history.touched /\ Of(u) \subseteq Of(u)' /\ \A n \in Of(u) : rows'[n] = rows[n]
    BY <2>3, Crowding DEF Begins, Of, Stored
  <2>4. ASSUME NEW c \in Creation, Moves(c)
        PROVE  u \notin history.touched /\ Of(u) \subseteq Of(u)' /\ \A n \in Of(u) : rows'[n] = rows[n]
    <3>1. u \notin history.touched
      BY <2>4 DEF Moves
    <3> QED BY <2>4, <3>1, MovesKeep DEF Of
  <2> QED BY <2>1, <2>2, <2>3, <2>4, RestKinds
<1>2. FinitelyMany'
  BY RowTypes
<1>3. IsFiniteSet(Of(u)) /\ IsFiniteSet(Of(u)')
  BY <1>2, FS_Subset DEF FinitelyMany, Of
<1> QED BY <1>1, <1>3, FS_Subset, FS_CardinalityType

(* Who is regular after a step was so before: what expired stays expired.  *)
LEMMA RegularBefore ==
  ASSUME TypeOK, FinitelyMany, RowsHaveCreations, Kinds, NEW u \in User, Regular(u)'
  PROVE  Regular(u)
<1>1. /\ history.unpushed \subseteq history'.unpushed /\ history.crowded \subseteq history'.crowded
  <2>1. CASE Rests \/ Edits
    BY <2>1 DEF Rests, SameUsers, Edits
  <2>2. ASSUME NEW c \in Creation, NEW v \in User, NEW b \in Broadcast \cup {None}, NEW e \in Date,
               Begins(c, v, b, e)
        PROVE  history.unpushed \subseteq history'.unpushed /\ history.crowded \subseteq history'.crowded
    BY <2>2, Crowding DEF Begins
  <2>3. ASSUME NEW c \in Creation, Moves(c)
        PROVE  history.unpushed \subseteq history'.unpushed /\ history.crowded \subseteq history'.crowded
    BY <2>3 DEF Moves
  <2> QED BY <2>1, <2>2, <2>3, RestKinds
<1>2. ASSUME NEW n \in Of(u) PROVE ~Lapsed(n)
  <2>1. n \in Of(u)' /\ rows'[n] = rows[n]
    BY OfGrows DEF Regular
  <2>2. ~(rows[n].expires # None /\ rows[n].expires <= day')
    BY <2>1 DEF Regular, Lapsed, Past
  <2>3. rows[n].expires # None => rows[n].expires \in Nat
    BY StoredRows, InboxAssumption DEF Of, Row, Date
  <2> QED BY <2>2, <2>3, DayGrows DEF Lapsed, Past
<1> QED BY <1>1, <1>2, OfGrows DEF Regular

(* What a step tells a socket: nothing, or the count of a creation.        *)
LEMMA SocketKinds ==
  ASSUME TypeOK, FinitelyMany, SocketsKnown, Kinds, NEW s \in Socket
  PROVE  \/ sockets'[s].count = None
         \/ sockets'[s].user = sockets[s].user /\ sockets'[s].count = sockets[s].count
         \/ \E c \in Creation :
              /\ EmitUnreadCount(c) /\ sockets[s].user = creations[c].user
              /\ sockets'[s].user = sockets[s].user /\ sockets'[s].count = creations[c].count
<1>1. CASE Idles \/ Edits
  BY <1>1 DEF Idles, Edits
<1>2. ASSUME NEW c \in Creation, NEW u \in User, NEW b \in Broadcast \cup {None}, NEW e \in Date,
             Begins(c, u, b, e)
      PROVE  sockets'[s] = sockets[s]
  BY <1>2 DEF Begins
<1>3. ASSUME NEW b \in Broadcast, Sending(b) \/ Ends(b) PROVE sockets'[s] = sockets[s]
  BY <1>3 DEF Sending, SendToTenant, Ends, gateway
<1>4. CASE FindExpired \/ StopRetention \/ Tick
  BY <1>4 DEF FindExpired, StopRetention, Tick, gateway
<1>5. ASSUME NEW t \in Socket, Connect(t)
      PROVE  \/ sockets'[s].count = None
             \/ sockets'[s].user = sockets[s].user /\ sockets'[s].count = sockets[s].count
  <2>1. ASSUME NEW u \in User, ValidateToken(t, u) PROVE sockets[t].count = None
    BY <2>1 DEF ValidateToken, SocketsKnown, Sound
  <2> QED BY <1>5, <2>1, Turning DEF Connect, Turns
<1>6. ASSUME NEW c \in Creation, EmitUnreadCount(c)
      PROVE  \/ sockets'[s] = sockets[s]
             \/ /\ sockets[s].user = creations[c].user
                /\ sockets'[s].user = sockets[s].user /\ sockets'[s].count = creations[c].count
  BY <1>6, EmitTells
<1>7. ASSUME NEW c \in Creation, Create(c), ~EmitUnreadCount(c) PROVE sockets'[s] = sockets[s]
  BY <1>7 DEF Create, Store, InsertInApp, CountUnread, InsertExternal, Return, Throw, FailChannel, Reject,
     gateway
<1> QED BY <1>1, <1>2, <1>3, <1>4, <1>5, <1>6, <1>7 DEF Kinds

(* What a creation pushes it has just counted, or it failed to.            *)
LEMMA PushingFrom ==
  ASSUME TypeOK, FinitelyMany, NEW c \in Creation, Create(c), creations'[c].step = "pushing"
  PROVE  \/ CountUnread(c) /\ creations'[c].count = Cardinality(CountedOf(creations[c].user))
         \/ FailChannel(c) /\ creations'[c].count = 0
<1>1. CASE Store(c)
  BY <1>1, StoreBecomes DEF Becomes
<1>2. CASE InsertInApp(c)
  BY <1>2, InsertInAppBecomes DEF Becomes
<1>3. CASE CountUnread(c)
  BY <1>3, CountUnreadBecomes DEF Becomes
<1>4. CASE EmitUnreadCount(c)
  BY <1>4, EmitMoves DEF Becomes
<1>5. ASSUME NEW ch \in External, InsertExternal(c, ch) PROVE FALSE
  BY <1>5, InsertExternalMoves DEF Becomes
<1>6. CASE Return(c) \/ Throw(c)
  BY <1>6, ReturnMoves, ThrowMoves DEF Becomes
<1>7. CASE FailChannel(c) \/ Reject(c)
  BY <1>7, FailChannelMoves, RejectMoves
<1> QED BY <1>1, <1>2, <1>3, <1>4, <1>5, <1>6, <1>7 DEF Create

(* A pushed number stays behind the rows.                                  *)
LEMMA BehindStep ==
  ASSUME TypeOK, FinitelyMany, RowsHaveCreations, SocketsKnown, CountsBehind, Kinds
  PROVE  CountsBehind'
<1> SUFFICES ASSUME NEW u \in User, u \notin history'.touched
             PROVE  /\ \A c \in Creation : creations'[c].user = u /\ creations'[c].step = "pushing" =>
                         creations'[c].count <= Cardinality(Of(u)')
                    /\ \A s \in Socket : sockets'[s].user = u /\ sockets'[s].count # None =>
                         sockets'[s].count <= Cardinality(Of(u)')
  BY DEF CountsBehind
<1>0. /\ u \notin history.touched
      /\ Cardinality(Of(u)) \in Nat /\ Cardinality(Of(u)') \in Nat
      /\ Cardinality(Of(u)) <= Cardinality(Of(u)')
  BY OfGrows
<1>1. ASSUME NEW c \in Creation, creations'[c].step = "pushing", creations'[c].user = u
      PROVE  creations'[c].count <= Cardinality(Of(u)')
  <2>1. CASE creations'[c] = creations[c]
    <3>1. creations[c].count <= Cardinality(Of(u)) /\ creations[c].count \in Nat
      BY <1>0, <1>1, <2>1, Fields DEF CountsBehind
    <3> QED BY <1>0, <2>1, <3>1
  <2>2. CASE Create(c)
    <3>1. creations[c].user = u
      BY <1>1, <2>2, CreateMoves DEF Moves
    <3>2. CountedOf(u) \in SUBSET Of(u)
      BY DEF CountedOf
    <3>3. Cardinality(CountedOf(u)) \in Nat /\ Cardinality(CountedOf(u)) <= Cardinality(Of(u))
      BY <3>2, OfSubset
    <3>4. creations'[c].count = Cardinality(CountedOf(u)) \/ creations'[c].count = 0
      BY <1>1, <2>2, <3>1, PushingFrom
    <3> QED BY <1>0, <3>3, <3>4
  <2>3. creations'[c] = creations[c] \/ Create(c)
    <3>1. CASE Rests \/ Edits
      BY <3>1 DEF Rests, Edits
    <3>2. ASSUME NEW d \in Creation, NEW v \in User, NEW b \in Broadcast \cup {None}, NEW e \in Date,
                 Begins(d, v, b, e)
          PROVE  creations'[c] = creations[c]
      BY <1>1, <3>2, Starting DEF Begins, Starts
    <3>3. ASSUME NEW d \in Creation, Create(d), Moves(d) PROVE creations'[c] = creations[c] \/ Create(c)
      BY <3>3 DEF Moves
    <3> QED BY <3>1, <3>2, <3>3, RestKinds
  <2> QED BY <2>1, <2>2, <2>3
<1>2. ASSUME NEW s \in Socket, sockets'[s].user = u, sockets'[s].count # None
      PROVE  sockets'[s].count <= Cardinality(Of(u)')
  <2>1. \E count \in Nat : sockets'[s].count = count /\ count <= Cardinality(Of(u))
    <3>1. CASE sockets'[s].user = sockets[s].user /\ sockets'[s].count = sockets[s].count
      BY <1>0, <1>2, <3>1, SocketShape DEF CountsBehind
    <3>2. ASSUME NEW c \in Creation, EmitUnreadCount(c), sockets[s].user = creations[c].user,
                 sockets'[s].user = sockets[s].user, sockets'[s].count = creations[c].count
          PROVE  creations[c].count \in Nat /\ creations[c].count <= Cardinality(Of(u))
      BY <1>0, <1>2, <3>2, Fields DEF EmitUnreadCount, CountsBehind
    <3> QED BY <1>2, <3>1, <3>2, SocketKinds
  <2> QED BY <1>0, <2>1
<1> QED BY <1>1, <1>2

(* A socket that the step tells the user nothing new at.                   *)
Undisturbed(s, u) ==
  \/ sockets'[s].count = None \/ sockets'[s].user # u
  \/ sockets'[s].user = sockets[s].user /\ sockets'[s].count = sockets[s].count

(* A step that is not of a creation for the user.                          *)
LEMMA Elsewhere ==
  ASSUME TypeOK, FinitelyMany, RowsHaveCreations, SocketsKnown, Kinds, NEW u \in User, Regular(u)',
         \A c \in Creation : Create(c) => creations[c].user # u
  PROVE  /\ Regular(u)
         /\ Of(u)' = Of(u) /\ Late(u)' = Late(u) /\ history'.last[u] = history.last[u]
         /\ \A s \in Socket : Undisturbed(s, u)
<1>0. Regular(u)
  BY RegularBefore
<1>1. Regular(u) /\ Of(u)' = Of(u) /\ history'.last[u] = history.last[u]
  <2>1. CASE Rests
    BY <1>0, <2>1 DEF Rests, Of, Stored
  <2>2. CASE Edits
    <3>1. Regular(u)
      BY <1>0
    <3>2. \A n \in Of(u) : n \in Of(u)'
      BY <2>2, StoredRows DEF Edits, Of, Stored, Regular
    <3>3. \A n \in Of(u)' : n \in Of(u)
      BY <2>2, StoredRows DEF Edits, EditedRow, Of, Stored
    <3> QED BY <2>2, <3>1, <3>2, <3>3 DEF Edits
  <2>3. ASSUME NEW c \in Creation, NEW v \in User, NEW b \in Broadcast \cup {None}, NEW e \in Date,
               Begins(c, v, b, e)
        PROVE  Regular(u) /\ Of(u)' = Of(u) /\ history'.last[u] = history.last[u]
    BY <1>0, <2>3, Crowding DEF Begins, Of, Stored
  <2>4. ASSUME NEW c \in Creation, Create(c), Moves(c)
        PROVE  Regular(u) /\ Of(u)' = Of(u) /\ history'.last[u] = history.last[u]
    <3>1. Regular(u)
      BY <1>0
    <3>2. Of(u)' = Of(u)
      <4>1. CASE UNCHANGED rows
        BY <4>1 DEF Of, Stored
      <4>2. ASSUME NEW n \in RowId, n[1] = c, Insert(n) PROVE Of(u)' = Of(u)
        <5>1. rows'[n].user # u /\ Stored' = Stored \cup {n}
          BY <2>4, <4>2, Inserting
        <5>2. n \notin Of(u)
          BY <2>4, <4>2 DEF RowsHaveCreations, Of
        <5>3. \A m \in RowId \ {n} : rows'[m] = rows[m]
          BY <4>2, Inserting
        <5> QED BY <5>1, <5>2, <5>3, StoredRows DEF Of
      <4> QED BY <2>4, <4>1, <4>2 DEF Moves
    <3>3. history'.last[u] = history.last[u]
      <4>1. CASE EmitUnreadCount(c)
        BY <2>4, <4>1, Pushing
      <4>2. CASE FailChannel(c) \/ Reject(c)
        BY <4>2, FailChannelMoves, RejectMoves, Unpushing
      <4>3. CASE Throw(c)
        <5>1. creations[c].user \in User
          BY <4>3, Fields DEF Throw
        <5> QED BY <4>3, <5>1, Unpushing DEF Throw
      <4>4. CASE Store(c)
        <5>1. creations[c].user \in User
          BY <4>4, Fields DEF Store
        <5> QED BY <4>4, <5>1, Unpushing DEF Store
      <4> QED BY <2>4, <4>1, <4>2, <4>3, <4>4 DEF Create, InsertInApp, CountUnread, InsertExternal, Return
    <3> QED BY <3>1, <3>2, <3>3
  <2> QED BY <2>1, <2>2, <2>3, <2>4, RestKinds
<1>2. Late(u)' = Late(u)
  BY <1>1 DEF Late
<1>3. ASSUME NEW s \in Socket PROVE Undisturbed(s, u)
  BY SocketKinds DEF Create, Undisturbed
<1> QED BY <1>1, <1>2, <1>3

(* A user who was told the number stays told while his rows stay.          *)
LEMMA ToldStays ==
  ASSUME NEW u, Told(u), Of(u)' \ Late(u)' = Of(u) \ Late(u),
         \A s \in Socket : Undisturbed(s, u)
  PROVE  Told(u)'
  BY DEF Told, Undisturbed

(* A creation for a user who has no other at the time.                     *)
ExactFor(u, c) ==
  /\ creations[c].step = "pushing" => creations[c].count = Cardinality(Of(u))
  /\ creations[c].step = "channels" /\ InApp \notin creations[c].todo => history.last[u] = c /\ Told(u)
Resting(u) == \A c \in Creation : creations[c].user = u => ~Active(c)

(* The only creation of a user keeps his number exact.                     *)
LEMMA AloneStep ==
  ASSUME IInv, Kinds, NEW u \in User, Regular(u)',
         NEW c \in Creation, Create(c), creations[c].user = u
  PROVE  ExactFor(u, c)' /\ (Resting(u)' => Told(u)')
<1> USE DEF IInv
<1>1. Moves(c)
  BY CreateMoves
<1>2. Regular(u)
  BY RegularBefore
<1>3. ExactFor(u, c)
  BY <1>2 DEF CountsExact, ExactFor
<1>4. Active(c)' => ~Resting(u)'
  BY <1>1 DEF Moves, Resting
<1>5. ~Unpushed(u)
  BY Unpushing DEF Regular
<1>6. CASE Store(c)
  <2>1. Becomes(c, "channels", preferences[u], creations[c].count)
    BY <1>6, StoreBecomes
  <2>2. InApp \in preferences[u]
    BY <1>5, <1>6 DEF Store, GetEnabledChannels
  <2>3. creations'[c].step = "channels" /\ InApp \in creations'[c].todo
    BY <2>1, <2>2 DEF Becomes
  <2> QED BY <1>4, <2>3 DEF ExactFor, Active
<1>7. CASE InsertInApp(c)
  <2>1. creations'[c].step = "counting"
    BY <1>7, InsertInAppBecomes DEF Becomes
  <2> QED BY <1>4, <2>1 DEF ExactFor, Active
<1>8. CASE CountUnread(c)
  <2>1. creations'[c].step = "pushing" /\ creations'[c].count = Cardinality(CountedOf(u))
    BY <1>8, CountUnreadBecomes DEF Becomes
  <2>2. CountedOf(u) = Of(u)
    BY <1>2 DEF CountedOf, Of, UntouchedAreNew, Regular
  <2>3. Of(u)' = Of(u)
    BY <1>8 DEF CountUnread, Of, Stored
  <2> QED BY <1>4, <2>1, <2>2, <2>3 DEF ExactFor, Active
<1>9. CASE EmitUnreadCount(c)
  <2>1. creations'[c].step = "channels" /\ creations[c].step = "pushing"
    BY <1>9, EmitMoves DEF Becomes, EmitUnreadCount
  <2>2. history'.last[u] = c
    BY <1>9, Pushing
  <2>3. Of(u)' = Of(u)
    BY <1>9 DEF EmitUnreadCount, Of, Stored
  <2>4. Of(u)' \ Late(u)' = Of(u)
    <3>1. ASSUME NEW ch \in External PROVE <<c, ch>> \notin Stored
      BY <2>1, RowIds DEF RowsHaveCreations, Channel
    <3>2. Late(u)' = {<<c, ch>> : ch \in External}
      BY <2>2 DEF Late
    <3>3. Of(u) \subseteq Stored
      BY DEF Of
    <3> QED BY <2>3, <3>1, <3>2, <3>3
  <2>5. Told(u)'
    <3>1. ASSUME NEW s \in Socket, sockets'[s].user = u, sockets'[s].count # None
          PROVE  sockets'[s].count = creations[c].count
      BY <1>9, <3>1, EmitTells DEF SocketsKnown, Sound
    <3>2. creations[c].count = Cardinality(Of(u))
      BY <1>3, <2>1 DEF ExactFor
    <3> QED BY <2>4, <3>1, <3>2 DEF Told
  <2> QED BY <1>4, <2>1, <2>2, <2>5 DEF ExactFor, Active
<1>10. ASSUME NEW ch \in External, InsertExternal(c, ch)
       PROVE  ExactFor(u, c)' /\ (Resting(u)' => Told(u)')
  <2>1. /\ creations'[c].step = "channels"
        /\ creations[c].step = "channels" /\ InApp \notin creations[c].todo
    BY <1>10, InsertExternalMoves DEF Becomes, InsertExternal
  <2>2. history.last[u] = c /\ Told(u) /\ UNCHANGED <<history, sockets>>
    BY <1>3, <1>10, <2>1 DEF ExactFor, InsertExternal, gateway
  <2>3. Of(u)' \ Late(u)' = Of(u) \ Late(u)
    <3> DEFINE n == <<c, ch>>
    <3>1. n \in RowId /\ Insert(n) /\ n \in Late(u) /\ Late(u)' = Late(u)
      BY <1>10, <2>2, RowIds DEF InsertExternal, Late, Channel
    <3>2. /\ Stored' = Stored \cup {n}
          /\ \A m \in RowId \ {n} : rows'[m] = rows[m]
      BY <3>1, Inserting
    <3> HIDE DEF n
    <3>3. \A m : m # n => (m \in Of(u)' <=> m \in Of(u))
      BY <3>2, StoredRows DEF Of, Stored
    <3> QED BY <3>1, <3>3
  <2>4. Told(u)'
    BY <2>2, <2>3, ToldStays DEF Undisturbed
  <2> QED BY <1>4, <2>1, <2>2, <2>4 DEF ExactFor, Active
<1>11. CASE Return(c)
  <2>1. /\ creations'[c].step = "returned"
        /\ creations[c].step = "channels" /\ InApp \notin creations[c].todo
    BY <1>11, ReturnMoves DEF Becomes, Return
  <2>2. Told(u) /\ UNCHANGED <<history, sockets, rows>>
    BY <1>3, <1>11, <2>1 DEF ExactFor, Return, gateway
  <2>3. Told(u)'
    BY <2>2, ToldStays DEF Of, Stored, Late, Undisturbed
  <2> QED BY <2>1, <2>3 DEF ExactFor
<1>12. CASE Throw(c)
  BY <1>5, <1>12 DEF Throw
<1>13. CASE FailChannel(c) \/ Reject(c)
  BY <1>5, <1>13, FailChannelMoves, RejectMoves
<1> QED BY <1>6, <1>7, <1>8, <1>9, <1>10, <1>11, <1>12, <1>13 DEF Create

(* Every step keeps exact numbers exact.                                   *)
LEMMA ExactStep ==
  ASSUME IInv, Kinds
  PROVE  CountsExact'
<1> USE DEF IInv
<1> SUFFICES ASSUME NEW u \in User, Regular(u)'
             PROVE  /\ \A d \in Creation : creations'[d].user = u => ExactFor(u, d)'
                    /\ Resting(u)' => Told(u)'
  BY DEF CountsExact, ExactFor, Resting
<1>1. CASE \A c \in Creation : Create(c) => creations[c].user # u
  <2>1. /\ Regular(u)
        /\ Of(u)' = Of(u) /\ Late(u)' = Late(u) /\ history'.last[u] = history.last[u]
        /\ \A s \in Socket : Undisturbed(s, u)
    BY <1>1, Elsewhere
  <2>2. Told(u) => Told(u)'
    BY <2>1, ToldStays
  <2>3. ASSUME NEW d \in Creation, creations'[d].user = u
        PROVE  creations'[d] = creations[d] \/ creations'[d].step = "storing"
    <3>1. CASE Rests \/ Edits
      BY <3>1 DEF Rests, Edits
    <3>2. ASSUME NEW c \in Creation, NEW v \in User, NEW b \in Broadcast \cup {None}, NEW e \in Date,
               Begins(c, v, b, e)
          PROVE  creations'[d] = creations[d] \/ creations'[d].step = "storing"
      BY <3>2, Starting DEF Begins, Starts
    <3>3. ASSUME NEW c \in Creation, Create(c), Moves(c) PROVE creations'[d] = creations[d]
      BY <1>1, <2>3, <3>3 DEF Moves
    <3> QED BY <3>1, <3>2, <3>3, RestKinds
  <2>4. ASSUME NEW d \in Creation, creations'[d].user = u PROVE ExactFor(u, d)'
    <3>1. CASE creations'[d] = creations[d]
      <4>1. ExactFor(u, d)
        BY <2>1, <2>4, <3>1 DEF CountsExact, ExactFor
      <4> QED BY <2>1, <2>2, <3>1, <4>1 DEF ExactFor
    <3>2. CASE creations'[d].step = "storing"
      BY <3>2 DEF ExactFor
    <3> QED BY <2>3, <2>4, <3>1, <3>2
  <2>5. ASSUME Resting(u)' PROVE Resting(u)
    <3>1. ASSUME NEW d \in Creation, creations[d].user = u PROVE ~Active(d)
      <4>1. CASE creations'[d] = creations[d]
        BY <2>5, <3>1, <4>1 DEF Resting, Active
      <4>2. CASE creations[d].step = "new"
        BY <4>2 DEF Active
      <4>3. creations'[d] = creations[d] \/ creations[d].step = "new"
        <5>1. CASE Rests \/ Edits
          BY <5>1 DEF Rests, Edits
        <5>2. ASSUME NEW c \in Creation, NEW v \in User, NEW b \in Broadcast \cup {None}, NEW e \in Date,
               Begins(c, v, b, e)
              PROVE  creations'[d] = creations[d] \/ creations[d].step = "new"
          BY <5>2, Starting DEF Begins, Starts
        <5>3. ASSUME NEW c \in Creation, Create(c), Moves(c) PROVE creations'[d] = creations[d]
          BY <1>1, <3>1, <5>3 DEF Moves
        <5> QED BY <5>1, <5>2, <5>3, RestKinds
      <4> QED BY <4>1, <4>2, <4>3
    <3> QED BY <3>1 DEF Resting
  <2>6. Resting(u) => Told(u)
    BY <2>1 DEF CountsExact, Resting
  <2> QED BY <2>2, <2>4, <2>5, <2>6
<1>2. ASSUME NEW c \in Creation, Create(c), creations[c].user = u
      PROVE  /\ \A d \in Creation : creations'[d].user = u => ExactFor(u, d)'
             /\ Resting(u)' => Told(u)'
  <2>1. ExactFor(u, c)' /\ (Resting(u)' => Told(u)')
    BY <1>2, AloneStep
  <2>2. Moves(c) /\ u \notin history.crowded
    BY <1>2, CreateMoves DEF Moves, Regular
  <2>3. ASSUME NEW d \in Creation, creations'[d].user = u, d # c PROVE ExactFor(u, d)'
    <3>1. creations'[d] = creations[d]
      BY <2>2, <2>3 DEF Moves
    <3>2. ~Active(d)
      BY <1>2, <2>2, <2>3, <3>1 DEF Moves, OneAtATime
    <3> QED BY <3>1, <3>2 DEF ExactFor, Active
  <2> QED BY <2>1, <2>3
<1> QED BY <1>1, <1>2

(* Both make the counts right.                                             *)
LEMMA Counting == IInv => PushedCountsAreBehind
<1> SUFFICES ASSUME IInv PROVE PushedCountsAreBehind
  OBVIOUS
<1> USE DEF IInv
<1> SUFFICES ASSUME NEW s \in Socket, sockets[s].user # None, sockets[s].count # None,
                    sockets[s].user \notin history.touched \cup history.unpushed,
                    \A n \in Of(sockets[s].user) : ~Lapsed(n)
             PROVE  LET u == sockets[s].user
                        late == {<<history.last[u], ch>> : ch \in External}
                    IN  /\ sockets[s].count <= Cardinality(UnreadOf(u))
                        /\ \/ u \in history.crowded
                           \/ \E c \in Creation : creations[c].user = u /\ Active(c)
                           \/ sockets[s].count = Cardinality(UnreadOf(u) \ late)
  BY DEF PushedCountsAreBehind
<1> DEFINE u == sockets[s].user
<1>1. u \in User
  BY SocketShape
<1>2. UnreadOf(u) = Of(u)
  BY DEF UnreadOf, InboxOf, Of, PastRetention, Past, UntouchedAreNew
<1>3. sockets[s].count <= Cardinality(Of(u))
  BY <1>1 DEF CountsBehind
<1>4. ASSUME u \notin history.crowded, \A c \in Creation : creations[c].user = u => ~Active(c)
      PROVE  sockets[s].count = Cardinality(Of(u) \ Late(u))
  <2>1. Told(u)
    BY <1>1, <1>4 DEF CountsExact, Regular
  <2> QED BY <2>1 DEF Told
<1> QED BY <1>2, <1>3, <1>4 DEF Late

-----------------------------------------------------------------------------
(* The theorems *)

(* The invariant holds initially.                                          *)
LEMMA InitInv == Init => IInv
<1> SUFFICES ASSUME Init PROVE IInv
  OBVIOUS
<1>1. TypeOK
  BY InitTypes
<1>2. Stored = {}
  BY DEF Init, Stored
<1>3. FinitelyMany
  BY <1>2, FS_EmptySet DEF FinitelyMany
<1>4. /\ \A c \in Creation : creations[c].step = "new" /\ creations[c].user = None
      /\ \A b \in Broadcast : broadcasts[b].step = "new" /\ broadcasts[b].listed = {}
      /\ \A s \in Socket : /\ sockets[s].user = None /\ sockets[s].count = None
                           /\ sockets[s].step = "new" /\ sockets[s].closed = "not"
      /\ \A c \in Creation : creations[c].by \notin Broadcast
      /\ \A u \in User : connected[u] = None
      /\ None \notin User
  BY InboxAssumption DEF Init
<1>5. RowsHaveCreations /\ UntouchedAreNew /\ ServiceRowsStay
  BY <1>2, <1>4 DEF RowsHaveCreations, UntouchedAreNew, ServiceRowsStay
<1>6. BroadcastsCover
  BY <1>4 DEF BroadcastsCover
<1>7. FoundAreDue
  BY DEF Init, FoundAreDue
<1>8. SocketsKnown
  BY <1>4 DEF SocketsKnown, Sound
<1>9. OneAtATime /\ CountsBehind /\ CountsExact
  BY <1>4 DEF OneAtATime, CountsBehind, CountsExact, Active, Told
<1> QED BY <1>1, <1>3, <1>5, <1>6, <1>7, <1>8, <1>9 DEF IInv

(* Every step keeps the invariant.                                         *)
LEMMA StepInv == IInv /\ [Next]_vars => IInv'
<1> SUFFICES ASSUME IInv, [Next]_vars PROVE IInv'
  OBVIOUS
<1> USE DEF IInv
<1>1. Kinds
  BY StepKinds
<1>2. TypeOK' /\ FinitelyMany'
  BY StepTypes
<1>3. RowsHaveCreations' /\ UntouchedAreNew' /\ ServiceRowsStay'
  BY <1>1, RowsStep, UntouchedStep, ServiceStep
<1>4. BroadcastsCover' /\ FoundAreDue' /\ SocketsKnown'
  BY <1>1, BroadcastsStep, FoundStep, SocketsStep
<1>5. OneAtATime' /\ CountsBehind' /\ CountsExact'
  BY <1>1, OneAtATimeStep, BehindStep, ExactStep
<1> QED BY <1>2, <1>3, <1>4, <1>5

(* What all of the theorems below rest on: rows belong to creations that   *)
(* have written them and are untouched until their user is marked, the     *)
(* sockets' counts are behind the rows and exact for who is regular, what  *)
(* the job found is due, and the map knows the sockets.                    *)
THEOREM IInvInvariant == Spec => []IInv
<1>1. Init => IInv
  BY InitInv
<1>2. IInv /\ [Next]_vars => IInv'
  BY StepInv
<1> QED BY <1>1, <1>2, PTL DEF Spec

(* Every variable of the inbox keeps its type: NotificationService,        *)
(* NotificationPrivacyService, the in-app channel and the gateway.         *)
THEOREM TypeCorrect == Spec => []TypeOK
<1>1. IInv => TypeOK
  BY DEF IInv
<1> QED BY <1>1, IInvInvariant, PTL

(* No socket is told of more unread notifications than the inbox has,      *)
(* while its user does nothing and nothing of the user's has expired; and  *)
(* when the user's creations did not overlap it is told of all but those   *)
(* the external channels wrote after the count (the in-app channel counts  *)
(* before email and SMS store their rows).                                 *)
THEOREM PushedCountsAreBehindHolds == Spec => []PushedCountsAreBehind
  BY Counting, IInvInvariant, PTL

(* A broadcast that ended has, until it expires, reached everyone it       *)
(* listed, but those whose own creation failed and those who did something *)
(* to their notifications (sendToTenant catches the error of each user).   *)
THEOREM BroadcastReachesHolds == Spec => []BroadcastReaches
<1>1. IInv => BroadcastReaches
  BY Reaching DEF IInv
<1> QED BY <1>1, IInvInvariant, PTL

(* The gateway's map names a socket of the user that was not closed after  *)
(* its handler had come to the map, and it names the open one whose        *)
(* handler is done, unless the user once had two live ones: a disconnect   *)
(* may be handled between the awaits of handleConnection.                  *)
THEOREM ConnectedMapRightHolds == Spec => []ConnectedMapRight
<1>1. IInv => ConnectedMapRight
  BY MapFromSockets DEF IInv
<1> QED BY <1>1, IInvInvariant, PTL

(* The retention job deletes nothing that was dismissed, is sensitive or   *)
(* is not due, unless it became so after the job had found it: of what     *)
(* disappears in a step, all else goes with its user.                      *)
THEOREM RetentionTakesOnlyDueHolds == Spec => RetentionTakesOnlyDue
<1>1. IInv /\ [Next]_vars => [\A n \in Stored : rows'[n] = None =>
                                 \/ Due(n) /\ ~rows[n].sensitive
                                 \/ found # None /\ n \in history.changed
                                 \/ rows[n].user \notin users']_vars
  BY StepTakes DEF Taken
<1> QED BY <1>1, IInvInvariant, PTL DEF Spec, RetentionTakesOnlyDue

=============================================================================
