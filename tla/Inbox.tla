------------------------------- MODULE Inbox -------------------------------
(***************************************************************************)
(* The rows of the notifications table as their users see them: what       *)
(* creations and broadcasts write, the unread counts pushed to open        *)
(* sockets, what users read, dismiss and restore, and the daily job that   *)
(* deletes what is past its retention (src/src/notifications: the          *)
(* notification, privacy, preference and scheduler services, the in-app    *)
(* channel, the gateway and the event listener).                           *)
(*                                                                         *)
(* All of it is about one tenant: every query names the tenant of the      *)
(* request.  What the external channels do with their rows afterwards is   *)
(* in NotificationDelivery.                                                *)
(***************************************************************************)
EXTENDS Naturals, FiniteSets

CONSTANTS
  User,       \* user ids
  Creation,   \* calls of NotificationService.create
  Broadcast,  \* calls of sendToTenant
  Service,    \* the service as the writer of a row ...
  InApp,      \* ... and the channels: in the application,
  External,   \* email and SMS
  Socket,     \* WebSocket connections
  None,       \* no row, no socket, no count, no date, no broadcast
  LastDay,    \* the last retention period looked at
  Dates,      \* dates of retention and of expiry that are set
  Choices,    \* sets of channels that users choose
  MaxServed   \* bound: how many calls are served and creations fail

Channel == {InApp} \cup External
RowId == Creation \X ({Service} \cup Channel)

Date == {None} \cup 0 .. LastDay
Row == [user : User, made : 0 .. LastDay, read : BOOLEAN, dismissed : BOOLEAN,
        sensitive : BOOLEAN, retention : Date, expires : Date]

ASSUME InboxAssumption ==
  /\ InApp \notin External /\ Service \notin Channel
  /\ None \notin Nat \cup Socket \cup Broadcast
  /\ None \notin User /\ None \notin Row
  /\ LastDay \in Nat /\ MaxServed \in Nat
  /\ Dates \subseteq 0 .. LastDay /\ Choices \subseteq SUBSET Channel

VARIABLES
  users,       \* the users there are
  preferences, \* the channels each of them has enabled
  rows,        \* the notifications
  audits,      \* the audit rows of sensitive ones
  creations,   \* what each creation is doing
  broadcasts,  \* what each broadcast is doing
  request,     \* a call of an owner that found its row and goes on
  found,       \* what the retention job found and has not come to yet
  sockets,     \* the sockets, how far they got and the last count each was told
  connected,   \* the gateway's map from users to sockets
  day,         \* how many retention periods have passed
  served,      \* how many calls have been served and failed
  history      \* what conditions of the properties look back at

calls == <<creations, broadcasts>>
gateway == <<sockets, connected>>
vars == <<users, preferences, rows, audits, calls, request, found, gateway, day, served, history>>

-----------------------------------------------------------------------------
CreationStep == {"new", "storing", "channels", "counting", "pushing", "returned", "thrown"}
Owned == {"read", "dismiss", "restore"}
SocketRecord ==
  [step : {"new", "checking", "joining", "done"}, closed : {"not", "early", "late"},
   user : User \cup {None}, count : Nat \cup {None}]

TypeOK ==
  /\ users \subseteq User
  /\ preferences \in [User -> SUBSET Channel]
  /\ rows \in [RowId -> Row \cup {None}]
  /\ audits \subseteq RowId \X {"DELETE", "UPDATE"}
  /\ creations \in [Creation -> [step : CreationStep, user : User \cup {None}, by : Broadcast \cup {None},
                                 expires : Date, todo : SUBSET Channel, count : Nat]]
  /\ \A c \in Creation : creations[c].step # "new" => creations[c].user \in User
  /\ broadcasts \in [Broadcast -> [step : {"new", "running", "ended"}, expires : Date,
                                   listed : SUBSET User, todo : SUBSET User]]
  /\ request = None \/ request \in [kind : Owned, row : RowId, sensitive : BOOLEAN]
  /\ found = None \/ found \subseteq RowId \X BOOLEAN
  /\ sockets \in [Socket -> SocketRecord]
  /\ connected \in [User -> Socket \cup {None}]
  /\ day \in 0 .. LastDay
  /\ served \in 0 .. MaxServed
  /\ history \in [touched : SUBSET User, unpushed : SUBSET User, crowded : SUBSET User,
                  changed : SUBSET RowId, reconnected : SUBSET User,
                  last : [User -> Creation \cup {None}]]

Init ==
  /\ users = User
  /\ preferences = [u \in User |-> {InApp} \cup External]
  /\ rows = [n \in RowId |-> None]
  /\ audits = {}
  /\ creations = [c \in Creation |-> [step |-> "new", user |-> None, by |-> None, expires |-> None,
                                      todo |-> {}, count |-> 0]]
  /\ broadcasts = [b \in Broadcast |-> [step |-> "new", expires |-> None, listed |-> {}, todo |-> {}]]
  /\ request = None
  /\ found = None
  /\ sockets = [s \in Socket |-> [step |-> "new", closed |-> "not", user |-> None, count |-> None]]
  /\ connected = [u \in User |-> None]
  /\ day = 0
  /\ served = 0
  /\ history = [touched |-> {}, unpushed |-> {}, crowded |-> {}, changed |-> {}, reconnected |-> {},
                last |-> [u \in User |-> None]]

Serve == served < MaxServed /\ served' = served + 1

-----------------------------------------------------------------------------
(* The WHERE clauses.                                                      *)

Stored == {n \in RowId : rows[n] # None}
Of(u) == {n \in Stored : rows[n].user = u}
Past(date) == date # None /\ date <= day
PastRetention(n) == Past(rows[n].retention)
Lapsed(n) == Past(rows[n].expires)

(* A plausible mistake, for mutation checks: a count of everybody's rows.  *)
CountedOfAll(u) == {n \in Stored : ~rows[n].read}

(* getUserNotifications and getUnreadCount of the service ...              *)
InboxOf(u) == {n \in Of(u) : ~rows[n].dismissed /\ ~PastRetention(n) /\ ~Lapsed(n)}
UnreadOf(u) == {n \in InboxOf(u) : ~rows[n].read}

(* ... and getUnreadCount of the in-app channel.                           *)
CountedOf(u) == {n \in Of(u) : ~rows[n].read /\ ~Lapsed(n)}

(* What the retention job looks for: what is past a date of its own, or is *)
(* old and has none.                                                       *)
Due(n) ==
  /\ ~rows[n].dismissed
  /\ IF rows[n].retention = None THEN rows[n].made < day ELSE rows[n].retention <= day

-----------------------------------------------------------------------------
(* History: users whose rows were changed or deleted, users of a creation  *)
(* that failed or pushed nothing, users of two creations at once, rows     *)
(* changed since the retention job found them, users who reconnected       *)
(* before the old socket was closed, the last creation pushed to a user.   *)

Touched(u) == history' = [history EXCEPT !.touched = @ \cup {u}]
Unpushed(u) == history' = [history EXCEPT !.unpushed = @ \cup {u}]
Changed(n) ==
  history' = [history EXCEPT !.touched = @ \cup {rows[n].user},
                             !.changed = IF found = None THEN @ ELSE @ \cup {n}]

-----------------------------------------------------------------------------
(* Creating *)

Goto(c, step) == creations' = [creations EXCEPT ![c].step = step]
Active(c) == creations[c].step \notin {"new", "returned", "thrown"}

Start(c, u, b, expires) ==
  /\ creations[c].step = "new"
  /\ creations' = [creations EXCEPT ![c].step = "storing", ![c].user = u, ![c].by = b,
                                    ![c].expires = expires]
  /\ history' = [history EXCEPT !.crowded =
       IF \E d \in Creation : Active(d) /\ creations[d].user = u THEN @ \cup {u} ELSE @]

(* sendToUser, for a request of the user or another service; the payload   *)
(* may say when the notification expires.                                  *)
SendToUser(c, u, expires) ==
  /\ u \in users
  /\ Serve
  /\ Start(c, u, None, expires)
  /\ UNCHANGED <<users, preferences, rows, audits, broadcasts, request, found, gateway>>

Insert(n) ==
  /\ creations[n[1]].user \in users
  /\ rows' = [rows EXCEPT ![n] = [user |-> creations[n[1]].user, made |-> day, read |-> FALSE,
                                  dismissed |-> FALSE, sensitive |-> FALSE, retention |-> None,
                                  expires |-> creations[n[1]].expires]]

(* create asks for the enabled channels and stores a row of its own.       *)
GetEnabledChannels(u) == preferences[u]

Store(c) ==
  LET enabled == GetEnabledChannels(creations[c].user) IN
  /\ creations[c].step = "storing"
  /\ Insert(<<c, Service>>)
  /\ creations' = [creations EXCEPT ![c].step = "channels", ![c].todo = enabled]
  /\ UNCHANGED <<users, preferences, audits, broadcasts, request, found, gateway, served>>
  /\ IF InApp \in enabled THEN UNCHANGED history ELSE Unpushed(creations[c].user)

(* The in-app channel comes first: it inserts a row of its own and a log,  *)
(* emits the notification, counts and emits the count.                     *)
InsertInApp(c) ==
  /\ creations[c].step = "channels" /\ InApp \in creations[c].todo
  /\ ~Past(creations[c].expires)
  /\ Insert(<<c, InApp>>)
  /\ creations' = [creations EXCEPT ![c].step = "counting", ![c].todo = @ \ {InApp}]
  /\ UNCHANGED <<users, preferences, audits, broadcasts, request, found, gateway, served, history>>

CountUnread(c) ==
  /\ creations[c].step = "counting"
  /\ creations' = [creations EXCEPT ![c].step = "pushing",
                                    ![c].count = Cardinality(CountedOf(creations[c].user))]
  /\ UNCHANGED <<users, preferences, rows, audits, broadcasts, request, found, gateway, served, history>>

(* To the room of the user, which an open socket of theirs has joined.     *)
Up(s) == sockets[s].step # "new" /\ sockets[s].closed = "not"

EmitUnreadCount(c) ==
  LET u == creations[c].user IN
  /\ creations[c].step = "pushing"
  /\ sockets' = [s \in Socket |->
       IF Up(s) /\ sockets[s].user = u THEN [sockets[s] EXCEPT !.count = creations[c].count] ELSE sockets[s]]
  /\ Goto(c, "channels")
  /\ history' = [history EXCEPT !.last[u] = c]
  /\ UNCHANGED <<users, preferences, rows, audits, broadcasts, request, found, connected, served>>

InsertExternal(c, ch) ==
  /\ creations[c].step = "channels" /\ ch \in creations[c].todo \cap External
  /\ InApp \notin creations[c].todo
  /\ ~Past(creations[c].expires)
  /\ Insert(<<c, ch>>)
  /\ creations' = [creations EXCEPT ![c].todo = @ \ {ch}]
  /\ UNCHANGED <<users, preferences, audits, broadcasts, request, found, gateway, served, history>>

(* The service's row gets the channels that succeeded.                     *)
Return(c) ==
  /\ creations[c].step = "channels" /\ creations[c].todo = {}
  /\ rows[<<c, Service>>] # None
  /\ Goto(c, "returned")
  /\ UNCHANGED <<users, preferences, rows, audits, broadcasts, request, found, gateway, served, history>>

(* What fails outside the channels is thrown.  A channel that fails leaves *)
(* the rest to the others, and a count that fails is pushed as 0.          *)
Throw(c) ==
  /\ Serve
  /\ \/ creations[c].step = "storing"
     \/ creations[c].step = "channels" /\ creations[c].todo = {}
  /\ Goto(c, "thrown")
  /\ UNCHANGED <<users, preferences, rows, audits, broadcasts, request, found, gateway>>
  /\ Unpushed(creations[c].user)

NextChannel(c, ch) ==
  /\ creations[c].step = "channels" /\ ch \in creations[c].todo
  /\ ch = InApp \/ InApp \notin creations[c].todo

FailChannel(c) ==
  /\ Serve
  /\ \/ \E ch \in creations[c].todo :
          /\ NextChannel(c, ch)
          /\ creations' = [creations EXCEPT ![c].todo = @ \ {ch}]
     \/ creations[c].step \in {"counting", "pushing"} /\ Goto(c, "channels")
     \/ creations[c].step = "counting"
        /\ creations' = [creations EXCEPT ![c].step = "pushing", ![c].count = 0]
  /\ UNCHANGED <<users, preferences, rows, audits, broadcasts, request, found, gateway>>
  /\ Unpushed(creations[c].user)

(* No channel takes a notification that has expired.                       *)
Reject(c) ==
  /\ Past(creations[c].expires)
  /\ \E ch \in creations[c].todo :
       /\ NextChannel(c, ch)
       /\ creations' = [creations EXCEPT ![c].todo = @ \ {ch}]
  /\ UNCHANGED <<users, preferences, rows, audits, broadcasts, request, found, gateway, served>>
  /\ Unpushed(creations[c].user)

(* A plausible mistake: an error that ends the loop over the users.        *)
NextOfBroadcastGivesUp(b) ==
  /\ broadcasts[b].step = "running"
  /\ \A c \in Creation : creations[c].by = b => ~Active(c)
  /\ \/ /\ \A c \in Creation : creations[c].by = b => creations[c].step # "thrown"
        /\ \E u \in broadcasts[b].todo, c \in Creation :
             /\ Start(c, u, b, broadcasts[b].expires)
             /\ broadcasts' = [broadcasts EXCEPT ![b].todo = @ \ {u}]
     \/ /\ \/ broadcasts[b].todo = {}
           \/ \E c \in Creation : creations[c].by = b /\ creations[c].step = "thrown"
        /\ broadcasts' = [broadcasts EXCEPT ![b].step = "ended"]
        /\ UNCHANGED <<creations, history>>
  /\ UNCHANGED <<users, preferences, rows, audits, request, found, gateway, served>>

(* sendToTenant lists the users and creates for one after the other.       *)
SendToTenant(b, expires) ==
  /\ broadcasts[b].step = "new"
  /\ Serve
  /\ broadcasts' = [broadcasts EXCEPT ![b] = [step |-> "running", expires |-> expires,
                                              listed |-> users, todo |-> users]]
  /\ UNCHANGED <<users, preferences, rows, audits, creations, request, found, gateway, history>>

NextOfBroadcast(b) ==
  /\ broadcasts[b].step = "running"
  /\ \A c \in Creation : creations[c].by = b => ~Active(c)
  /\ \/ \E u \in broadcasts[b].todo, c \in Creation :
          /\ Start(c, u, b, broadcasts[b].expires)
          /\ broadcasts' = [broadcasts EXCEPT ![b].todo = @ \ {u}]
     \/ /\ broadcasts[b].todo = {}
        /\ broadcasts' = [broadcasts EXCEPT ![b].step = "ended"]
        /\ UNCHANGED <<creations, history>>
  /\ UNCHANGED <<users, preferences, rows, audits, request, found, gateway, served>>

(* The listener: whom a handler notifies of an event, one user or all of   *)
(* the tenant.  Its service has a tenant only if its context got one;      *)
(* without it the handler logs an error and that is all.                   *)
UserEvents == {<<"USER_CREATED", "one">>, <<"USER_UPDATED", "one">>, <<"USER_DELETED", "all">>}
ProjectEvents == {"PROJECT_CREATED", "PROJECT_UPDATED", "PROJECT_DELETED"} \X {"one"}
AccessEvents == {"ROLE_ASSIGNED", "ROLE_REVOKED", "PERMISSION_GRANTED", "PERMISSION_REVOKED"} \X {"one"}
SystemEvents == {<<"SYSTEM_MAINTENANCE", "all">>, <<"SECURITY_ALERT", "one">>, <<"SECURITY_ALERT", "all">>}
BusinessEvents == {"INVOICE_GENERATED", "PAYMENT_RECEIVED", "SUBSCRIPTION_EXPIRED"} \X {"one"}

HandleEvent(event) ==
  \/ event[2] = "one" /\ \E c \in Creation, u \in User : SendToUser(c, u, None)
  \/ event[2] = "all" /\ \E b \in Broadcast : SendToTenant(b, None)

(* POST /notifications and /notifications/tenant-broadcast                 *)
CreateNotification ==
  \E expires \in {None} \cup Dates :
    \/ \E c \in Creation, u \in User : SendToUser(c, u, expires)
    \/ \E b \in Broadcast : SendToTenant(b, expires)

(* PUT /notification-preferences: an upsert of what is given.              *)
UpdatePreference(u, enabled) ==
  /\ u \in users
  /\ Serve
  /\ preferences' = [preferences EXCEPT ![u] = enabled]
  /\ UNCHANGED <<users, rows, audits, calls, request, found, gateway, history>>

-----------------------------------------------------------------------------
(* Reading, dismissing, restoring *)

(* The row is found by its id and owner ...                                *)
Find(kind, n) ==
  /\ request = None
  /\ n \in Stored
  /\ kind = "dismiss" => ~rows[n].dismissed
  /\ kind = "restore" => rows[n].dismissed
  /\ Serve
  /\ request' = [kind |-> kind, row |-> n, sensitive |-> rows[n].sensitive]
  /\ UNCHANGED <<users, preferences, rows, audits, calls, found, gateway, history>>

(* ... and updated by its id, if it is still there; a sensitive one leaves *)
(* an audit row (whose failure is caught).                                 *)
CreateAuditLog(n, action) == audits' \in {audits, audits \cup {<<n, action>>}}

MarkAsRead ==
  /\ request # None /\ request.kind = "read" /\ request.row \in Stored
  /\ rows' = [rows EXCEPT ![request.row].read = TRUE]
  /\ request' = None
  /\ Changed(request.row)
  /\ UNCHANGED <<users, preferences, audits, calls, found, gateway, served>>

SoftDeleteNotification ==
  /\ request # None /\ request.kind = "dismiss" /\ request.row \in Stored
  /\ rows' = [rows EXCEPT ![request.row].dismissed = TRUE]
  /\ IF request.sensitive THEN CreateAuditLog(request.row, "DELETE") ELSE UNCHANGED audits
  /\ request' = None
  /\ Changed(request.row)
  /\ UNCHANGED <<users, preferences, calls, found, gateway, served>>

RestoreNotification ==
  /\ request # None /\ request.kind = "restore" /\ request.row \in Stored
  /\ rows' = [rows EXCEPT ![request.row].dismissed = FALSE]
  /\ IF request.sensitive THEN CreateAuditLog(request.row, "UPDATE") ELSE UNCHANGED audits
  /\ request' = None
  /\ Changed(request.row)
  /\ UNCHANGED <<users, preferences, calls, found, gateway, served>>

FailRequest ==
  /\ request # None
  /\ request' = None
  /\ UNCHANGED <<users, preferences, rows, audits, calls, found, gateway, served, history>>

(* One statement each: read-all of a user, and what has no route.          *)
MarkAllAsRead(u) ==
  /\ u \in users
  /\ Serve
  /\ rows' = [n \in RowId |-> IF n \in Of(u) THEN [rows[n] EXCEPT !.read = TRUE] ELSE rows[n]]
  /\ Touched(u)
  /\ UNCHANGED <<users, preferences, audits, calls, request, found, gateway>>

SetRetentionDate(n, date) ==
  /\ n \in Stored
  /\ Serve
  /\ rows' = [rows EXCEPT ![n].retention = date]
  /\ Changed(n)
  /\ UNCHANGED <<users, preferences, audits, calls, request, found, gateway>>

MarkAsSensitive(n) ==
  /\ n \in Stored
  /\ Serve
  /\ rows' = [rows EXCEPT ![n].sensitive = TRUE]
  /\ Changed(n)
  /\ UNCHANGED <<users, preferences, audits, calls, request, found, gateway>>

-----------------------------------------------------------------------------
(* A plausible mistake: a job that does not look at the mark of dismissal. *)
FindExpiredAndDismissed ==
  /\ found = None
  /\ Serve
  /\ found' = {<<n, rows[n].sensitive>> : n \in {m \in Stored : Due(m) \/ (rows[m].dismissed /\ rows[m].made < day)}}
  /\ history' = [history EXCEPT !.changed = {}]
  /\ UNCHANGED <<users, preferences, rows, audits, calls, request, gateway>>

(* The retention job lists what is due, with its mark of sensitivity ...   *)
FindExpired ==
  /\ found = None
  /\ Serve
  /\ found' = {<<n, rows[n].sensitive>> : n \in {m \in Stored : Due(m)}}
  /\ history' = [history EXCEPT !.changed = {}]
  /\ UNCHANGED <<users, preferences, rows, audits, calls, request, gateway>>

(* ... and deletes by id.  The audit row of a sensitive one names the user *)
(* "system", whom there is not: it is refused, and the notification stays. *)
DeleteExpired ==
  /\ found # None
  /\ \E f \in found :
       /\ found' = found \ {f}
       /\ IF ~f[2] /\ f[1] \in Stored
          THEN /\ rows' = [rows EXCEPT ![f[1]] = None]
               /\ audits' = {a \in audits : a[1] # f[1]}
               /\ Touched(rows[f[1]].user)
          ELSE UNCHANGED <<rows, audits, history>>
  /\ UNCHANGED <<users, preferences, calls, request, gateway, served>>

(* It ends, having deleted all or failed on some.                          *)
StopRetention ==
  /\ found # None
  /\ found' = None
  /\ UNCHANGED <<users, preferences, rows, audits, calls, request, gateway, served, history>>

(* Deleting a user takes the rows.                                         *)
DeleteUser(u) ==
  /\ u \in users
  /\ Serve
  /\ users' = users \ {u}
  /\ rows' = [n \in RowId |-> IF n \in Of(u) THEN None ELSE rows[n]]
  /\ audits' = {a \in audits : a[1] \notin Of(u)}
  /\ Touched(u)
  /\ UNCHANGED <<preferences, calls, request, found, gateway>>

-----------------------------------------------------------------------------
(* The gateway.  A new socket's token is checked, it joins the room of its *)
(* user and becomes the user's entry in the map; the handler goes on after *)
(* each await, though the socket may have been closed meanwhile.  Closing  *)
(* removes the entry of the socket's user, once the socket has one.        *)
HandleConnection(s) ==
  /\ sockets[s].step = "new"
  /\ Serve
  /\ sockets' = [sockets EXCEPT ![s].step = "checking"]
  /\ UNCHANGED <<users, preferences, rows, audits, calls, request, found, connected, history>>

Live(s) == Up(s) \/ sockets[s].step = "joining"

ValidateToken(s, u) ==
  /\ sockets[s].step = "checking"
  /\ sockets' = [sockets EXCEPT ![s].step = "joining", ![s].user = u]
  /\ history' = [history EXCEPT !.reconnected =
       IF \E other \in Socket : sockets[other].user = u /\ Live(other) THEN @ \cup {u} ELSE @]
  /\ UNCHANGED <<users, preferences, rows, audits, calls, request, found, connected, served>>

RejectToken(s) ==
  /\ sockets[s].step = "checking"
  /\ sockets' = [sockets EXCEPT ![s].step = "done", ![s].closed = "early"]
  /\ UNCHANGED <<users, preferences, rows, audits, calls, request, found, connected, served, history>>

SetConnected(s) ==
  /\ sockets[s].step = "joining"
  /\ sockets' = [sockets EXCEPT ![s].step = "done"]
  /\ connected' = [connected EXCEPT ![sockets[s].user] = s]
  /\ UNCHANGED <<users, preferences, rows, audits, calls, request, found, served, history>>

Closing(s) == IF sockets[s].step = "done" THEN "late" ELSE "early"

(* A plausible mistake: a socket that is closed and stays in the map.      *)
HandleDisconnectKept(s) ==
  /\ Up(s)
  /\ sockets' = [sockets EXCEPT ![s].closed = Closing(s), ![s].count = None]
  /\ UNCHANGED <<users, preferences, rows, audits, calls, request, found, connected, served, history>>

HandleDisconnect(s) ==
  /\ Up(s)
  /\ sockets' = [sockets EXCEPT ![s].closed = Closing(s), ![s].count = None]
  /\ connected' = IF sockets[s].user = None THEN connected
                  ELSE [connected EXCEPT ![sockets[s].user] = None]
  /\ UNCHANGED <<users, preferences, rows, audits, calls, request, found, served, history>>

(* Joining fails: the error is caught and the socket disconnected.         *)
FailJoin(s) ==
  /\ sockets[s].step = "joining"
  /\ sockets' = [sockets EXCEPT ![s].step = "done", ![s].closed = "early", ![s].count = None]
  /\ connected' = IF Up(s) THEN [connected EXCEPT ![sockets[s].user] = None] ELSE connected
  /\ UNCHANGED <<users, preferences, rows, audits, calls, request, found, served, history>>

IsUserConnected(u) == connected[u] # None

Tick ==
  /\ day < LastDay
  /\ day' = day + 1
  /\ UNCHANGED <<users, preferences, rows, audits, calls, request, found, gateway, served, history>>

Create(c) ==
  \/ Store(c) \/ InsertInApp(c) \/ CountUnread(c) \/ EmitUnreadCount(c)
  \/ \E ch \in External : InsertExternal(c, ch)
  \/ Return(c) \/ Throw(c) \/ FailChannel(c) \/ Reject(c)

Owners ==
  \/ \E n \in RowId :
       \/ \E kind \in Owned : Find(kind, n)
       \/ \E date \in Dates : SetRetentionDate(n, date)
       \/ MarkAsSensitive(n)
  \/ MarkAsRead \/ SoftDeleteNotification \/ RestoreNotification \/ FailRequest
  \/ \E u \in User :
       \/ MarkAllAsRead(u) \/ DeleteUser(u)
       \/ \E enabled \in Choices : UpdatePreference(u, enabled)

Connect(s) ==
  \/ HandleConnection(s) \/ RejectToken(s) \/ SetConnected(s) \/ FailJoin(s)
  \/ \E u \in User : ValidateToken(s, u)
  \/ HandleDisconnect(s)

Step ==
  \/ \E event \in UserEvents \cup ProjectEvents \cup AccessEvents \cup SystemEvents \cup BusinessEvents :
       HandleEvent(event)
  \/ CreateNotification
  \/ \E c \in Creation : Create(c)
  \/ \E b \in Broadcast : NextOfBroadcast(b)
  \/ Owners
  \/ FindExpired \/ DeleteExpired \/ StopRetention
  \/ \E s \in Socket : Connect(s)

Next == (Step /\ UNCHANGED day) \/ Tick

Spec == Init /\ [][Next]_vars

-----------------------------------------------------------------------------
(* What users may rely on *)

(* While nothing but creations that push touch a user's rows and none of   *)
(* them expires, no socket is told of more unread notifications than the   *)
(* inbox has; and after creations that did not overlap it is told of all   *)
(* but those the external channels wrote after the count.                  *)
PushedCountsAreBehind ==
  \A s \in Socket :
    LET u == sockets[s].user
        late == {<<history.last[u], ch>> : ch \in External} IN
    /\ u # None /\ sockets[s].count # None /\ u \notin history.touched \cup history.unpushed
    /\ \A n \in Of(u) : ~Lapsed(n)
    =>
      /\ sockets[s].count <= Cardinality(UnreadOf(u))
      /\ \/ u \in history.crowded
         \/ \E c \in Creation : creations[c].user = u /\ Active(c)
         \/ sockets[s].count = Cardinality(UnreadOf(u) \ late)

(* The retention job deletes nothing that was dismissed, is sensitive or   *)
(* is not due, unless it became so after the job had found it.             *)
RetentionTakesOnlyDue ==
  [][\A n \in Stored : rows'[n] = None =>
       \/ Due(n) /\ ~rows[n].sensitive
       \/ found # None /\ n \in history.changed
       \/ rows[n].user \notin users']_vars

(* After a broadcast everyone it listed has the notification in the inbox  *)
(* until it expires, but those whose creation failed and those who did     *)
(* something to their notifications: an error does not keep the others     *)
(* from it.                                                                *)
BroadcastReaches ==
  \A b \in Broadcast : broadcasts[b].step = "ended" /\ ~Past(broadcasts[b].expires) =>
    \A u \in broadcasts[b].listed \ history.touched :
      \E c \in Creation :
        /\ creations[c].by = b /\ creations[c].user = u
        /\ creations[c].step = "thrown" \/ <<c, Service>> \in InboxOf(u)

(* The map names a socket of the user, one that is open or was closed      *)
(* before its handler had come to the map; and of a user who never had two *)
(* at a time it names the open one whose handler is done.                  *)
ConnectedMapRight ==
  \A u \in User :
    /\ IsUserConnected(u) => /\ sockets[connected[u]].user = u
                             /\ sockets[connected[u]].closed # "late"
    /\ \A s \in Socket :
         Up(s) /\ sockets[s].step = "done" /\ sockets[s].user = u =>
           connected[u] = s \/ u \in history.reconnected

=============================================================================
