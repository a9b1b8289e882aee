------------------------ MODULE InvitationManagement ------------------------
(***************************************************************************)
(* The management calls of the invitation component, composed with the     *)
(* invitations themselves: bulk creation, cancellation and resending       *)
(* (invitation-management.service.ts), the statistics and the report of a  *)
(* tenant, and the paged listing of invitation.service.ts.                 *)
(*                                                                         *)
(* A bulk call has no transaction of its own: it runs the single operation *)
(* once per item, catches what an item throws and goes on.  So a manager   *)
(* drives one of the requests of module Invitations, item after item,      *)
(* while every other request steps between any two of its round trips.     *)
(* A statistic or a report is several queries, each of its own snapshot.   *)
(*                                                                         *)
(* The two status jobs of module Invitations are left out of Next: Nest    *)
(* does not register them (README).  Rows disappear with their inviter.    *)
(***************************************************************************)
EXTENDS Invitations, Sequences, FiniteSets

CONSTANTS
  Manager,    \* the requests that are management calls
  Malformed,  \* an entry of an address list that is not an address
  EmailList,  \* bound: the address lists bulk creations are asked for
  IdList,     \* bound: the id lists bulk cancellations and resends get
  MaxEmails,  \* 100 in the code
  MaxIds      \* 50 in the code

ASSUME ManagementAssumption ==
  /\ Manager \subseteq Request
  /\ Malformed \notin Email
  /\ EmailList \subseteq Seq(Email \cup {Malformed})
  /\ IdList \subseteq Seq(Invitation)
  /\ MaxEmails \in Nat /\ MaxIds \in Nat

VARIABLES
  calls,     \* what each management call has done and counted so far
  disturbed  \* history: what others changed while a call was counting

callVars == <<calls, disturbed>>
allVars == <<vars, callVars>>

-----------------------------------------------------------------------------
NoCall == [step |-> "none"]

(* The process died on the call; its client will never get an answer.      *)
CutOff == [step |-> "cut off"]

BulkOp == {"create", "cancel", "resend"}

(* A bulk call works on items[at]; it answers with the invitations it did  *)
(* and the number of items that failed.                                    *)
BulkCall(op, tenant, items) ==
  [step |-> "item", op |-> op, tenant |-> tenant, items |-> items, at |-> 1,
   successful |-> <<>>, failed |-> 0]

Ended(m) == calls[m].step = "none" \/ calls[m].step = "cut off"
IsBulk(m) == ~Ended(m) /\ calls[m].op \in BulkOp
Working(m) == calls[m].step \in {"item", "reading", "counting"}
Answered(m) == calls[m].step = "answered"
Item(m) == calls[m].items[calls[m].at]

Update(m, call) == calls' = [calls EXCEPT ![m] = call]

(* The next item, or the answer after the last one.                        *)
Advance(m, call) ==
  Update(m, [call EXCEPT !.at = @ + 1,
                         !.step = IF call.at = Len(call.items) THEN "answered" ELSE "item"])

(* The try around the loop, not around each item: what an item throws      *)
(* leaves the loop (mutation checks).                                      *)
FailItemOutOfLoop(m) == Update(m, NoCall)

Succeed(m, i) == Advance(m, [calls[m] EXCEPT !.successful = Append(@, i)])
FailItem(m) == Advance(m, [calls[m] EXCEPT !.failed = @ + 1])

(* A bulk creation without the removal of equal entries (mutation checks). *)
DistinctNot(list) == list

(* [...new Set(emails)]: the first of equal entries, in order.             *)
Firsts(list) == {k \in DOMAIN list : \A l \in 1 .. k - 1 : list[l] # list[k]}

Distinct(list) ==
  LET firsts == Firsts(list) IN
  [n \in 1 .. Cardinality(firsts) |->
     list[CHOOSE k \in firsts : Cardinality(firsts \cap 1 .. k) = n]]

-----------------------------------------------------------------------------
(* What statistics and reports count *)

Rows(tenant) == {i \in Invitation : Stored(i) /\ i.tenant = tenant}

(* groupBy status with _count.                                             *)
ByStatus(rows) ==
  [s \in InvitationStatus |-> Cardinality({i \in rows : Status(i) = s})]

Total(byStatus) ==
  byStatus["PENDING"] + byStatus["ACCEPTED"] + byStatus["CANCELLED"] + byStatus["EXPIRED"]

Uncounted == [x \in {} |-> 0]

(* What a rate divides.  The code computes one rate over all rows and one  *)
(* over the last 30 days, from four counts; the two share no count, so a   *)
(* call of the model computes one of them.  Its cutoff is the set of rows  *)
(* created before its window, empty for the rate over all rows.  Every     *)
(* acceptance of an instance falls inside the window.                      *)
Figure == {"accepted", "sent"}

(* Rows of one address are created one after the other.                    *)
Cutoffs(tenant) ==
  {old \in SUBSET Rows(tenant) :
     \A i \in old, j \in Rows(tenant) : SameAddress(i, j) /\ j.nr < i.nr => j \in old}

(* A rate whose denominator forgets the answered rows (mutation checks).   *)
CountedUnanswered(figure, tenant, cutoff) ==
  Cardinality({i \in Rows(tenant) :
    IF figure = "accepted" THEN Status(i) = "ACCEPTED"
    ELSE i \notin cutoff /\ Status(i) \in {"PENDING", "EXPIRED"}})

Counted(figure, tenant, cutoff) ==
  Cardinality({i \in Rows(tenant) :
    IF figure = "accepted" THEN Status(i) = "ACCEPTED" ELSE i \notin cutoff})

(* The where clause of a report: leaving out expired rows overrides the    *)
(* status asked for, and the controller leaves them out unless told so.    *)
Matching(tenant, where) ==
  {i \in Rows(tenant) :
     IF where.includeExpired
     THEN where.status = "ANY" \/ Status(i) = where.status
     ELSE Status(i) # "EXPIRED"}

Where == [status : {"ANY", "ACCEPTED"}, includeExpired : BOOLEAN]

-----------------------------------------------------------------------------
MInit ==
  /\ Init
  /\ calls = [m \in Manager |-> NoCall]
  /\ disturbed = [m \in Manager |-> {}]

-----------------------------------------------------------------------------
(* Bulk operations *)

(* createBulkInvitations, cancelBulkInvitations, resendBulkInvitations up  *)
(* to their loops: an empty or too long list is refused at once, and only  *)
(* the creation removes equal entries.                                     *)
StartBulk(m, op, tenant, list) ==
  /\ calls[m] = NoCall
  /\ Len(list) \in 1 .. (IF op = "create" THEN MaxEmails ELSE MaxIds)
  /\ Update(m, BulkCall(op, tenant, IF op = "create" THEN Distinct(list) ELSE list))
  /\ UNCHANGED vars

(* The item's operation reads: createInvitation looks for an open one,     *)
(* cancelInvitation and resendInvitation for the row of this tenant.       *)
ReadItem(m) ==
  LET c == calls[m] IN
  /\ c.step = "item"
  /\ \/ /\ c.op = "create"
        /\ Item(m) # Malformed
        /\ CheckNoPendingInvitation(m, c.tenant, Item(m))
     \/ /\ c.op # "create"
        /\ Item(m).tenant = c.tenant
        /\ ReadInvitation(m, Item(m), IF c.op = "cancel" THEN "cancelling" ELSE "resending")
  /\ UNCHANGED calls

(* ... and writes.  A creation is then done; the other two go on to read   *)
(* the address of the row for the answer.                                  *)
WriteItem(m) ==
  LET c == calls[m] IN
  /\ c.step = "item"
  /\ \/ \E i \in Invitation : InsertInvitation(m, i) /\ Succeed(m, i)
     \/ /\ WriteCancelled(m) \/ WriteResent(m)
        /\ Update(m, [c EXCEPT !.step = "reading"])

(* findUnique by id: a row deleted meanwhile answers 'unknown'.            *)
ReadAddress(m) ==
  /\ calls[m].step = "reading"
  /\ Succeed(m, Item(m))
  /\ UNCHANGED vars

(* The catch clause: whatever the item's statements throw (a malformed     *)
(* address, a row that is not open, a refused write, a lost connection,    *)
(* also while reading the address of what is done), the loop goes on.      *)
ItemThrows(m) ==
  /\ calls[m].step \in {"item", "reading"}
  /\ FailItem(m)
  /\ Finish(m)
  /\ UNCHANGED <<invitations, tenantOf, roles, sweep, purge, provisioned>>

Bulk(m) ==
  \/ \E tenant \in Tenant :
       \/ \E list \in EmailList : StartBulk(m, "create", tenant, list)
       \/ \E op \in {"cancel", "resend"}, list \in IdList : StartBulk(m, op, tenant, list)
  \/ ReadItem(m)
  \/ WriteItem(m)
  \/ ReadAddress(m)
  \/ ItemThrows(m)

-----------------------------------------------------------------------------
(* Statistics, reports, listings *)

(* getInvitationStatistics reads the clock and groups by status ...        *)
StartStatistics(m, tenant, cutoff) ==
  /\ calls[m] = NoCall
  /\ Update(m, [step |-> "counting", op |-> "statistics", tenant |-> tenant,
                cutoff |-> cutoff, byStatus |-> ByStatus(Rows(tenant)), counts |-> Uncounted])
  /\ UNCHANGED vars

(* ... then the counts run at once, on connections of their own.           *)
CountFigure(m, figure) ==
  LET c == calls[m]
      counts == [f \in DOMAIN c.counts \cup {figure} |->
                   IF f = figure THEN Counted(f, c.tenant, c.cutoff) ELSE c.counts[f]] IN
  /\ c.step = "counting" /\ c.op = "statistics"
  /\ figure \notin DOMAIN c.counts
  /\ Update(m, [c EXCEPT !.counts = counts,
                         !.step = IF DOMAIN counts = Figure THEN "answered" ELSE "counting"])
  /\ UNCHANGED vars

(* generateInvitationReport, also behind the CSV export: the rows, then    *)
(* their numbers by status under the same where clause.                    *)
StartReport(m, tenant, where) ==
  /\ calls[m] = NoCall
  /\ Update(m, [step |-> "counting", op |-> "report", tenant |-> tenant, where |-> where,
                list |-> [i \in Matching(tenant, where) |-> Status(i)],
                byStatus |-> Uncounted])
  /\ UNCHANGED vars

SummariseReport(m) ==
  LET c == calls[m] IN
  /\ c.step = "counting" /\ c.op = "report"
  /\ Update(m, [c EXCEPT !.step = "answered",
                         !.byStatus = ByStatus(Matching(c.tenant, c.where))])
  /\ UNCHANGED vars

(* getInvitations, on a page that holds every row: the number, then the    *)
(* rows, of one status or of any; it never leaves out expired ones.        *)
StartListing(m, tenant, where) ==
  /\ calls[m] = NoCall
  /\ Update(m, [step |-> "counting", op |-> "listing", tenant |-> tenant, where |-> where,
                total |-> Cardinality(Matching(tenant, where)), list |-> Uncounted])
  /\ UNCHANGED vars

ListRows(m) ==
  LET c == calls[m] IN
  /\ c.step = "counting" /\ c.op = "listing"
  /\ Update(m, [c EXCEPT !.step = "answered",
                         !.list = [i \in Matching(c.tenant, c.where) |-> Status(i)]])
  /\ UNCHANGED vars

Count(m) ==
  \/ \E tenant \in Tenant :
       \/ \E cutoff \in Cutoffs(tenant) : StartStatistics(m, tenant, cutoff)
       \/ \E where \in Where : StartReport(m, tenant, where)
       \/ \E where \in Where : where.includeExpired /\ StartListing(m, tenant, where)
  \/ \E figure \in Figure : CountFigure(m, figure)
  \/ SummariseReport(m)
  \/ ListRows(m)

-----------------------------------------------------------------------------
(* The answer is sent, or the process dies, with what is done done, and is *)
(* started again.  (So ends a count, too, when one of its queries fails.)  *)
End(m) ==
  /\ \/ Working(m) /\ Update(m, CutOff)
     \/ (Answered(m) \/ calls[m] = CutOff) /\ Update(m, NoCall)
  /\ Finish(m)
  /\ UNCHANGED <<invitations, tenantOf, roles, sweep, purge, provisioned>>

(* Everybody else: single operations, acceptances, joins, the clock, and   *)
(* the deletion of users.                                                  *)
Others ==
  /\ \/ \E r \in Request \ Manager : Administer(r) \/ Accept(r) \/ Join(r) \/ Fail(r)
     \/ \E u \in User, sent \in SUBSET Invitation : DeleteUser(u, sent)
     \/ \E i \in Invitation : Lapse(i)
  /\ UNCHANGED calls

(* History: whether rows came or went, or a status changed, since a call   *)
(* that is counting began.                                                 *)
Disturbances ==
  {d \in {"rows", "status"} :
     \/ d = "rows" /\ {i \in Invitation : Stored(i)'} # {i \in Invitation : Stored(i)}
     \/ d = "status" /\ \E i \in Invitation : Status(i)' # Status(i)}

WatchCalls ==
  disturbed' = [m \in Manager |->
    IF calls[m].step = "counting" THEN disturbed[m] \cup Disturbances
    ELSE IF Answered(m)' THEN disturbed[m] ELSE {}]

MNext ==
  /\ \/ \E m \in Manager : Bulk(m) \/ Count(m) \/ End(m)
     \/ Others
  /\ WatchCalls

MSpec == MInit /\ [][MNext]_allVars

(* A bulk call that is not interrupted takes its next step.                *)
MFairSpec ==
  MSpec /\ \A m \in Manager :
    WF_allVars((ReadItem(m) \/ WriteItem(m) \/ ReadAddress(m) \/ ItemThrows(m)) /\ WatchCalls)

-----------------------------------------------------------------------------
(* What the calls promise *)

(* A bulk call tells the truth about what it did, whatever others did      *)
(* between its items: it accounts for every item; what it says it created  *)
(* are invitations of different addresses it was asked for; what it says   *)
(* it cancelled is not open, and is named once however often it was asked  *)
(* for (invitation-management.service.ts:141-174, 232-252, 310-330).       *)
AnswersAreTrue ==
  \A m \in Manager : Answered(m) /\ IsBulk(m) =>
    LET c == calls[m]
        done == c.successful
        named == DOMAIN done IN
    /\ Len(done) + c.failed = Len(c.items)
    /\ c.op = "create" =>
         /\ \A k \in named : /\ Status(done[k]) # "NONE"
                             /\ \E j \in DOMAIN c.items : c.items[j] = done[k].email
         /\ \A k, l \in named : k # l => done[k].email # done[l].email
    /\ c.op = "cancel" =>
         /\ \A k \in named : ~Pending(done[k])
         /\ \A k, l \in named : k # l => done[k] # done[l]
    /\ c.op = "resend" =>
         \A k \in named : Stored(done[k]) => invitations[done[k]].token > 0

(* What the figures of an answer have to do with each other.               *)
FiguresFitTogether(m) ==
  LET c == calls[m] IN
  /\ c.op = "statistics" =>
       /\ Total(c.byStatus) = c.counts["sent"] + Cardinality(c.cutoff)
       /\ c.cutoff \cap provisioned = {} => c.counts["accepted"] <= c.counts["sent"]
  /\ c.op = "report" /\ disturbed[m] = {} =>
       \A s \in InvitationStatus :
         c.byStatus[s] = Cardinality({i \in DOMAIN c.list : c.list[i] = s})
  /\ c.op = "listing" /\ disturbed[m] = {} => c.total = Cardinality(DOMAIN c.list)

(* Figures of one answer come from different queries and still fit together*)
(* as long as no row was inserted or deleted meanwhile: the total is the   *)
(* number sent, and no more were accepted than sent, in the last month as  *)
(* long as no acceptance answers an older invitation.  A report's summary  *)
(* and a listing's total describe their rows if no status changed either   *)
(* (invitation-management.service.ts: 373-431, 557-593;                    *)
(* invitation.service.ts:540-577).                                         *)
FiguresAgree ==
  \A m \in Manager : Answered(m) /\ "rows" \notin disturbed[m] => FiguresFitTogether(m)

(* One bad item never stops a bulk call: unless its process dies it goes   *)
(* on to the end of its list, and its answer accounts for every item,      *)
(* those after the bad one included.  The try is around each item          *)
(* (invitation-management.service.ts:141-174), so neither a refused write  *)
(* nor a row that others closed or deleted meanwhile leaves the loop.      *)
BulkCallsEnd ==
  \A m \in Manager :
    (IsBulk(m) /\ Working(m)) ~>
      \/ calls[m] = CutOff
      \/ /\ Answered(m) /\ IsBulk(m)
         /\ Len(calls[m].successful) + calls[m].failed = Len(calls[m].items)

=============================================================================
