------------------------- MODULE InvitationLifecycle -------------------------
(***************************************************************************)
(* What the invitation component promises, without requests, tokens, the   *)
(* clock and the two-step jobs: an invitation is offered to an address,    *)
(* closed, and removed; its roles are granted to the user of that address. *)
(* Module Invitations implements this: everything its handlers read and    *)
(* may find changed when they write is invisible here.                     *)
(***************************************************************************)
CONSTANTS Tenant, Invitation, User, Unused, Deleted, Tenantless

VARIABLES
  life,     \* what has become of each invitation
  home,     \* the tenant of each user
  granted,  \* the invitations whose roles each user holds
  given     \* the invitations whose roles were ever granted

lifecycleVars == <<life, home, granted, given>>

Closing == {"ACCEPTED", "CANCELLED", "EXPIRED"}
Existing == {i \in Invitation : life[i] \in Closing \cup {"PENDING"}}

SameOffer(i, j) == i.tenant = j.tenant /\ i.email = j.email

(* At most one invitation of an address has any one status.                *)
Unshared(i, status) == \A j \in Invitation \ {i} : SameOffer(i, j) => life[j] # status

(* Nobody but u may be the member of this tenant with u's address.         *)
OnlyMember(u, tenant) ==
  \A w \in User \ {u} : w.email = u.email => home[w] # tenant

Init ==
  /\ life = [i \in Invitation |-> "NONE"]
  /\ home \in [User -> {Unused, Tenantless}]
  /\ granted = [u \in User |-> {}]
  /\ given = {}

Offer(i) ==
  /\ life[i] = "NONE"
  /\ Unshared(i, "PENDING")
  /\ life' = [life EXCEPT ![i] = "PENDING"]
  /\ UNCHANGED <<home, granted, given>>

(* Invitations of different addresses may be closed by one statement.  One *)
(* that is closed may be closed otherwise, but ACCEPTED needs a grant.     *)
Close(batch, status) ==
  /\ batch \subseteq Existing
  /\ status = "ACCEPTED" => batch \subseteq given
  /\ \A i \in batch :
       /\ Unshared(i, status)
       /\ \A j \in batch \ {i} : ~SameOffer(i, j)
  /\ life' = [i \in Invitation |-> IF i \in batch THEN status ELSE life[i]]
  /\ UNCHANGED <<home, granted, given>>

(* A new member, with the roles of an invitation made to its address.      *)
Admit(u, i) ==
  /\ home[u] = Unused
  /\ life[i] # "NONE"
  /\ u.email = i.email
  /\ OnlyMember(u, i.tenant)
  /\ home' = [home EXCEPT ![u] = i.tenant]
  /\ granted' = [granted EXCEPT ![u] = {i}]
  /\ given' = given \cup {i}
  /\ UNCHANGED life

(* A user who exists moves in, and the invitation is accepted with it.     *)
Join(u, i) ==
  /\ home[u] \in Tenant \cup {Tenantless}
  /\ i \in Existing
  /\ u.email = i.email
  /\ OnlyMember(u, i.tenant)
  /\ Unshared(i, "ACCEPTED")
  /\ home' = [home EXCEPT ![u] = i.tenant]
  /\ granted' = [granted EXCEPT ![u] = @ \cup {i}]
  /\ given' = given \cup {i}
  /\ life' = [life EXCEPT ![i] = "ACCEPTED"]

(* Only what is closed is cleaned up ...                                   *)
CleanUp(batch) ==
  /\ \A i \in batch : life[i] \in Closing \cup {"GONE"}
  /\ life' = [i \in Invitation |-> IF i \in batch THEN "GONE" ELSE life[i]]
  /\ UNCHANGED <<home, granted, given>>

(* ... but a member who is deleted takes the invitations it sent along.    *)
Leave(u, sent) ==
  /\ home[u] \in Tenant
  /\ sent \subseteq {i \in Existing : i.tenant = home[u]}
  /\ life' = [i \in Invitation |-> IF i \in sent THEN "GONE" ELSE life[i]]
  /\ home' = [home EXCEPT ![u] = Deleted]
  /\ granted' = [granted EXCEPT ![u] = {}]
  /\ UNCHANGED given

Next ==
  \/ \E i \in Invitation : Offer(i)
  \/ \E batch \in SUBSET Invitation :
       \/ \E status \in Closing : Close(batch, status)
       \/ CleanUp(batch)
       \/ \E u \in User : Leave(u, batch)
  \/ \E u \in User, i \in Invitation : Admit(u, i) \/ Join(u, i)

Spec == Init /\ [][Next]_lifecycleVars

=============================================================================
