---------------------- MODULE MCInvitationManagement ----------------------
(* An instance of InvitationManagement for TLC: one address that may be    *)
(* invited twice.                                                          *)
EXTENDS InvitationManagement, TLC

CONSTANTS e1, t1

MCInvitation == [tenant : {t1}, email : {e1}, nr : 1 .. 2]
MCUser == [email : {e1}, nr : {1}]

Nth(n) == [tenant |-> t1, email |-> e1, nr |-> n]

(* Equal entries, and a malformed one before a good one.                   *)
MCEmailList == {<<e1, e1>>, <<Malformed, e1>>}

(* One invitation twice, two invitations.                                  *)
MCIdList == {<<Nth(1), Nth(1)>>, <<Nth(1), Nth(2)>>}
=============================================================================
