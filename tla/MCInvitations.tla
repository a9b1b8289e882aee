---------------------------- MODULE MCInvitations ----------------------------
(* Instances of Invitations for TLC.  Every invited address may get one    *)
(* invitation of each tenant, those in Reinvited several in turn; an       *)
(* invited address that registers may do so several times in turn (after   *)
(* a deletion), and every other address belongs to one user.               *)
EXTENDS Invitations, TLC

CONSTANTS
  Invited, Reinvited, InvitationsPerAddress,
  Registering, UsersPerEmail

MCInvitation ==
  {i \in [tenant : Tenant, email : Invited, nr : 1 .. InvitationsPerAddress] :
     i.email \in Reinvited \/ i.nr = 1}

MCUser ==
  {u \in [email : Registering, nr : 1 .. UsersPerEmail] :
     u.email \in Invited \/ u.nr = 1}

(* Requests are interchangeable; rows are not, their numbers order them.   *)
RequestSymmetry == Permutations(Request)
=============================================================================
