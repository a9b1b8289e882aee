------------------------------ MODULE MCInbox ------------------------------
(* An instance of Inbox for TLC: two users, two creations, a broadcast and *)
(* two sockets.                                                            *)
EXTENDS Inbox, TLC

CONSTANTS Email, b1, u1, u2, c1, c2, s1, s2

Symmetry == Permutations(User) \cup Permutations(Creation) \cup Permutations(Socket)

=============================================================================
