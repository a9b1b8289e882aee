-------------------------- MODULE MCRefreshSessions --------------------------
(* Symmetry for model-checking RefreshSessions. *)
EXTENDS RefreshSessions, TLC

Symmetry ==
  Permutations(User) \cup Permutations(Client) \cup Permutations(Request)

=============================================================================
