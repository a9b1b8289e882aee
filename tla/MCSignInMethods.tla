--------------------------- MODULE MCSignInMethods ---------------------------
(* Instances of SignInMethods for TLC. *)
EXTENDS SignInMethods, TLC

CONSTANTS Address, Tenant, AccountsPerAddress

MCUser == [email : Address, tenant : Tenant]
MCAccount == [email : Address, nr : 1 .. AccountsPerAddress]

Symmetry == Permutations(Request) \cup Permutations(State)

=============================================================================
