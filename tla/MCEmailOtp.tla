------------------------------ MODULE MCEmailOtp ------------------------------
(* Instances of EmailOtp for TLC.                                          *)
EXTENDS EmailOtp, TLC

RequestSymmetry == Permutations(Request)
CodeRequestSymmetry == Permutations(Request) \cup Permutations(Code)
=============================================================================
