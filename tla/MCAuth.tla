------------------------------- MODULE MCAuth -------------------------------
(* Instances of Auth for TLC.                                              *)
EXTENDS Auth, TLC

Symmetry == Permutations(Request) \cup Permutations(IP) \cup Permutations(Password)
=============================================================================
