--------------------------- MODULE MCApprovalGate ---------------------------
(* Model-checking instance of ApprovalGate: safety, over every order in    *)
(* which three overlapping questions on two request ids are asked,         *)
(* answered, timed out and repeated.                                       *)
EXTENDS ApprovalGate, TLC

Symmetry == Permutations(Gates) \cup Permutations(Requests)
=============================================================================
