---------------------------- MODULE MCModelAccess ----------------------------
(* An instance of ModelAccess for TLC.                                       *)
EXTENDS ModelAccess, TLC

=============================================================================
