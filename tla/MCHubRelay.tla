----------------------------- MODULE MCHubRelay -----------------------------
(* Instances of HubRelay for TLC.                                          *)
EXTENDS HubRelay, TLC

CONSTANTS h1, h2

MCHomeOf == [s \in Sessions |-> h1]
=============================================================================
