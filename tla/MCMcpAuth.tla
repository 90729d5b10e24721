------------------------------ MODULE MCMcpAuth ------------------------------
(* Instances of McpAuth for TLC.                                           *)
EXTENDS McpAuth, TLC

CONSTANTS g1, g2

(* One grant whose row is replaced in every way, one that ages beside it.  *)
MCLogins  == (g1 :> 1 @@ g2 :> 1)
MCImports == (g1 :> 1 @@ g2 :> 0)

(* One grant, imported twice and never logged in to.                       *)
MCNoLogins == (g1 :> 0 @@ g2 :> 0)
MCRetries  == (g1 :> 2 @@ g2 :> 0)
=============================================================================
