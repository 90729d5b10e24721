---------------------------- MODULE IntentLedger ----------------------------
(***************************************************************************)
(* What the queue of a replica promises (docs/execution-modes.md): a write *)
(* is recorded once, taken once, performed once by the one that took it,   *)
(* and confirmed only after it was performed.  A write that is taken may   *)
(* be lost; nobody else performs it then.                                  *)
(***************************************************************************)
EXTENDS Naturals

CONSTANTS Intents, Daemons

VARIABLES
  fate,     \* how far a write has come
  runs      \* how often a daemon performed it

ledgerVars == <<fate, runs>>

LedgerInit ==
  /\ fate = [i \in Intents |-> "absent"]
  /\ runs = [p \in Daemons \X Intents |-> 0]

Moves(i, from, to) == fate[i] = from /\ fate' = [fate EXCEPT ![i] = to]

Record(i)  == Moves(i, "absent", "recorded") /\ UNCHANGED runs
Take(i)    == Moves(i, "recorded", "taken") /\ UNCHANGED runs
Confirm(i) == Moves(i, "performed", "confirmed") /\ UNCHANGED runs

Perform(i) ==
  /\ Moves(i, "taken", "performed")
  /\ \E d \in Daemons : runs' = [runs EXCEPT ![<<d, i>>] = @ + 1]

LedgerNext == \E i \in Intents : Record(i) \/ Take(i) \/ Perform(i) \/ Confirm(i)

LedgerSpec == LedgerInit /\ [][LedgerNext]_ledgerVars
=============================================================================
