---------------------------- MODULE MCScheduler ----------------------------
(* Model-checking instance of Scheduler. *)
EXTENDS Scheduler

(* A timed singleton, the same switched off, the same with a trigger that  *)
(* does not parse, and a routine a webhook may fire any number of times.   *)
Written ==
  {[on |-> b, singleton |-> TRUE, trigger |-> "clock"] : b \in BOOLEAN} \cup
  {[on |-> TRUE, singleton |-> TRUE, trigger |-> "broken"],
   [on |-> TRUE, singleton |-> FALSE, trigger |-> "hook"]}
=============================================================================
