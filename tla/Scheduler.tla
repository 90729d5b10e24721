------------------------------ MODULE Scheduler ------------------------------
(***************************************************************************)
(* Routines: timed and triggered runs of an ordered list of agent actions  *)
(* (packages/daemon/src/routines/scheduler.ts), the rows they leave behind *)
(* (packages/core/src/store.ts) and the daemon that drains them on its way *)
(* out (packages/daemon/src/daemon.ts).                                    *)
(*                                                                         *)
(* A run is a coroutine.  Between two of its awaits it may answer for the  *)
(* end of one action, walk to the next one that has anything to do and ask *)
(* for its agent: that is one action of this module.  The supervisor is    *)
(* seen through what its promises settle to.                               *)
(***************************************************************************)
EXTENDS Naturals, FiniteSets

CONSTANTS
  Routines,     \* routine ids
  Runs,         \* run ids, each allocated once
  ActionCount,  \* actions of a routine
  Definitions   \* what devices write in a routine: on or off, singleton, trigger

(* "clock" is a cron expression or an interval, "broken" one that does not *)
(* parse.  A manual trigger is a "hook" nobody calls.                      *)
ASSUME DefinitionsAssumption ==
  Definitions \subseteq
    [on : BOOLEAN, singleton : BOOLEAN, trigger : {"clock", "broken", "hook"}]
ASSUME CountAssumption == ActionCount \in Nat

VARIABLES
  def,          \* routines: the definitions in the store
  due,          \* #dueAt: no entry, one ahead of now(), one that has passed
  run,          \* the Run object of a run in #inflight
  row,          \* runs: what the store holds of a run
  phase,        \* the await a run sleeps in
  at,           \* index of the action it sleeps in
  live,         \* agents of runs whose row is not terminal, by run and action
  interrupted,  \* Inflight.interrupted
  settled,      \* Inflight.settled
  drain         \* how far drain() has come; #draining is every value but "no"

vars == <<def, due, run, row, phase, at, live, interrupted, settled, drain>>

Actions   == 1..ActionCount
Open      == {"queued", "running"}
Closed    == {"succeeded", "failed", "timed_out", "skipped"}
RunStates == Open \cup Closed
Records   == [routine : Routines, state : RunStates, acts : [Actions -> RunStates]]
NoRun     == [state |-> "none"]
NoRoutine == [trigger |-> "none"]
Awaits    == {"create", "turn", "cancel", "stop", "unwind"}
Prompted  == Awaits \ {"create"}

TypeOK ==
  /\ def \in [Routines -> Definitions \cup {NoRoutine}]
  /\ due \in [Routines -> {"no", "armed", "due"}]
  /\ run \in [Runs -> Records \cup {NoRun}]
  /\ row \in [Runs -> Records \cup {NoRun}]
  /\ phase \in [Runs -> Awaits \cup {"none", "over"}]
  /\ at \in [Runs -> 0..ActionCount]
  /\ live \subseteq Runs \X Actions
  /\ interrupted \subseteq Runs
  /\ settled \subseteq Runs
  /\ drain \in {"no", "cancel", "wait", "done"}

Init ==
  /\ def \in [Routines -> Definitions]
  /\ due = [t \in Routines |-> "no"]
  /\ run = [r \in Runs |-> NoRun]
  /\ row = [r \in Runs |-> NoRun]
  /\ phase = [r \in Runs |-> "none"]
  /\ at = [r \in Runs |-> 0]
  /\ live = {}
  /\ interrupted = {}
  /\ settled = {}
  /\ drain = "no"

-----------------------------------------------------------------------------
(***************************************************************************)
(* Records.  An action that is "refused" is "failed" here: nothing tells   *)
(* them apart but the words.                                               *)
(***************************************************************************)

InFlight == {r \in Runs : phase[r] \in Awaits}

(* Defect: a run counts from its first agent on.                           *)
HasRunningRun(t) == \E r \in Runs : row[r].state = "running" /\ row[r].routine = t

(* hasActiveRun of the store.                                              *)
HasActiveRun(t) == \E r \in Runs : row[r].state \in Open /\ row[r].routine = t

(* Every action that has not finished is failed as interrupted.            *)
CutShort(acts) == [i \in Actions |-> IF acts[i] \in Open THEN "failed" ELSE acts[i]]

(* What #executeRun makes of its actions when nobody interrupted it.       *)
Outcome(acts) ==
  LET All(S) == \A i \in Actions : acts[i] \in S
  IN  IF ActionCount = 0 THEN "failed"
      ELSE IF All({"succeeded", "skipped"}) THEN "succeeded"
      ELSE IF All({"timed_out"}) THEN "timed_out"
      ELSE "failed"

(* What drain makes of them when it settles the run itself.                *)
ForcedOutcome(acts) ==
  IF \A i \in Actions : acts[i] = "succeeded" THEN "succeeded" ELSE "failed"

(* Defect: a run still waiting for its first agent is passed over.         *)
ForcedRunning(rec) ==
  IF rec.state # "running" THEN rec
  ELSE [rec EXCEPT !.state = ForcedOutcome(CutShort(rec.acts)),
                   !.acts = CutShort(rec.acts)]

(* drain settles a record that has no final state.                         *)
Forced(rec) ==
  IF rec.state \notin Open THEN rec
  ELSE [rec EXCEPT !.state = ForcedOutcome(CutShort(rec.acts)),
                   !.acts = CutShort(rec.acts)]

(* Defect: the next daemon settles only rows that say running.             *)
ReconciledRunning(rec) ==
  IF rec.state = "running" THEN [rec EXCEPT !.state = "failed", !.acts = CutShort(@)] ELSE rec

(* failInterruptedRuns: what a dead daemon left open.                      *)
Reconciled(rec) ==
  IF rec.state \in Open THEN [rec EXCEPT !.state = "failed", !.acts = CutShort(@)] ELSE rec

(* Defect: the row is written whatever drain has settled.                  *)
AlwaysRecorded(recs) == [r \in Runs |-> IF r \in DOMAIN recs THEN recs[r] ELSE row[r]]

(* #recordRun of several runs at once: a settled row is final.             *)
Recorded(recs) ==
  [r \in Runs |-> IF r \in DOMAIN recs /\ r \notin settled THEN recs[r] ELSE row[r]]

(* The loop head: actions i..to-1 were skipped already or refused for an   *)
(* empty prompt, and to has something to do or is behind the last.  Which  *)
(* prompts are empty is left open.                                         *)
Heads(acts, i) == {to \in i..ActionCount : acts[to] = "queued"} \cup {ActionCount + 1}
Passed(acts, i, to) ==
  [k \in Actions |-> IF k \in i..(to - 1) /\ acts[k] = "queued" THEN "failed" ELSE acts[k]]
Walked(rec, i, to) ==
  LET acts == Passed(rec.acts, i, to)
  IN  [rec EXCEPT !.acts = acts, !.state = IF to \in Actions THEN @ ELSE Outcome(acts)]

(* The run leaves #inflight.                                               *)
Leave(r, rec) ==
  /\ row' = Recorded([q \in {r} |-> rec])
  /\ run' = [run EXCEPT ![r] = NoRun]
  /\ phase' = [phase EXCEPT ![r] = "over"]
  /\ at' = [at EXCEPT ![r] = 0]
  /\ interrupted' = interrupted \ {r}
  /\ settled' = settled \ {r}

(* The run keeps rec, sleeps in await p, and its row is brought up to date *)
(* or not.                                                                 *)
Sleep(r, rec, p) ==
  /\ run' = [run EXCEPT ![r] = rec]
  /\ phase' = [phase EXCEPT ![r] = p]
  /\ UNCHANGED <<interrupted, settled>>

(* Drain has begun: the run does no more work.                             *)
Cut(r) == r \in interrupted \/ drain # "no"

(* From the loop head at action i to the next await, or out.               *)
Proceed(r, rec, i) ==
  \/ /\ Cut(r)
     /\ Leave(r, [rec EXCEPT !.state = "failed", !.acts = CutShort(@)])
  \/ /\ ~Cut(r)
     /\ \E to \in Heads(rec.acts, i) :
          IF to \in Actions
          THEN /\ Sleep(r, Walked(rec, i, to), "create")
               /\ row' = Recorded([q \in {r} |-> Walked(rec, i, to)])
               /\ at' = [at EXCEPT ![r] = to]
          ELSE Leave(r, Walked(rec, i, to))

(* The record with outcome o for the action the run sleeps in.             *)
With(r, o) == [run[r] EXCEPT !.acts[at[r]] = o]

-----------------------------------------------------------------------------
(***************************************************************************)
(* Firing.                                                                 *)
(***************************************************************************)

(* The actions #execute starts from: those before fromAction are skipped.  *)
NewActs(from) == [i \in Actions |-> IF i < from THEN "skipped" ELSE "queued"]

(* The record a run of t is after the first piece of #executeRun: skipped  *)
(* beside an active run of a singleton, or walked to action to.            *)
Skips(t) == def[t].singleton /\ HasActiveRun(t)
Begun(t, from, to) ==
  IF Skips(t)
  THEN [routine |-> t, state |-> "skipped", acts |-> [i \in Actions |-> "skipped"]]
  ELSE Walked([routine |-> t, state |-> "queued", acts |-> NewActs(from)], 1, to)

(* The runs DOMAIN owner fire in one piece, each for its owner.  One with  *)
(* nothing to await is over at once.                                       *)
Fire(owner, from) ==
  /\ drain = "no"
  /\ \E to \in [DOMAIN owner -> Heads(NewActs(from), 1)] :
       LET recs   == [r \in DOMAIN owner |-> Begun(owner[r], from, to[r])]
           asleep == {r \in DOMAIN owner : recs[r].state \in Open}
       IN  /\ row' = Recorded(recs)
           /\ run' = [r \in Runs |-> IF r \in asleep THEN recs[r] ELSE run[r]]
           /\ phase' = [r \in Runs |-> IF r \in asleep THEN "create"
                                       ELSE IF r \in DOMAIN owner THEN "over" ELSE phase[r]]
           /\ at' = [r \in Runs |-> IF r \in asleep THEN to[r] ELSE at[r]]
  /\ UNCHANGED <<def, live, interrupted, settled, drain>>

(* Run ids nobody has used; RunsBound of the model.                        *)
Fresh == {r \in Runs : phase[r] = "none"}

(* Routines somebody may fire.                                             *)
On(t) == def[t] # NoRoutine /\ def[t].on

(* One pass over all routines: what is off is disarmed, what is on and not *)
(* armed is armed, and everything due is armed again and fired, all before *)
(* the first await.  An entry outlives the trigger that made it, and a     *)
(* trigger that does not parse leaves its entry alone.                     *)
Tick ==
  LET Due == {t \in Routines : On(t) /\ due[t] = "due" /\ def[t].trigger # "broken"}
  IN  /\ \E S \in SUBSET Fresh : \E owner \in [S -> Due] :
           /\ \A r, q \in S : owner[r] = owner[q] => r = q
           /\ \A t \in Due : \E r \in S : owner[r] = t
           /\ Fire(owner, 1)
      /\ due' = [t \in Routines |->
                   IF ~On(t) THEN "no"
                   ELSE IF due[t] = "armed" \/ def[t].trigger = "broken" THEN due[t]
                   ELSE IF def[t].trigger = "clock" THEN "armed" ELSE "no"]

(* An operator runs the routine, from its first action or a later one.     *)
RunNow(t, r, from) ==
  /\ On(t)
  /\ r \in Fresh
  /\ Fire([q \in {r} |-> t], from)
  /\ UNCHANGED due

(* A webhook whose secret matched.                                         *)
FireWebhook(t, r) ==
  /\ On(t)
  /\ def[t].trigger = "hook"
  /\ r \in Fresh
  /\ Fire([q \in {r} |-> t], 1)
  /\ UNCHANGED due

(* Time passes the next occurrence of an armed routine.                    *)
Clock(t) ==
  /\ due[t] = "armed"
  /\ due' = [due EXCEPT ![t] = "due"]
  /\ UNCHANGED <<def, run, row, phase, at, live, interrupted, settled, drain>>

-----------------------------------------------------------------------------
(***************************************************************************)
(* One action of a run.                                                    *)
(***************************************************************************)

(* createAgent answered.  The run is recorded running; an interrupted one  *)
(* retires its agent instead of prompting it.                              *)
Created(r) ==
  /\ phase[r] = "create"
  /\ LET rec == [With(r, "running") EXCEPT !.state = "running"]
     IN  /\ row' = Recorded([q \in {r} |-> rec])
         /\ IF Cut(r)
            THEN Sleep(r, [rec EXCEPT !.acts[at[r]] = "failed"], "stop")
            ELSE Sleep(r, rec, "turn")
  /\ live' = live \cup {<<r, at[r]>>}
  /\ UNCHANGED <<def, due, at, drain>>

(* createAgent rejected, for want of authority or anything else: there is  *)
(* no agent to retire.                                                     *)
NotCreated(r) ==
  /\ phase[r] = "create"
  /\ Proceed(r, With(r, "failed"), at[r] + 1)
  /\ UNCHANGED <<def, due, live, drain>>

(* The turn ended.  An interrupted run takes no credit for it.             *)
TurnEnds(r) ==
  /\ phase[r] = "turn"
  /\ Sleep(r, With(r, IF r \in interrupted THEN "failed" ELSE "succeeded"), "stop")
  /\ UNCHANGED <<def, due, row, at, live, drain>>

(* prompt rejected.                                                        *)
TurnFails(r) ==
  /\ phase[r] = "turn"
  /\ Sleep(r, With(r, "failed"), "stop")
  /\ UNCHANGED <<def, due, row, at, live, drain>>

(* timeoutSeconds passed first: the turn is cancelled and left unwinding.  *)
(* Which actions have a deadline is left open.                             *)
Deadline(r) ==
  /\ phase[r] = "turn"
  /\ Sleep(r, run[r], "cancel")
  /\ UNCHANGED <<def, due, row, at, live, drain>>

(* The cancel was written, or failed, which is no matter.                  *)
Cancelled(r) ==
  /\ phase[r] = "cancel"
  /\ Sleep(r, With(r, "timed_out"), "stop")
  /\ UNCHANGED <<def, due, row, at, live, drain>>

(* Defect: the row of the agent is left to stopAgent, which may throw.     *)
TrustingRetire(r) ==
  /\ Proceed(r, run[r], at[r] + 1)
  /\ UNCHANGED <<def, due, live, drain>>

(* End of #retireAgent and of the finally block: the row of the agent is   *)
(* forced terminal, the run recorded, and on it goes.                      *)
Retire(r) ==
  /\ live' = live \ {<<r, at[r]>>}
  /\ Proceed(r, run[r], at[r] + 1)
  /\ UNCHANGED <<def, due, drain>>

(* stopAgent answered, with the agent stopped, or threw.  An abandoned     *)
(* turn gets some grace to unwind first.                                   *)
Stopped(r) ==
  /\ phase[r] = "stop"
  /\ \/ run[r].acts[at[r]] # "timed_out" /\ Retire(r)
     \/ /\ run[r].acts[at[r]] = "timed_out"
        /\ live' \in {live, live \ {<<r, at[r]>>}}
        /\ Sleep(r, run[r], "unwind")
        /\ UNCHANGED <<def, due, row, at, drain>>

(* The abandoned turn has unwound or the grace is over.                    *)
Unwound(r) ==
  /\ phase[r] = "unwind"
  /\ Retire(r)

-----------------------------------------------------------------------------
(***************************************************************************)
(* Definitions, the end of the daemon and the next one.                    *)
(***************************************************************************)

(* A device writes the definition: a new one, an edit, or the write of a   *)
(* request that read the definition before somebody deleted it.            *)
WriteRoutine(t) ==
  /\ \E d \in Definitions : def' = [def EXCEPT ![t] = d]
  /\ UNCHANGED <<due, run, row, phase, at, live, interrupted, settled, drain>>

(* Defect: a routine that is off is taken to be at rest.                   *)
SwitchedOff(t) == def[t] # NoRoutine /\ ~def[t].on

(* Nothing of the routine is in flight and no row says so.                 *)
Deletable(t) ==
  /\ def[t] # NoRoutine
  /\ ~\E r \in InFlight : run[r].routine = t /\ run[r].state \in Open
  /\ ~HasActiveRun(t)

(* deleteRoutines of one id: refused beside an active run; takes the rows  *)
(* of its runs along.                                                      *)
Delete(t) ==
  /\ Deletable(t)
  /\ def' = [def EXCEPT ![t] = NoRoutine]
  /\ due' = [due EXCEPT ![t] = "no"]
  /\ row' = [r \in Runs |-> IF row[r] # NoRun /\ row[r].routine = t THEN NoRun ELSE row[r]]
  /\ UNCHANGED <<run, phase, at, live, interrupted, settled, drain>>

(* The daemon stops: the timer, then drain up to the cancellations.        *)
DrainBegins ==
  /\ drain = "no"
  /\ drain' = "cancel"
  /\ interrupted' = InFlight
  /\ UNCHANGED <<def, due, run, row, phase, at, live, settled>>

(* Every cancellation was written or failed.                               *)
DrainWaits ==
  /\ drain = "cancel"
  /\ drain' = IF InFlight = {} THEN "done" ELSE "wait"
  /\ UNCHANGED <<def, due, run, row, phase, at, live, interrupted, settled>>

(* Every run finished or the bound is over: what is left is settled here.  *)
DrainSettles ==
  /\ drain = "wait"
  /\ drain' = "done"
  /\ run' = [r \in Runs |-> IF r \in InFlight THEN Forced(run[r]) ELSE run[r]]
  /\ row' = [r \in Runs |-> IF r \in InFlight THEN Forced(run[r]) ELSE row[r]]
  /\ settled' = settled \cup InFlight
  /\ UNCHANGED <<def, due, phase, at, live, interrupted>>

(* The process ends wherever it is, and the next daemon starts: no agent   *)
(* is live, and failInterruptedRuns settles what the last one left.        *)
NextDaemon ==
  /\ due' = [t \in Routines |-> "no"]
  /\ run' = [r \in Runs |-> NoRun]
  /\ row' = [r \in Runs |-> Reconciled(row[r])]
  /\ phase' = [r \in Runs |-> IF phase[r] = "none" THEN "none" ELSE "over"]
  /\ at' = [r \in Runs |-> 0]
  /\ live' = {}
  /\ interrupted' = {}
  /\ settled' = {}
  /\ drain' = "no"
  /\ UNCHANGED def

-----------------------------------------------------------------------------
Answer(r) ==
  \/ Created(r) \/ NotCreated(r)
  \/ TurnEnds(r) \/ TurnFails(r)
  \/ Cancelled(r)
  \/ Stopped(r)
  \/ Unwound(r)

Next ==
  \/ Tick
  \/ \E t \in Routines :
       \/ Clock(t)
       \/ Delete(t)
       \/ WriteRoutine(t)
       \/ \E r \in Runs : FireWebhook(t, r) \/ \E from \in Actions : RunNow(t, r, from)
  \/ \E r \in Runs : Answer(r) \/ Deadline(r)
  \/ DrainBegins \/ DrainWaits \/ DrainSettles
  \/ NextDaemon

Spec == Init /\ [][Next]_vars

(* The cancellations of drain are notifications and its wait has a timer.  *)
(* Nothing is assumed of the runs.                                         *)
FairSpec == Spec /\ WF_vars(DrainWaits) /\ WF_vars(DrainSettles)

(* Requests to an agent have a deadline in the ACP client, a turn the      *)
(* longest one, so every await of a run ends.                              *)
AwaitsEnd == \A r \in Runs : WF_vars(Answer(r))

-----------------------------------------------------------------------------
(***************************************************************************)
(* Properties.                                                             *)
(***************************************************************************)

(* No run of a singleton routine begins beside another run of the routine, *)
(* whoever fires it: a tick, an operator or a webhook, and whatever edits, *)
(* late answers and restarts came before.                                  *)
SingletonRunsAlone ==
  [][\A r \in InFlight' \ InFlight : \A q \in InFlight' \ {r} :
       run'[r].routine = run'[q].routine => ~def[run'[r].routine].singleton]_vars

(* "A run never leaks a record": a row says queued or running only while   *)
(* the run is in flight and will write its end itself, so after drain, and *)
(* in the next daemon, none does.                                          *)
RowsAreInFlight ==
  /\ \A r \in Runs : row[r].state \in Open => r \in InFlight \ settled
  /\ drain = "done" => \A r \in Runs : row[r].state \notin Open

(* "A run never leaks an agent": a live agent belongs to the action its    *)
(* run is awaiting, which will retire it, even if drain gave the run up.   *)
AgentsAreRetired ==
  \A p \in live : phase[p[1]] \in Prompted /\ at[p[1]] = p[2]

(* A routine that was deleted has no row left and none comes back, so its  *)
(* id, written again, is not silenced by the runs of the one before.       *)
NoOrphanRow ==
  \A t \in Routines : def[t] = NoRoutine =>
    \A r \in Runs :
      /\ row[r] # NoRun => row[r].routine # t
      /\ r \in InFlight \ settled => run[r].routine # t

(* A final record is final: no late answer, drain or restart rewrites it;  *)
(* deleting its routine removes it.                                        *)
RecordsAreFinal ==
  [][\A r \in Runs : row[r].state \in Closed => row'[r] \in {row[r], NoRun}]_vars

(* Once drain has begun no agent is asked for and none is prompted, also   *)
(* not one whose create answers late.                                      *)
DrainStopsWork ==
  [][\A r \in Runs : drain # "no" /\ <<phase'[r], at'[r]>> # <<phase[r], at[r]>>
       => phase'[r] \notin {"create", "turn"}]_vars

(* drain returns, whatever the runs do: its waits have timers.             *)
DrainReturns == drain \in {"cancel", "wait"} ~> drain \in {"done", "no"}

(* While awaits end no run stays open, so a singleton is never silenced    *)
(* for good; and an await that never ends does not keep the daemon from    *)
(* stopping.                                                               *)
RunsSettle ==
  /\ AwaitsEnd => \A r \in Runs : row[r].state \in Open ~> row[r].state \notin Open
  /\ DrainReturns

(* "keeps the outcome it reached": a run drain settles after its actions   *)
(* all have an outcome gets the state the run itself would have recorded.  *)
ForcedAsReached ==
  \A r \in settled :
    row[r] # NoRun /\ (\A i \in Actions : row[r].acts[i] \in {"succeeded", "skipped", "timed_out"})
      => row[r].state = Outcome(row[r].acts)
=============================================================================
