---------------------------- MODULE ApprovalGate ----------------------------
(***************************************************************************)
(* The approval gate of the supervisor (packages/daemon/src/supervisor.ts) *)
(* and the rows it leaves in the store (packages/core/src/store.ts).       *)
(*                                                                         *)
(* A host asks before it runs a tool.  Each question is one continuation   *)
(* of #gate: the policy answers it at once, or the agent's row is moved to *)
(* "waiting" and the continuation sleeps until an operator decides or its  *)
(* own timer fires.  Questions of one agent overlap, and a host may repeat *)
(* a request id, because a tool-call id is the host's and not ours.        *)
(*                                                                         *)
(* The agent rows belong to the whole supervisor.  This module says what   *)
(* the gate does to them; RowWrite stands for everybody else, and module   *)
(* Supervisor shows that the lifecycle does no more than that.             *)
(***************************************************************************)
EXTENDS FiniteSets

CONSTANTS
  Agents,       \* agent ids
  Requests,     \* approval request ids
  Gates,        \* one per call of #gate
  Plans,        \* one per plan review
  Devices,      \* paired devices
  NoGate        \* no continuation

ASSUME NoGateAssumption == NoGate \notin Gates

VARIABLES
  state,        \* agents.state; "none" is an agent without a row
  approvals,    \* the approvals table
  pending,      \* #pending: request id -> the continuation a decision resolves
  gate,         \* the continuations of #gate
  plan,         \* plan reviews, #pendingPlanReviews and their outcomes
  approvers     \* devices with a live row that holds the approve scope

gateOwn  == <<approvals, pending, gate, plan, approvers>>
gateVars == <<state, gateOwn>>

Terminal  == {"stopped", "failed"}
RowStates == {"none", "starting", "idle", "busy", "waiting"} \cup Terminal
Verdicts  == {"allow", "prompt", "deny"}
Choices   == {"allow", "deny"}

(* Who a decision is recorded against: a rule, the clock or a device.      *)
Authors   == {"policy", "timeout"} \cup Devices

Row    == [decision : {"absent", "pending"}, by : {"nobody"}]
            \cup [decision : Choices, by : Authors]
Unused == [phase |-> "unused"]
Asking == [phase : {"asking"}, agent : Agents, request : Requests, before : RowStates]
Done   == [phase : {"done"}, agent : Agents, request : Requests,
           option : Choices, by : Authors]
Lost   == [phase |-> "lost"]

GateTypeOK ==
  /\ state \in [Agents -> RowStates]
  /\ approvals \in [Requests -> Row]
  /\ pending \in [Requests -> Gates \cup {NoGate}]
  /\ gate \in [Gates -> {Unused, Lost} \cup Asking \cup Done]
  /\ plan \in [Plans -> {"unused", "asking", "accepted", "declined", "lost"}]
  /\ approvers \subseteq Devices

GateInit ==
  /\ state = [a \in Agents |-> "none"]
  /\ approvals = [r \in Requests |-> [decision |-> "absent", by |-> "nobody"]]
  /\ pending = [r \in Requests |-> NoGate]
  /\ gate = [g \in Gates |-> Unused]
  /\ plan = [p \in Plans |-> "unused"]
  /\ approvers \in SUBSET Devices

-----------------------------------------------------------------------------
(***************************************************************************)
(* The pure parts: the verdict over every target of a call, and the two    *)
(* statements the gate runs against the approvals table.                   *)
(***************************************************************************)

(* The most restrictive verdict over the probes.  Nothing to decide about, *)
(* and a prompt too long to be read in full, are both a denial.            *)
Verdict(V) ==
  IF V = {} \/ "deny" \in V THEN "deny"
  ELSE IF "prompt" \in V THEN "prompt" ELSE "allow"

(* INSERT ... ON CONFLICT DO NOTHING: a repeated id keeps the row it has.  *)
OpenRow(row) ==
  IF row.decision = "absent" THEN [decision |-> "pending", by |-> "nobody"] ELSE row

(* UPDATE ... WHERE decided_at IS NULL: the first decision is final.       *)
DecideRow(row, choice, by) ==
  IF row.decision = "pending" THEN [decision |-> choice, by |-> by] ELSE row

-----------------------------------------------------------------------------
(***************************************************************************)
(* One call of #gate, from #onPermission, #gateElicitedToolCall or         *)
(* gateAction.  V is the set of verdicts policy.evaluate gave the probes.  *)
(* A question for an unmapped session, or one nobody can read, is declined *)
(* before any of this and leaves no trace.                                 *)
(***************************************************************************)

(* Policy decides alone: the row is opened and closed in one step.         *)
AskPolicy(g, a, r, V) ==
  /\ gate[g] = Unused
  /\ state[a] # "none"
  /\ Verdict(V) # "prompt"
  /\ approvals' = [approvals EXCEPT ![r] = DecideRow(OpenRow(@), Verdict(V), "policy")]
  /\ gate' = [gate EXCEPT ![g] = [phase |-> "done", agent |-> a, request |-> r,
                                  option |-> Verdict(V), by |-> "policy"]]
  /\ UNCHANGED <<state, pending, plan, approvers>>

(* A human is asked.  The state this question interrupts is remembered in  *)
(* the continuation; the pending entry of a repeated id is overwritten.    *)
AskOperator(g, a, r, V) ==
  /\ gate[g] = Unused
  /\ state[a] # "none"
  /\ Verdict(V) = "prompt"
  /\ approvals' = [approvals EXCEPT ![r] = OpenRow(@)]
  /\ gate' = [gate EXCEPT ![g] = [phase |-> "asking", agent |-> a, request |-> r,
                                  before |-> state[a]]]
  /\ state' = [state EXCEPT ![a] = "waiting"]
  /\ pending' = [pending EXCEPT ![r] = g]
  /\ UNCHANGED <<plan, approvers>>

(* Defect: the remembered state is written back whatever the row says now. *)
RestoreAlways(s, before) == before

(* A stop or a host that died has written a terminal state meanwhile: only *)
(* a row that still says "waiting" is put back.                            *)
Restored(s, before) == IF s = "waiting" THEN before ELSE s

(* Defect: the record of the answer is left to the caller.                 *)
AnswerOnly(g, choice, by) ==
  /\ gate[g].phase = "asking"
  /\ state' = [state EXCEPT ![gate[g].agent] = Restored(@, gate[g].before)]
  /\ UNCHANGED approvals
  /\ gate' = [gate EXCEPT ![g] = [phase |-> "done", agent |-> gate[g].agent,
                                  request |-> gate[g].request,
                                  option |-> choice, by |-> by]]

(* What the continuation of g does once its promise resolves, in the       *)
(* microtask after the decision or the timer.                              *)
Answer(g, choice, by) ==
  /\ gate[g].phase = "asking"
  /\ state' = [state EXCEPT ![gate[g].agent] = Restored(@, gate[g].before)]
  /\ approvals' = [approvals EXCEPT ![gate[g].request] = DecideRow(@, choice, by)]
  /\ gate' = [gate EXCEPT ![g] = [phase |-> "done", agent |-> gate[g].agent,
                                  request |-> gate[g].request,
                                  option |-> choice, by |-> by]]

(* Defect: the scopes the frame claims are believed.                       *)
ClaimedApprover(d) == d \in Devices

(* #authorize: the device row decides, never the scopes a frame claims.    *)
Approver(d) == d \in approvers

(* decide: an operator answers the pending entry of a request.             *)
Decide(d, r, choice) ==
  /\ Approver(d)
  /\ pending[r] # NoGate
  /\ pending' = [pending EXCEPT ![r] = NoGate]
  /\ Answer(pending[r], choice, d)
  /\ UNCHANGED <<plan, approvers>>

(* Defect: the timer belongs to the pending entry, so a continuation whose *)
(* entry was overwritten has none.                                         *)
SharedTimeout(g) ==
  /\ gate[g].phase = "asking"
  /\ pending[gate[g].request] = g
  /\ pending' = [pending EXCEPT ![gate[g].request] = NoGate]
  /\ Answer(g, "deny", "timeout")
  /\ UNCHANGED <<plan, approvers>>

(* The timer of g fires.  It removes whatever entry its request id has     *)
(* now, which after a repeat is another continuation's.                    *)
Timeout(g) ==
  /\ gate[g].phase = "asking"
  /\ pending' = [pending EXCEPT ![gate[g].request] = NoGate]
  /\ Answer(g, "deny", "timeout")
  /\ UNCHANGED <<plan, approvers>>

-----------------------------------------------------------------------------
(* #requestPlanReview: a plan waits for an operator and leaves no row.     *)
AskPlan(p) ==
  /\ plan[p] = "unused"
  /\ plan' = [plan EXCEPT ![p] = "asking"]
  /\ UNCHANGED <<state, approvals, pending, gate, approvers>>

(* decidePlan: either offered choice is an accepted elicitation.           *)
DecidePlan(d, p) ==
  /\ Approver(d)
  /\ plan[p] = "asking"
  /\ plan' = [plan EXCEPT ![p] = "accepted"]
  /\ UNCHANGED <<state, approvals, pending, gate, approvers>>

(* Nobody answered: the review is declined, never accepted.                *)
PlanTimeout(p) ==
  /\ plan[p] = "asking"
  /\ plan' = [plan EXCEPT ![p] = "declined"]
  /\ UNCHANGED <<state, approvals, pending, gate, approvers>>

(* revokeDevice: the row of the device loses every scope at once.          *)
Revoke(d) ==
  /\ d \in approvers
  /\ approvers' = approvers \ {d}
  /\ UNCHANGED <<state, approvals, pending, gate, plan>>

(* The daemon process ends: the tables in memory and the continuations go, *)
(* the rows stay as they are.                                              *)
Lose ==
  /\ pending' = [r \in Requests |-> NoGate]
  /\ gate' = [g \in Gates |-> IF gate[g].phase = "asking" THEN Lost ELSE gate[g]]
  /\ plan' = [p \in Plans |-> IF plan[p] = "asking" THEN "lost" ELSE plan[p]]
  /\ UNCHANGED <<approvals, approvers>>

(* A restart of the daemon settles every row that is not terminal.         *)
Restart ==
  /\ Lose
  /\ state' = [a \in Agents |-> IF state[a] \in Terminal \cup {"none"}
                                  THEN state[a] ELSE "stopped"]

(* What the rest of the supervisor does to the rows: any write, several    *)
(* rows at once, but never the state "waiting", which is the gate's own.   *)
RowWrite ==
  /\ state' \in [Agents -> RowStates]
  /\ \A a \in Agents : state'[a] = state[a] \/ state'[a] \notin {"none", "waiting"}
  /\ UNCHANGED gateOwn

Ask ==
  \E g \in Gates, a \in Agents, r \in Requests, V \in SUBSET Verdicts :
     AskPolicy(g, a, r, V) \/ AskOperator(g, a, r, V)

Operate ==
  \E d \in Devices :
     \/ \E r \in Requests, c \in Choices : Decide(d, r, c)
     \/ \E p \in Plans : DecidePlan(d, p)
     \/ Revoke(d)

GateNext ==
  \/ Ask
  \/ Operate
  \/ \E g \in Gates : Timeout(g)
  \/ \E p \in Plans : AskPlan(p) \/ PlanTimeout(p)
  \/ Restart
  \/ RowWrite

GateSpec == GateInit /\ [][GateNext]_gateVars

(* Every question carries a timer, and a timer fires.  Nothing else is     *)
(* assumed: an operator may never answer.                                  *)
Timers == /\ \A g \in Gates : WF_gateVars(Timeout(g))
          /\ \A p \in Plans : WF_gateVars(PlanTimeout(p))

FairGateSpec == GateSpec /\ Timers

-----------------------------------------------------------------------------
(***************************************************************************)
(* What the gate promises.                                                 *)
(***************************************************************************)

(* A row says "waiting" only while a question of that agent is unanswered: *)
(* overlapping questions, a stop, a dead host or a restart never leave an  *)
(* agent waiting for nobody (#gate, stateBeforeApproval).                  *)
WaitingIsAsked ==
  \A a \in Agents : state[a] = "waiting" =>
     \E g \in Gates : gate[g].phase = "asking" /\ gate[g].agent = a

(* A decision that finds an entry finds a continuation still asleep on     *)
(* that request: an answer that comes after the timer is refused, it is    *)
(* never accepted and dropped (decide, the timer in #gate).                *)
PendingIsAsking ==
  \A r \in Requests : pending[r] # NoGate =>
     gate[pending[r]].phase = "asking" /\ gate[pending[r]].request = r

(* The table records an answer some host was really given, and its author, *)
(* for every request that was answered.  A request id that is asked once   *)
(* thus has its own answer on record; when a host repeats an id, one of    *)
(* the answers stands for all of them (#settle, resolveApproval).          *)
AnswerIsRecorded ==
  \A g \in Gates : gate[g].phase = "done" =>
     \E h \in Gates :
        /\ gate[h].phase = "done" /\ gate[h].request = gate[g].request
        /\ approvals[gate[g].request] = [decision |-> gate[h].option, by |-> gate[h].by]

(* A recorded decision is never changed or reopened, whatever ids a host   *)
(* repeats and however many operators answer (openApproval,                *)
(* resolveApproval).                                                       *)
DecisionIsFinal ==
  [][\A r \in Requests : approvals[r].decision \in Choices =>
                            approvals'[r] = approvals[r]]_gateVars

(* A host that had to ask is told to go ahead only on the word of a device *)
(* whose row holds the approve scope at that moment, not when it was       *)
(* asked; silence and a restart are never consent (decide, #authorize).    *)
AllowIsAuthorised ==
  [][\A g \in Gates :
        (gate[g].phase = "asking" /\ gate'[g].phase = "done" /\ gate'[g].option = "allow")
           => gate'[g].by \in approvers]_gateVars

(* Every question put to an operator is answered by somebody or by its     *)
(* timer, a question whose pending entry was overwritten included.         *)
EveryQuestionSettles ==
  \A g \in Gates : gate[g].phase = "asking" ~> gate[g].phase # "asking"

=============================================================================
