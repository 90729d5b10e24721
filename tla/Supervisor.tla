----------------------------- MODULE Supervisor -----------------------------
(***************************************************************************)
(* The supervisor as a whole: the lifecycle and the approval gate, which   *)
(* meet in the state of an agent's row and in the device rows.             *)
(*                                                                         *)
(* The lifecycle starts turns, ends them and writes terminal states while  *)
(* questions are unanswered; the gate puts a row to "waiting" and back     *)
(* whatever happened in between.  A question may also come while no turn   *)
(* runs, from a WebView (gateAction).                                      *)
(***************************************************************************)
EXTENDS AgentLifecycle

CONSTANTS
  Requests,     \* approval request ids
  Gates,        \* one per call of #gate
  Plans,        \* one per plan review
  CanApprove,   \* devices paired with the approve scope
  NoGate

ASSUME CanApproveAssumption == CanApprove \subseteq Devices

VARIABLES approvals, pending, gate, plan

asked == <<approvals, pending, gate, plan>>
vars  == <<lifeVars, asked>>

(* The device row is read again at every decision.                         *)
Approvers == CanApprove \ revoked

Gate == INSTANCE ApprovalGate WITH approvers <- Approvers

TypeOK ==
  /\ LifeTypeOK
  /\ Gate!GateTypeOK

Init ==
  /\ LifeInit
  /\ approvals = [r \in Requests |-> [decision |-> "absent", by |-> "nobody"]]
  /\ pending = [r \in Requests |-> NoGate]
  /\ gate = [g \in Gates |-> Gate!Unused]
  /\ plan = [p \in Plans |-> "unused"]

(* Everything of the lifecycle but the rows' state.                        *)
lifeRest == <<rows, machines, routes, call, stopping, work, closing>>

(* Defect: an agent that ends takes its pending entries along, unanswered. *)
ForgetQuestions ==
  /\ RunningNext
  /\ pending' = [r \in Requests |->
       IF pending[r] # NoGate /\ state'[gate[pending[r]].agent] \in Terminal
         THEN NoGate ELSE pending[r]]
  /\ UNCHANGED <<approvals, gate, plan>>

(* The lifecycle moves; no question is touched by it.                      *)
Lifecycle == RunningNext /\ UNCHANGED asked

(* The gate moves.                                                         *)
Question == UNCHANGED lifeRest /\ Gate!Ask

Decision ==
  /\ UNCHANGED lifeRest
  /\ \E d \in Devices :
       \/ \E r \in Requests, c \in Gate!Choices : Gate!Decide(d, r, c)
       \/ \E p \in Plans : Gate!DecidePlan(d, p)

Clock(g) == UNCHANGED lifeRest /\ Gate!Timeout(g)

PlanAsked(p) == UNCHANGED lifeRest /\ Gate!AskPlan(p)
PlanClock(p) == UNCHANGED lifeRest /\ Gate!PlanTimeout(p)

(* The process ends and the next one starts: both lose their memory.       *)
Restarted == NextDaemon /\ Gate!Lose

Next ==
  \/ Lifecycle
  \/ Question
  \/ Decision
  \/ \E g \in Gates : Clock(g)
  \/ \E p \in Plans : PlanAsked(p) \/ PlanClock(p)
  \/ Restarted

Spec == Init /\ [][Next]_vars

(* The timers of the gate fire; see Timers in ApprovalGate.                *)
FairSpec ==
  /\ Spec
  /\ \A g \in Gates : WF_vars(Clock(g))
  /\ \A p \in Plans : WF_vars(PlanClock(p))

-----------------------------------------------------------------------------
(* The gate keeps its promises whatever the lifecycle does to the rows:    *)
(* every step of the supervisor is a step of the gate, a write of a row    *)
(* that is not "waiting", or no step of the gate at all.                   *)
ImplementsGate == Gate!GateSpec

(* Every question to an operator ends, through stops, dead hosts and       *)
(* turns that finish before it.                                            *)
QuestionsSettle == Gate!EveryQuestionSettles

(* awake.ts: the daemon holds the machine awake "for exactly as long as    *)
(* there is work in flight", reading it off the rows; contracts.ts: "idle" *)
(* is ready, no turn in flight.                                            *)
IdleMeansNoTurn ==
  \A a \in Agents : state[a] = "idle" => turns[a] = 0

=============================================================================
