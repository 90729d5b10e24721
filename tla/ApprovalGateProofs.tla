------------------------- MODULE ApprovalGateProofs -------------------------
(***************************************************************************)
(* Proofs about ApprovalGate, for every number of agents, devices,         *)
(* requests and overlapping questions.                                     *)
(***************************************************************************)
EXTENDS ApprovalGate, TLAPS

(* A continuation that is asking is a record of type Asking.               *)
LEMMA AskingType ==
  ASSUME GateTypeOK, NEW g \in Gates, gate[g].phase = "asking"
  PROVE  /\ gate[g] \in Asking
         /\ gate[g].agent \in Agents
         /\ gate[g].request \in Requests
         /\ gate[g].before \in RowStates
<1>1. gate[g] \in {Unused, Lost} \cup Asking \cup Done
  BY DEF GateTypeOK
<1>2. Unused.phase # "asking" /\ Lost.phase # "asking"
  BY DEF Unused, Lost
<1>3. gate[g] \notin Done
  BY DEF Done
<1>4. gate[g] \in Asking
  BY <1>1, <1>2, <1>3
<1> QED BY <1>4 DEF Asking

(* What the two statements on the approvals table return.                  *)
LEMMA RowType ==
  ASSUME NEW row \in Row, NEW choice \in Choices, NEW by \in Authors
  PROVE  /\ OpenRow(row) \in Row
         /\ OpenRow(row).decision # "absent"
         /\ DecideRow(row, choice, by) \in Row
  BY DEF Row, OpenRow, DecideRow, Choices

(* A decided row is a fixpoint of both statements.                         *)
LEMMA RowFinal ==
  ASSUME NEW row \in Row, row.decision \in Choices, NEW choice, NEW by
  PROVE  OpenRow(row) = row /\ DecideRow(row, choice, by) = row
  BY DEF OpenRow, DecideRow, Choices

(* A verdict that is no question is a choice.                              *)
LEMMA VerdictType ==
  ASSUME NEW V
  PROVE  Verdict(V) \in Verdicts /\ (Verdict(V) # "prompt" => Verdict(V) \in Choices)
  BY DEF Verdict, Verdicts, Choices

(* The effect of an answer keeps the tables well typed.                    *)
LEMMA AnswerType ==
  ASSUME GateTypeOK, NEW g \in Gates, NEW choice \in Choices, NEW by \in Authors,
         Answer(g, choice, by)
  PROVE  /\ state' \in [Agents -> RowStates]
         /\ approvals' \in [Requests -> Row]
         /\ gate' \in [Gates -> {Unused, Lost} \cup Asking \cup Done]
         /\ gate'[g] \in Done
<1>1. gate[g].agent \in Agents /\ gate[g].request \in Requests /\ gate[g].before \in RowStates
  BY AskingType DEF Answer
<1>2. state' \in [Agents -> RowStates]
  BY <1>1 DEF Answer, GateTypeOK, Restored
<1>3. approvals' \in [Requests -> Row]
  <2>1. DecideRow(approvals[gate[g].request], choice, by) \in Row
    BY <1>1, RowType DEF GateTypeOK
  <2> QED BY <1>1, <2>1 DEF Answer, GateTypeOK
<1>4. gate' \in [Gates -> {Unused, Lost} \cup Asking \cup Done] /\ gate'[g] \in Done
  <2>1. [phase |-> "done", agent |-> gate[g].agent, request |-> gate[g].request,
         option |-> choice, by |-> by] \in Done
    BY <1>1 DEF Done
  <2> QED BY <2>1 DEF Answer, GateTypeOK
<1> QED BY <1>2, <1>3, <1>4

-----------------------------------------------------------------------------
(***************************************************************************)
(* Type correctness.                                                       *)
(***************************************************************************)

LEMMA TypeInit == ASSUME GateInit PROVE GateTypeOK
  BY DEF GateInit, GateTypeOK, Row, RowStates, Terminal

LEMMA TypeStep == ASSUME GateTypeOK, [GateNext]_gateVars PROVE GateTypeOK'
<1> USE DEF GateTypeOK
<1>1. ASSUME NEW g \in Gates, NEW a \in Agents, NEW r \in Requests, NEW V \in SUBSET Verdicts,
             AskPolicy(g, a, r, V)
      PROVE  GateTypeOK'
  <2>1. Verdict(V) \in Choices
    BY <1>1, VerdictType DEF AskPolicy
  <2>2. DecideRow(OpenRow(approvals[r]), Verdict(V), "policy") \in Row
    BY <2>1, RowType DEF Authors
  <2>3. [phase |-> "done", agent |-> a, request |-> r,
         option |-> Verdict(V), by |-> "policy"] \in Done
    BY <2>1 DEF Done, Authors
  <2> QED BY <1>1, <2>2, <2>3 DEF AskPolicy
<1>2. ASSUME NEW g \in Gates, NEW a \in Agents, NEW r \in Requests, NEW V \in SUBSET Verdicts,
             AskOperator(g, a, r, V)
      PROVE  GateTypeOK'
  <2>1. OpenRow(approvals[r]) \in Row
    BY DEF OpenRow, Row
  <2>2. [phase |-> "asking", agent |-> a, request |-> r, before |-> state[a]] \in Asking
    BY DEF Asking
  <2> QED BY <1>2, <2>1, <2>2 DEF AskOperator, RowStates
<1>3. ASSUME NEW d \in Devices, NEW r \in Requests, NEW c \in Choices, Decide(d, r, c)
      PROVE  GateTypeOK'
  <2>1. pending[r] \in Gates /\ d \in Authors
    BY <1>3 DEF Decide, Authors
  <2> QED BY <1>3, <2>1, AnswerType DEF Decide
<1>4. ASSUME NEW g \in Gates, Timeout(g) PROVE GateTypeOK'
  <2>1. "deny" \in Choices /\ "timeout" \in Authors
    BY DEF Choices, Authors
  <2> QED BY <1>4, <2>1, AnswerType DEF Timeout
<1>5. CASE Restart
  BY <1>5 DEF Restart, Lose, RowStates, Terminal
<1>6. CASE RowWrite
  BY <1>6 DEF RowWrite, gateOwn
<1>7. ASSUME NEW p \in Plans, AskPlan(p) \/ PlanTimeout(p) PROVE GateTypeOK'
  BY <1>7 DEF AskPlan, PlanTimeout
<1>8. ASSUME NEW d \in Devices, NEW p \in Plans, DecidePlan(d, p) PROVE GateTypeOK'
  BY <1>8 DEF DecidePlan
<1>9. ASSUME NEW d \in Devices, Revoke(d) PROVE GateTypeOK'
  BY <1>9 DEF Revoke
<1>10. CASE UNCHANGED gateVars
  BY <1>10 DEF gateVars, gateOwn
<1> QED BY <1>1, <1>2, <1>3, <1>4, <1>5, <1>6, <1>7, <1>8, <1>9, <1>10
        DEF GateNext, Ask, Operate

(* Every reachable state of the gate is well typed.                        *)
THEOREM TypeCorrect == GateSpec => []GateTypeOK
  BY TypeInit, TypeStep, PTL DEF GateSpec

-----------------------------------------------------------------------------
(***************************************************************************)
(* Nobody waits for nobody.  "Some question of the agent is unanswered" is *)
(* not inductive: the continuation that is left could be one that puts the *)
(* row back to "waiting".  There is always one that interrupted something  *)
(* else, and it is the only kind that moves the row out of "waiting".      *)
(***************************************************************************)
Interrupter(g, a) ==
  gate[g].phase = "asking" /\ gate[g].agent = a /\ gate[g].before # "waiting"

WaitInv ==
  /\ GateTypeOK
  /\ \A a \in Agents : state[a] = "waiting" => \E g \in Gates : Interrupter(g, a)

LEMMA WaitInit == ASSUME GateInit PROVE WaitInv
  BY TypeInit DEF GateInit, WaitInv

(* Answering one question leaves the row waiting only on another one.      *)
LEMMA WaitAnswer ==
  ASSUME WaitInv, NEW g \in Gates, NEW choice \in Choices, NEW by \in Authors,
         Answer(g, choice, by), NEW a \in Agents, state'[a] = "waiting"
  PROVE  \E h \in Gates : Interrupter(h, a)'
<1> USE DEF WaitInv
<1>1. /\ gate[g].phase = "asking" /\ gate[g].agent \in Agents
      /\ \A h \in Gates \ {g} : gate'[h] = gate[h]
  BY AskingType DEF Answer, GateTypeOK
<1>2. state[a] = "waiting"
  BY <1>1 DEF Answer, GateTypeOK, Restored
<1>3. PICK h \in Gates : Interrupter(h, a)
  BY <1>2
<1>4. h # g
  <2> SUFFICES ASSUME h = g PROVE FALSE
    OBVIOUS
  <2>1. gate[g].agent = a /\ gate[g].before # "waiting"
    BY <1>3 DEF Interrupter
  <2>2. state'[a] = Restored(state[a], gate[g].before)
    BY <2>1 DEF Answer, GateTypeOK
  <2> QED BY <1>2, <2>1, <2>2 DEF Restored
<1> QED BY <1>1, <1>3, <1>4 DEF Interrupter

LEMMA WaitStep == ASSUME WaitInv, [GateNext]_gateVars PROVE WaitInv'
<1>1. GateTypeOK'
  BY TypeStep DEF WaitInv
<1> SUFFICES ASSUME NEW a \in Agents, state'[a] = "waiting"
             PROVE  \E h \in Gates : Interrupter(h, a)'
  BY <1>1 DEF WaitInv
<1> USE DEF WaitInv, GateTypeOK
<1>2. ASSUME UNCHANGED <<state, gate>> PROVE \E h \in Gates : Interrupter(h, a)'
  BY <1>2 DEF Interrupter
<1>3. ASSUME NEW g \in Gates, NEW b \in Agents, NEW r \in Requests, NEW V \in SUBSET Verdicts,
             AskPolicy(g, b, r, V)
      PROVE  \E h \in Gates : Interrupter(h, a)'
  <2>1. PICK h \in Gates : Interrupter(h, a)
    BY <1>3 DEF AskPolicy
  <2>2. h # g
    BY <1>3, <2>1 DEF AskPolicy, Interrupter, Unused
  <2> QED BY <1>3, <2>1, <2>2 DEF AskPolicy, Interrupter
<1>4. ASSUME NEW g \in Gates, NEW b \in Agents, NEW r \in Requests, NEW V \in SUBSET Verdicts,
             AskOperator(g, b, r, V)
      PROVE  \E h \in Gates : Interrupter(h, a)'
  <2>1. CASE a = b /\ state[a] # "waiting"
    BY <1>4, <2>1 DEF AskOperator, Interrupter
  <2>2. CASE ~(a = b /\ state[a] # "waiting")
    <3>1. PICK h \in Gates : Interrupter(h, a)
      BY <1>4, <2>2 DEF AskOperator
    <3>2. h # g
      BY <1>4, <3>1 DEF AskOperator, Interrupter, Unused
    <3> QED BY <1>4, <3>1, <3>2 DEF AskOperator, Interrupter
  <2> QED BY <2>1, <2>2
<1>5. ASSUME NEW d \in Devices, NEW r \in Requests, NEW c \in Choices, Decide(d, r, c)
      PROVE  \E h \in Gates : Interrupter(h, a)'
  <2>1. pending[r] \in Gates /\ d \in Authors
    BY <1>5 DEF Decide, Authors
  <2> QED BY <1>5, <2>1, WaitAnswer DEF Decide
<1>6. ASSUME NEW g \in Gates, Timeout(g) PROVE \E h \in Gates : Interrupter(h, a)'
  <2>1. "deny" \in Choices /\ "timeout" \in Authors
    BY DEF Choices, Authors
  <2> QED BY <1>6, <2>1, WaitAnswer DEF Timeout
<1>7. CASE Restart
  BY <1>7 DEF Restart, RowStates, Terminal
<1>8. CASE RowWrite
  <2>1. UNCHANGED gate /\ state[a] = "waiting"
    BY <1>8 DEF RowWrite, gateOwn
  <2> QED BY <2>1 DEF Interrupter
<1>9. ASSUME NEW p \in Plans, AskPlan(p) \/ PlanTimeout(p) PROVE \E h \in Gates : Interrupter(h, a)'
  BY <1>2, <1>9 DEF AskPlan, PlanTimeout
<1>10. ASSUME NEW d \in Devices, NEW p \in Plans, DecidePlan(d, p)
       PROVE  \E h \in Gates : Interrupter(h, a)'
  BY <1>2, <1>10 DEF DecidePlan
<1>11. ASSUME NEW d \in Devices, Revoke(d) PROVE \E h \in Gates : Interrupter(h, a)'
  BY <1>2, <1>11 DEF Revoke
<1>12. CASE UNCHANGED gateVars
  BY <1>2, <1>12 DEF gateVars, gateOwn
<1> QED BY <1>3, <1>4, <1>5, <1>6, <1>7, <1>8, <1>9, <1>10, <1>11, <1>12
        DEF GateNext, Ask, Operate

(* No agent is left waiting for an answer that nobody will write: however  *)
(* questions overlap and rows are rewritten meanwhile (#gate).             *)
THEOREM WaitingAsked == GateSpec => []WaitingIsAsked
<1>1. WaitInv => WaitingIsAsked
  BY DEF WaitInv, WaitingIsAsked, Interrupter
<1> QED BY WaitInit, WaitStep, <1>1, PTL DEF GateSpec

-----------------------------------------------------------------------------
(***************************************************************************)
(* The pending table.                                                      *)
(***************************************************************************)
PendInv == GateTypeOK /\ PendingIsAsking

LEMMA PendStep == ASSUME PendInv, [GateNext]_gateVars PROVE PendInv'
<1>1. GateTypeOK'
  BY TypeStep DEF PendInv
<1> SUFFICES ASSUME NEW q \in Requests, pending'[q] # NoGate
             PROVE  gate'[pending'[q]].phase = "asking" /\ gate'[pending'[q]].request = q
  BY <1>1 DEF PendInv, PendingIsAsking
<1> DEFINE Goal == gate'[pending'[q]].phase = "asking" /\ gate'[pending'[q]].request = q
<1> HIDE DEF Goal
<1> USE DEF PendInv, GateTypeOK, PendingIsAsking
<1>2. ASSUME UNCHANGED <<pending, gate>> PROVE Goal
  BY <1>2 DEF Goal
<1>3. ASSUME NEW g \in Gates, NEW a \in Agents, NEW r \in Requests, NEW V \in SUBSET Verdicts,
             AskPolicy(g, a, r, V) \/ AskOperator(g, a, r, V)
      PROVE  Goal
  <2>1. pending[q] # NoGate => pending[q] # g
    BY <1>3 DEF AskPolicy, AskOperator, Unused
  <2>2. CASE AskPolicy(g, a, r, V)
    BY <2>1, <2>2 DEF AskPolicy, Goal
  <2>3. CASE AskOperator(g, a, r, V)
    BY <2>1, <2>3 DEF AskOperator, Goal
  <2> QED BY <1>3, <2>2, <2>3
<1>4. ASSUME NEW g \in Gates, NEW c, NEW by, Answer(g, c, by),
             pending' = [pending EXCEPT ![gate[g].request] = NoGate]
      PROVE  Goal
  <2>1. gate[g].request \in Requests
    BY <1>4, AskingType DEF Answer
  <2>2. pending'[q] = pending[q] /\ q # gate[g].request
    BY <1>4, <2>1
  <2>3. pending[q] # g
    BY <2>2
  <2> QED BY <1>4, <2>2, <2>3 DEF Answer, Goal
<1>5. ASSUME NEW d \in Devices, NEW r \in Requests, NEW c \in Choices, Decide(d, r, c) PROVE Goal
  <2>1. pending[r] \in Gates /\ gate[pending[r]].request = r
    BY <1>5 DEF Decide
  <2> QED BY <1>4, <1>5, <2>1 DEF Decide
<1>6. ASSUME NEW g \in Gates, Timeout(g) PROVE Goal
  BY <1>4, <1>6 DEF Timeout
<1>7. CASE Restart
  BY <1>7 DEF Restart, Lose
<1>8. CASE RowWrite
  BY <1>2, <1>8 DEF RowWrite, gateOwn
<1>9. ASSUME NEW p \in Plans, AskPlan(p) \/ PlanTimeout(p) PROVE Goal
  BY <1>2, <1>9 DEF AskPlan, PlanTimeout
<1>10. ASSUME NEW d \in Devices, NEW p \in Plans, DecidePlan(d, p) PROVE Goal
  BY <1>2, <1>10 DEF DecidePlan
<1>11. ASSUME NEW d \in Devices, Revoke(d) PROVE Goal
  BY <1>2, <1>11 DEF Revoke
<1>12. CASE UNCHANGED gateVars
  BY <1>2, <1>12 DEF gateVars, gateOwn
<1> QED BY <1>3, <1>5, <1>6, <1>7, <1>8, <1>9, <1>10, <1>11, <1>12
        DEF GateNext, Ask, Operate, Goal

(* A decision that is accepted wakes a continuation that is still asking   *)
(* about that request: an answer after the timer is refused (decide).      *)
THEOREM PendingAsking == GateSpec => []PendingIsAsking
<1>1. GateInit => PendInv
  BY TypeInit DEF GateInit, PendInv, PendingIsAsking
<1>2. PendInv => PendingIsAsking
  BY DEF PendInv
<1> QED BY <1>1, <1>2, PendStep, PTL DEF GateSpec

-----------------------------------------------------------------------------
(***************************************************************************)
(* The approvals table.  A decided row is the answer of some continuation, *)
(* the row of an answered one is decided, and that it is decided needs     *)
(* that asking opened it: an absent row ignores the update.                *)
(***************************************************************************)
Wrote(g, r, row) ==
  /\ gate[g].phase = "done" /\ gate[g].request = r
  /\ row = [decision |-> gate[g].option, by |-> gate[g].by]

DecidedByAnswer ==
  \A r \in Requests : approvals[r].decision \in Choices =>
     \E g \in Gates : Wrote(g, r, approvals[r])

AskedIsOpen ==
  \A g \in Gates : gate[g].phase = "asking" => approvals[gate[g].request].decision # "absent"

AnsweredIsDecided ==
  \A g \in Gates : gate[g].phase = "done" => approvals[gate[g].request].decision \in Choices

TableInv == GateTypeOK /\ DecidedByAnswer /\ AskedIsOpen /\ AnsweredIsDecided

(* The request of a continuation that asks or has answered is a request.   *)
LEMMA RequestType ==
  ASSUME GateTypeOK, NEW g \in Gates, gate[g].phase \in {"asking", "done"}
  PROVE  gate[g].request \in Requests
<1>1. gate[g] \in {Unused, Lost} \cup Asking \cup Done
  BY DEF GateTypeOK
<1>2. gate[g] \in Asking \cup Done
  BY <1>1 DEF Unused, Lost
<1> QED BY <1>2 DEF Asking, Done

(* What closing a row leaves in it, when the row was open.                 *)
LEMMA CloseRow ==
  ASSUME NEW row \in Row, row.decision # "absent", NEW choice \in Choices, NEW by \in Authors
  PROVE  /\ DecideRow(row, choice, by).decision \in Choices
         /\ \/ row.decision \in Choices /\ DecideRow(row, choice, by) = row
            \/ DecideRow(row, choice, by) = [decision |-> choice, by |-> by]
  BY DEF Row, DecideRow, Choices

(* A step in which continuation g answers request r keeps the table.  The  *)
(* row it closes is the one it finds, or the one it has just opened.       *)
LEMMA TableClose ==
  ASSUME TableInv,
         NEW g \in Gates, NEW r \in Requests, NEW choice \in Choices, NEW by \in Authors,
         gate[g].phase # "done",
         \A h \in Gates \ {g} : gate'[h] = gate[h],
         gate'[g].phase = "done", gate'[g].request = r,
         gate'[g].option = choice, gate'[g].by = by,
         NEW pre \in Row, pre.decision # "absent",
         pre.decision \in Choices => pre = approvals[r],
         approvals' = [approvals EXCEPT ![r] = DecideRow(pre, choice, by)]
  PROVE  DecidedByAnswer' /\ AskedIsOpen' /\ AnsweredIsDecided'
<1>1. /\ approvals'[r] = DecideRow(pre, choice, by)
      /\ \A q \in Requests \ {r} : approvals'[q] = approvals[q]
  BY DEF TableInv, GateTypeOK
<1>2. approvals'[r].decision \in Choices
  BY <1>1, CloseRow
<1>3. ASSUME NEW h \in Gates, NEW q, NEW row, Wrote(h, q, row) PROVE Wrote(h, q, row)'
  <2>1. h # g
    BY <1>3 DEF Wrote
  <2> QED BY <1>3, <2>1 DEF Wrote
<1>4. ASSUME NEW q \in Requests, approvals'[q].decision \in Choices
      PROVE  \E h \in Gates : Wrote(h, q, approvals[q])'
  <2>1. CASE q # r \/ approvals'[r] = approvals[r]
    <3>1. approvals'[q] = approvals[q]
      BY <1>1, <2>1
    <3>2. PICK h \in Gates : Wrote(h, q, approvals[q])
      BY <1>4, <3>1 DEF TableInv, DecidedByAnswer
    <3> QED BY <3>1, <3>2 DEF Wrote, TableInv
  <2>2. CASE q = r /\ approvals'[r] # approvals[r]
    <3>1. approvals'[r] = [decision |-> choice, by |-> by]
      BY <1>1, <2>2, CloseRow
    <3> QED BY <2>2, <3>1 DEF Wrote
  <2> QED BY <2>1, <2>2
<1>5. ASSUME NEW h \in Gates, gate'[h].phase \in {"asking", "done"}
      PROVE  /\ gate'[h].phase = "asking" => approvals'[gate'[h].request].decision # "absent"
             /\ gate'[h].phase = "done" => approvals'[gate'[h].request].decision \in Choices
  <2>1. CASE h = g
    BY <1>2, <2>1
  <2>2. CASE h # g
    <3>1. gate'[h] = gate[h] /\ gate[h].request \in Requests
      BY <1>5, <2>2, RequestType DEF TableInv
    <3>2. "absent" \notin Choices
      BY DEF Choices
    <3> QED BY <1>1, <1>2, <3>1, <3>2 DEF TableInv, AskedIsOpen, AnsweredIsDecided
  <2> QED BY <2>1, <2>2
<1> QED BY <1>4, <1>5 DEF DecidedByAnswer, AskedIsOpen, AnsweredIsDecided

LEMMA TableStep == ASSUME TableInv, [GateNext]_gateVars PROVE TableInv'
<1>1. GateTypeOK'
  BY TypeStep DEF TableInv
<1> DEFINE Goal == DecidedByAnswer' /\ AskedIsOpen' /\ AnsweredIsDecided'
<1> SUFFICES Goal
  BY <1>1 DEF TableInv
<1> HIDE DEF Goal
<1>2. ASSUME UNCHANGED <<approvals, gate>> PROVE Goal
  BY <1>2 DEF Goal, TableInv, DecidedByAnswer, Wrote, AskedIsOpen, AnsweredIsDecided
<1>3. ASSUME NEW g \in Gates, NEW a \in Agents, NEW r \in Requests, NEW V \in SUBSET Verdicts,
             AskPolicy(g, a, r, V)
      PROVE  Goal
  <2>1. Verdict(V) \in Choices /\ "policy" \in Authors
    BY <1>3, VerdictType DEF AskPolicy, Authors
  <2> DEFINE pre == OpenRow(approvals[r])
  <2>2. pre \in Row /\ pre.decision # "absent" /\ (pre.decision \in Choices => pre = approvals[r])
    BY DEF TableInv, GateTypeOK, OpenRow, Row, Choices
  <2>3. gate[g].phase # "done" /\ \A h \in Gates \ {g} : gate'[h] = gate[h]
    BY <1>3 DEF AskPolicy, Unused, TableInv, GateTypeOK
  <2>4. /\ gate'[g].phase = "done" /\ gate'[g].request = r
        /\ gate'[g].option = Verdict(V) /\ gate'[g].by = "policy"
    BY <1>3 DEF AskPolicy, TableInv, GateTypeOK
  <2>5. approvals' = [approvals EXCEPT ![r] = DecideRow(pre, Verdict(V), "policy")]
    BY <1>3 DEF AskPolicy
  <2> HIDE DEF pre
  <2> QED BY <2>1, <2>2, <2>3, <2>4, <2>5, TableClose DEF Goal
<1>4. ASSUME NEW g \in Gates, NEW a \in Agents, NEW r \in Requests, NEW V \in SUBSET Verdicts,
             AskOperator(g, a, r, V)
      PROVE  Goal
  <2>1. /\ gate[g].phase = "unused"
        /\ gate'[g].phase = "asking" /\ gate'[g].request = r
        /\ \A h \in Gates \ {g} : gate'[h] = gate[h]
    BY <1>4 DEF AskOperator, Unused, TableInv, GateTypeOK
  <2>2. /\ \A q \in Requests : approvals[q].decision \in Choices => approvals'[q] = approvals[q]
        /\ \A q \in Requests : approvals'[q].decision \in Choices => approvals'[q] = approvals[q]
        /\ \A q \in Requests : approvals[q].decision # "absent" => approvals'[q].decision # "absent"
        /\ approvals'[r].decision # "absent"
    BY <1>4 DEF AskOperator, OpenRow, Choices, TableInv, GateTypeOK
  <2>3. DecidedByAnswer'
    <3> SUFFICES ASSUME NEW q \in Requests, approvals'[q].decision \in Choices
                 PROVE  \E h \in Gates : Wrote(h, q, approvals[q])'
      BY DEF DecidedByAnswer
    <3>1. PICK h \in Gates : Wrote(h, q, approvals[q])
      BY <2>2 DEF TableInv, DecidedByAnswer
    <3>2. h # g
      BY <2>1, <3>1 DEF Wrote
    <3> QED BY <2>1, <2>2, <3>1, <3>2 DEF Wrote
  <2>4. AskedIsOpen'
    <3> SUFFICES ASSUME NEW h \in Gates, gate'[h].phase = "asking"
                 PROVE  approvals'[gate'[h].request].decision # "absent"
      BY DEF AskedIsOpen
    <3>1. CASE h = g
      BY <2>1, <2>2, <3>1
    <3>2. CASE h # g
      BY <2>1, <2>2, <3>2, RequestType DEF TableInv, AskedIsOpen
    <3> QED BY <3>1, <3>2
  <2>5. AnsweredIsDecided'
    <3> SUFFICES ASSUME NEW h \in Gates, gate'[h].phase = "done"
                 PROVE  approvals'[gate'[h].request].decision \in Choices
      BY DEF AnsweredIsDecided
    <3>1. h # g /\ gate'[h] = gate[h] /\ gate[h].request \in Requests
      BY <2>1, RequestType DEF TableInv
    <3> QED BY <2>2, <3>1 DEF TableInv, AnsweredIsDecided
  <2> QED BY <2>3, <2>4, <2>5 DEF Goal
<1>5. ASSUME NEW g \in Gates, NEW c \in Choices, NEW by \in Authors, Answer(g, c, by)
      PROVE  Goal
  <2>1. /\ gate[g].request \in Requests /\ gate[g].phase = "asking"
        /\ approvals[gate[g].request].decision # "absent"
    BY <1>5, RequestType DEF Answer, TableInv, AskedIsOpen
  <2>2. approvals[gate[g].request] \in Row
    BY <2>1 DEF TableInv, GateTypeOK
  <2>3. \A h \in Gates \ {g} : gate'[h] = gate[h]
    BY <1>5 DEF Answer, TableInv, GateTypeOK
  <2>4. /\ gate'[g].phase = "done" /\ gate'[g].request = gate[g].request
        /\ gate'[g].option = c /\ gate'[g].by = by
    BY <1>5 DEF Answer, TableInv, GateTypeOK
  <2>5. approvals' = [approvals EXCEPT
                        ![gate[g].request] = DecideRow(approvals[gate[g].request], c, by)]
    BY <1>5 DEF Answer
  <2> QED BY <2>1, <2>2, <2>3, <2>4, <2>5, TableClose DEF Goal
<1>6. ASSUME NEW d \in Devices, NEW r \in Requests, NEW c \in Choices, Decide(d, r, c)
      PROVE  Goal
  <2>1. pending[r] \in Gates /\ d \in Authors
    BY <1>6 DEF Decide, Authors, TableInv, GateTypeOK
  <2> QED BY <1>5, <1>6, <2>1 DEF Decide
<1>7. ASSUME NEW g \in Gates, Timeout(g) PROVE Goal
  <2>1. "deny" \in Choices /\ "timeout" \in Authors
    BY DEF Choices, Authors
  <2> QED BY <1>5, <1>7, <2>1 DEF Timeout
<1>8. CASE Restart
  <2>1. /\ UNCHANGED approvals
        /\ \A g \in Gates : gate'[g].phase # "asking"
        /\ \A g \in Gates : (gate'[g].phase = "done" \/ gate[g].phase = "done")
                              => gate'[g] = gate[g]
    BY <1>8 DEF Restart, Lose, Lost
  <2>2. DecidedByAnswer'
    <3> SUFFICES ASSUME NEW q \in Requests, approvals'[q].decision \in Choices
                 PROVE  \E h \in Gates : Wrote(h, q, approvals[q])'
      BY DEF DecidedByAnswer
    <3>1. PICK h \in Gates : Wrote(h, q, approvals[q])
      BY <2>1 DEF TableInv, DecidedByAnswer
    <3> QED BY <2>1, <3>1 DEF Wrote
  <2>3. AskedIsOpen' /\ AnsweredIsDecided'
    BY <2>1 DEF AskedIsOpen, AnsweredIsDecided, TableInv
  <2> QED BY <2>2, <2>3 DEF Goal
<1>9. CASE RowWrite
  BY <1>2, <1>9 DEF RowWrite, gateOwn
<1>10. ASSUME NEW p \in Plans, AskPlan(p) \/ PlanTimeout(p) PROVE Goal
  BY <1>2, <1>10 DEF AskPlan, PlanTimeout
<1>11. ASSUME NEW d \in Devices, NEW p \in Plans, DecidePlan(d, p) PROVE Goal
  BY <1>2, <1>11 DEF DecidePlan
<1>12. ASSUME NEW d \in Devices, Revoke(d) PROVE Goal
  BY <1>2, <1>12 DEF Revoke
<1>13. CASE UNCHANGED gateVars
  BY <1>2, <1>13 DEF gateVars, gateOwn
<1> QED BY <1>3, <1>4, <1>6, <1>7, <1>8, <1>9, <1>10, <1>11, <1>12, <1>13
        DEF GateNext, Ask, Operate

(* The row of an answered request records an answer that was given, and by *)
(* whom (#settle, resolveApproval).                                        *)
THEOREM AnswersRecorded == GateSpec => []AnswerIsRecorded
<1>1. GateInit => TableInv
  BY TypeInit
     DEF GateInit, TableInv, DecidedByAnswer, AskedIsOpen, AnsweredIsDecided, Unused, Choices
<1>2. TableInv => AnswerIsRecorded
  <2> SUFFICES ASSUME TableInv, NEW g \in Gates, gate[g].phase = "done"
               PROVE  \E h \in Gates : Wrote(h, gate[g].request, approvals[gate[g].request])
    BY DEF AnswerIsRecorded, Wrote
  <2>1. gate[g].request \in Requests
    BY RequestType DEF TableInv
  <2> QED BY <2>1 DEF TableInv, AnsweredIsDecided, DecidedByAnswer
<1> QED BY <1>1, <1>2, TableStep, PTL DEF GateSpec

-----------------------------------------------------------------------------
(***************************************************************************)
(* What a step may never do.                                               *)
(***************************************************************************)

LEMMA FinalStep ==
  ASSUME GateTypeOK, [GateNext]_gateVars, NEW r \in Requests, approvals[r].decision \in Choices
  PROVE  approvals'[r] = approvals[r]
<1>1. ASSUME NEW g \in Gates, NEW a \in Agents, NEW q \in Requests, NEW V \in SUBSET Verdicts,
             AskPolicy(g, a, q, V) \/ AskOperator(g, a, q, V)
      PROVE  approvals'[r] = approvals[r]
  <2>1. CASE AskPolicy(g, a, q, V)
    <3>1. approvals[r] \in Row /\ OpenRow(approvals[r]) = approvals[r]
      BY RowFinal DEF GateTypeOK
    <3>2. DecideRow(approvals[r], Verdict(V), "policy") = approvals[r]
      BY <3>1, RowFinal
    <3> QED BY <2>1, <3>1, <3>2 DEF AskPolicy, GateTypeOK
  <2>2. CASE AskOperator(g, a, q, V)
    BY <2>2, RowFinal DEF AskOperator, GateTypeOK
  <2> QED BY <1>1, <2>1, <2>2
<1>2. ASSUME NEW g \in Gates, NEW c, NEW by, Answer(g, c, by)
      PROVE  approvals'[r] = approvals[r]
  <2>1. approvals[r] \in Row /\ DecideRow(approvals[r], c, by) = approvals[r]
    BY RowFinal DEF GateTypeOK
  <2> QED BY <1>2, <2>1 DEF Answer, GateTypeOK
<1>3. ASSUME NEW d \in Devices, NEW q \in Requests, NEW c \in Choices, Decide(d, q, c)
      PROVE  approvals'[r] = approvals[r]
  <2>1. pending[q] \in Gates
    BY <1>3 DEF Decide, GateTypeOK
  <2> QED BY <1>2, <1>3, <2>1 DEF Decide
<1>4. ASSUME NEW g \in Gates, Timeout(g) PROVE approvals'[r] = approvals[r]
  BY <1>2, <1>4 DEF Timeout
<1>5. ASSUME NEW d \in Devices, NEW p \in Plans, DecidePlan(d, p) PROVE approvals'[r] = approvals[r]
  BY <1>5 DEF DecidePlan
<1>6. ASSUME NEW p \in Plans, AskPlan(p) \/ PlanTimeout(p) PROVE approvals'[r] = approvals[r]
  BY <1>6 DEF AskPlan, PlanTimeout
<1>7. ASSUME NEW d \in Devices, Revoke(d) PROVE approvals'[r] = approvals[r]
  BY <1>7 DEF Revoke
<1>8. CASE Restart \/ RowWrite \/ UNCHANGED gateVars
  BY <1>8 DEF Restart, Lose, RowWrite, gateVars, gateOwn
<1> QED BY <1>1, <1>3, <1>4, <1>5, <1>6, <1>7, <1>8 DEF GateNext, Ask, Operate

(* A decision, once recorded, is never changed or reopened: two operators, *)
(* an operator and the timer, a host that repeats an id (resolveApproval). *)
THEOREM DecisionsFinal == GateSpec => DecisionIsFinal
<1>1. GateTypeOK /\ [GateNext]_gateVars =>
        [\A r \in Requests : approvals[r].decision \in Choices
                                => approvals'[r] = approvals[r]]_gateVars
  BY FinalStep
<1> QED BY <1>1, TypeCorrect, PTL DEF GateSpec, DecisionIsFinal

LEMMA AllowStep ==
  ASSUME PendInv, [GateNext]_gateVars, NEW g \in Gates,
         gate[g].phase = "asking", gate'[g].phase = "done", gate'[g].option = "allow"
  PROVE  gate'[g].by \in approvers
<1> USE DEF PendInv, GateTypeOK, PendingIsAsking
<1>1. ASSUME NEW h \in Gates, NEW a \in Agents, NEW r \in Requests, NEW V \in SUBSET Verdicts,
             AskPolicy(h, a, r, V) \/ AskOperator(h, a, r, V)
      PROVE  FALSE
  <2>1. gate[h].phase = "unused"
    BY <1>1 DEF AskPolicy, AskOperator, Unused
  <2>2. gate'[g] = gate[g]
    BY <1>1, <2>1 DEF AskPolicy, AskOperator
  <2> QED BY <2>2
<1>2. ASSUME NEW h \in Gates, NEW c, NEW by, Answer(h, c, by)
      PROVE  c = "allow" /\ gate'[g].by = by
  <2>1. h = g
    BY <1>2 DEF Answer
  <2> QED BY <1>2, <2>1 DEF Answer
<1>3. ASSUME NEW d \in Devices, NEW r \in Requests, NEW c \in Choices, Decide(d, r, c)
      PROVE  gate'[g].by \in approvers
  <2>1. pending[r] \in Gates /\ d \in approvers
    BY <1>3 DEF Decide, Approver
  <2> QED BY <1>2, <1>3, <2>1 DEF Decide
<1>4. ASSUME NEW h \in Gates, Timeout(h) PROVE FALSE
  BY <1>2, <1>4 DEF Timeout
<1>5. CASE Restart
  BY <1>5 DEF Restart, Lose, Lost
<1>6. CASE RowWrite \/ UNCHANGED gateVars
  BY <1>6 DEF RowWrite, gateVars, gateOwn
<1>7. ASSUME NEW p \in Plans, AskPlan(p) \/ PlanTimeout(p) PROVE FALSE
  BY <1>7 DEF AskPlan, PlanTimeout
<1>8. ASSUME NEW d \in Devices, NEW p \in Plans, DecidePlan(d, p) PROVE FALSE
  BY <1>8 DEF DecidePlan
<1>9. ASSUME NEW d \in Devices, Revoke(d) PROVE FALSE
  BY <1>9 DEF Revoke
<1> QED BY <1>1, <1>3, <1>4, <1>5, <1>6, <1>7, <1>8, <1>9 DEF GateNext, Ask, Operate

(* A host that had to ask goes ahead only on the word of a device whose    *)
(* row holds the approve scope when it speaks (decide, #authorize).        *)
THEOREM AllowsAuthorised == GateSpec => AllowIsAuthorised
<1>1. GateInit => PendInv
  BY TypeInit DEF GateInit, PendInv, PendingIsAsking
<1>2. PendInv /\ [GateNext]_gateVars =>
        [\A g \in Gates :
           (gate[g].phase = "asking" /\ gate'[g].phase = "done" /\ gate'[g].option = "allow")
             => gate'[g].by \in approvers]_gateVars
  BY AllowStep
<1> QED BY <1>1, <1>2, PendStep, PTL DEF GateSpec, AllowIsAuthorised

=============================================================================
