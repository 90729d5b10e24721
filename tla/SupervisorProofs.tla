-------------------------- MODULE SupervisorProofs --------------------------
(***************************************************************************)
(* Proofs about AgentLifecycle and Supervisor, for every value of the      *)
(* constants: the invariants of the lifecycle, alone and beside the gate,  *)
(* and that the supervisor implements the approval gate.                   *)
(***************************************************************************)
EXTENDS Supervisor, TLAPS

(***************************************************************************)
(* The lifecycle.                                                          *)
(***************************************************************************)

(* A call in progress names a host and perhaps a session.                  *)
LEMMA CallType ==
  ASSUME NEW c \in Calls
  PROVE  /\ c.phase \in {"spawn", "picked", "open"} /\ c.takeover \in BOOLEAN
         /\ c.host \in Hosts /\ c.session \in Sessions \cup {None}
         /\ [c EXCEPT !.phase = "picked"] \in Calls
         /\ [c EXCEPT !.phase = "open"] \in Calls
         /\ c # NoCall /\ c # EndedCall
  BY DEF Calls, NoCall, EndedCall

(* #releaseHost keeps the tables of hosts well typed, whatever it is told. *)
LEMMA ReleaseType ==
  ASSUME hosts \subseteq Hosts, ready \subseteq Hosts,
         proc \in [Hosts -> {"free", "up", "killed", "gone"}], NEW h, Release(h)
  PROVE  /\ hosts' \subseteq Hosts /\ ready' \subseteq Hosts
         /\ proc' \in [Hosts -> {"free", "up", "killed", "gone"}]
  BY DEF Release

-----------------------------------------------------------------------------
(* Everything below is about steps that move the lifecycle, or nothing of  *)
(* it but the states of rows, which is what the gate does.                 *)
LifeMoves == LifeNext \/ UNCHANGED lifeRest

LEMMA MovesAlone == [LifeNext]_lifeVars => LifeMoves
  BY DEF LifeMoves, lifeVars, lifeRest

LEMMA MovesWithGate == [Next]_vars => LifeMoves
  BY DEF Next, Lifecycle, Question, Decision, Clock, PlanAsked, PlanClock, Restarted,
         LifeMoves, LifeNext, vars, lifeVars, lifeRest

(***************************************************************************)
(* Type correctness.                                                       *)
(***************************************************************************)

LEMMA TypeInit == ASSUME LifeInit PROVE LifeTypeOK
<1>1. queue \in [Agents -> Seq(Devices)] /\ turns \in [Agents -> Nat]
  BY DEF LifeInit
<1>2. call \in [Agents -> {NoCall, EndedCall} \cup Calls]
  BY DEF LifeInit
<1>3. serves \in [Hosts -> SUBSET Agents] /\ recorded \subseteq Sessions
  BY BoundsAssumption DEF LifeInit
<1> QED BY <1>1, <1>2, <1>3 DEF LifeInit, LifeTypeOK

(* The first three pieces of a create, resume or takeover.                 *)
LEMMA TypeBegin ==
  ASSUME LifeTypeOK, NEW a \in Agents, NEW d \in Devices,
         NEW s \in Sessions \cup {None}, NEW h \in Hosts,
         ReuseHost(a, d, s) \/ SpawnHost(a, d, s, h) \/ TakeOver(a, d, s, h)
  PROVE  LifeTypeOK'
<1> USE DEF LifeTypeOK, rows, machines, routes, work
<1>1. \A p \in {"spawn", "picked"}, t \in BOOLEAN, k \in Hosts :
         [phase |-> p, takeover |-> t, host |-> k, session |-> s] \in Calls
  BY DEF Calls
<1>2. CASE ReuseHost(a, d, s)
  <2>1. PICK k \in Hosts : call' = [call EXCEPT ![a] =
           [phase |-> "picked", takeover |-> FALSE, host |-> k, session |-> s]]
    BY <1>2 DEF ReuseHost, Reusable
  <2> QED BY <1>1, <1>2, <2>1 DEF ReuseHost
<1>3. CASE SpawnHost(a, d, s, h)
  BY <1>1, <1>3 DEF SpawnHost
<1>4. CASE TakeOver(a, d, s, h)
  BY <1>1, <1>4 DEF TakeOver
<1> QED BY <1>2, <1>3, <1>4

LEMMA TypeContinued ==
  ASSUME LifeTypeOK, NEW a \in Agents,
         HostStarted(a) \/ HostNotStarted(a) \/ Bind(a) \/ Opened(a)
  PROVE  LifeTypeOK'
<1> USE DEF LifeTypeOK, rows, machines, routes, work
<1>1. CASE HostStarted(a)
  BY <1>1, CallType DEF HostStarted
<1>2. CASE HostNotStarted(a)
  BY <1>2, ReleaseType DEF HostNotStarted
<1>3. CASE Bind(a)
  BY <1>3, CallType DEF Bind
<1>4. ASSUME NEW s \in Sessions, OpenOk(a, s) PROVE LifeTypeOK'
  BY <1>4, CallType DEF OpenOk
<1>5. CASE OpenFailed(a)
  <2>1. sessionAgent' \in [Sessions -> Agents \cup {None}]
    BY <1>5 DEF OpenFailed, TakeBackRoute
  <2> QED BY <1>5, <2>1, ReleaseType DEF OpenFailed
<1> QED BY <1>1, <1>2, <1>3, <1>4, <1>5 DEF Opened

LEMMA TypePrompt ==
  ASSUME LifeTypeOK, NEW a \in Agents, NEW d \in Devices,
         Prompt(a, d) \/ FollowUp(a, d)
  PROVE  LifeTypeOK'
<1> USE DEF LifeTypeOK, rows, machines, routes, work
<1>1. CASE Prompt(a, d)
  BY <1>1 DEF Prompt, Free
<1>2. CASE FollowUp(a, d)
  BY <1>2 DEF FollowUp
<1> QED BY <1>1, <1>2

LEMMA TypeTurnEnds ==
  ASSUME LifeTypeOK, NEW a \in Agents, TurnEnds(a) PROVE LifeTypeOK'
<1> USE DEF LifeTypeOK, rows, machines, routes, work
<1>1. CASE TurnAbandoned(a)
  BY <1>1 DEF TurnAbandoned
<1>2. CASE TurnEndsIdle(a)
  <2>1. turns' \in [Agents -> Nat] /\ inFlight' \in [Agents -> {0, 1}]
    BY <1>2 DEF TurnEndsIdle
  <2> QED BY <1>2, <2>1 DEF TurnEndsIdle
<1>3. ASSUME queue[a] # <<>> PROVE Head(queue[a]) \in Devices /\ Tail(queue[a]) \in Seq(Devices)
  BY <1>3
<1>4. CASE TurnEndsNext(a)
  BY <1>3, <1>4 DEF TurnEndsNext
<1>5. CASE TurnEndsRefused(a)
  BY <1>3, <1>5 DEF TurnEndsRefused
<1> QED BY <1>1, <1>2, <1>4, <1>5 DEF TurnEnds

LEMMA TypeEnd ==
  ASSUME LifeTypeOK,
         \/ \E a \in Agents : StopEnd(a) \/ \E d \in Devices : StopBegin(a, d)
         \/ \E h \in Hosts : HostExit(h)
         \/ \E d \in Devices : RevokeDevice(d)
         \/ Shutdown
         \/ NextDaemon
  PROVE  LifeTypeOK'
<1> USE DEF LifeTypeOK, rows, machines, routes, work
<1>1. ASSUME NEW a \in Agents, NEW d \in Devices, StopBegin(a, d) PROVE LifeTypeOK'
  BY <1>1 DEF StopBegin
<1>2. ASSUME NEW a \in Agents, StopEnd(a) PROVE LifeTypeOK'
  <2>1. hosts' \subseteq Hosts /\ ready' \subseteq Hosts
        /\ proc' \in [Hosts -> {"free", "up", "killed", "gone"}]
    BY <1>2, ReleaseType DEF StopEnd
  <2>2. serves' \in [Hosts -> SUBSET Agents]
    BY <1>2 DEF StopEnd
  <2>3. sessionAgent' \in [Sessions -> Agents \cup {None}]
    BY <1>2 DEF StopEnd
  <2> QED BY <1>2, <2>1, <2>2, <2>3 DEF StopEnd
<1>3. ASSUME NEW h \in Hosts, HostExit(h) PROVE LifeTypeOK'
  BY <1>3 DEF HostExit
<1>4. ASSUME NEW d \in Devices, RevokeDevice(d) PROVE LifeTypeOK'
  BY <1>4 DEF RevokeDevice
<1>5. CASE Shutdown
  BY <1>5 DEF Shutdown
<1>6. CASE NextDaemon
  <2>1. call' \in [Agents -> {NoCall, EndedCall} \cup Calls]
    BY <1>6 DEF NextDaemon
  <2>2. queue' \in [Agents -> Seq(Devices)] /\ serves' \in [Hosts -> SUBSET Agents]
    BY <1>6 DEF NextDaemon
  <2> QED BY <1>6, <2>1, <2>2 DEF NextDaemon
<1> QED BY <1>1, <1>2, <1>3, <1>4, <1>5, <1>6

LEMMA TypeStep == ASSUME LifeTypeOK, LifeMoves PROVE LifeTypeOK'
<1>1. CASE UNCHANGED lifeRest
  BY <1>1 DEF lifeRest, rows, machines, routes, work, LifeTypeOK
<1>2. ASSUME NEW a \in Agents, NEW d \in Devices, Requested(a, d) PROVE LifeTypeOK'
  <2>1. ASSUME NEW s \in Sessions \cup {None}, ReuseHost(a, d, s) PROVE LifeTypeOK'
    <3>1. PICK h \in Hosts : TRUE
      BY <2>1 DEF ReuseHost, Reusable, LifeTypeOK
    <3> QED BY <2>1, TypeBegin
  <2> QED BY <1>2, <2>1, TypeBegin, TypePrompt, TypeEnd DEF Requested
<1>3. ASSUME NEW a \in Agents, Continued(a) PROVE LifeTypeOK'
  BY <1>3, TypeContinued, TypeTurnEnds, TypeEnd DEF Continued
<1> QED BY <1>1, <1>2, <1>3, TypeEnd DEF LifeMoves, LifeNext, RunningNext

(* The lifecycle never writes "waiting" and never removes a row.           *)
LEMMA LifecycleWrites ==
  ASSUME NEW S, {"starting", "idle", "busy"} \cup Terminal \subseteq S,
         state \in [Agents -> S], LifeNext
  PROVE  /\ state' \in [Agents -> S]
         /\ \A a \in Agents : state'[a] = state[a] \/ state'[a] \notin {"none", "waiting"}
<1>1. ASSUME UNCHANGED state
      PROVE  /\ state' \in [Agents -> S]
             /\ \A a \in Agents : state'[a] = state[a] \/ state'[a] \notin {"none", "waiting"}
  BY <1>1
<1>2. ASSUME NEW a \in Agents, NEW x \in {"starting", "idle", "busy", "stopped", "failed"},
             state' = [state EXCEPT ![a] = x]
      PROVE  /\ state' \in [Agents -> S]
             /\ \A b \in Agents : state'[b] = state[b] \/ state'[b] \notin {"none", "waiting"}
  BY <1>2 DEF Terminal
<1>3. ASSUME NEW x \in {"stopped", "failed"}, NEW A,
             state' = [a \in Agents |-> IF a \in A THEN x ELSE state[a]]
      PROVE  /\ state' \in [Agents -> S]
             /\ \A b \in Agents : state'[b] = state[b] \/ state'[b] \notin {"none", "waiting"}
  BY <1>3 DEF Terminal
<1>4. ASSUME NEW a \in Agents, NEW d \in Devices, Requested(a, d)
      PROVE  UNCHANGED state \/ state' = [state EXCEPT ![a] = "busy"]
  BY <1>4 DEF Requested, ReuseHost, SpawnHost, TakeOver, Prompt, FollowUp, StopBegin
<1>5. ASSUME NEW a \in Agents, Continued(a)
      PROVE  \/ UNCHANGED state
             \/ \E x \in {"starting", "idle", "busy", "stopped", "failed"} :
                   state' = [state EXCEPT ![a] = x]
  BY <1>5 DEF Continued, HostStarted, HostNotStarted, Bind, Opened, OpenOk, OpenFailed,
              TurnEnds, TurnAbandoned, TurnEndsIdle, TurnEndsNext, TurnEndsRefused, StopEnd
<1>6. ASSUME NEW h \in Hosts, HostExit(h)
      PROVE  \E A \in SUBSET Agents : state' = [a \in Agents |-> IF a \in A THEN "failed" ELSE state[a]]
  <2> WITNESS {a \in Agents : h \in hosts /\ a \in serves[h]} \in SUBSET Agents
  <2> QED BY <1>6 DEF HostExit
<1>7. ASSUME Shutdown
      PROVE  \E A \in SUBSET Agents : state' = [a \in Agents |-> IF a \in A THEN "stopped" ELSE state[a]]
  <2> WITNESS {a \in Agents : (\E h \in hosts : a \in serves[h]) /\ state[a] \notin Terminal}
              \in SUBSET Agents
  <2> QED BY <1>7 DEF Shutdown
<1>8. ASSUME NextDaemon
      PROVE  \E A \in SUBSET Agents : state' = [a \in Agents |-> IF a \in A THEN "stopped" ELSE state[a]]
  <2> WITNESS {a \in Agents : state[a] \notin Terminal \cup {"none"}} \in SUBSET Agents
  <2> QED BY <1>8 DEF NextDaemon
<1>9. ASSUME NEW d \in Devices, RevokeDevice(d) PROVE UNCHANGED state
  BY <1>9 DEF RevokeDevice
<1> QED BY <1>1, <1>2, <1>3, <1>4, <1>5, <1>6, <1>7, <1>8, <1>9 DEF LifeNext, RunningNext

(* Every reachable state of the lifecycle is well typed; in particular a   *)
(* row is never "waiting" without the gate.                                *)
THEOREM TypeCorrect == LifeSpec => []LifecycleTypeOK
<1>1. LifeInit => LifecycleTypeOK
  <2>1. LifeInit => StateOK
    BY DEF LifeInit, StateOK, LifeStates
  <2> QED BY <2>1, TypeInit DEF LifecycleTypeOK
<1>2. LifecycleTypeOK /\ [LifeNext]_lifeVars => LifecycleTypeOK'
  <2> SUFFICES ASSUME LifecycleTypeOK, [LifeNext]_lifeVars PROVE LifecycleTypeOK'
    OBVIOUS
  <2>1. LifeTypeOK'
    BY TypeStep, MovesAlone DEF LifecycleTypeOK
  <2>2. StateOK'
    BY LifecycleWrites DEF LifecycleTypeOK, StateOK, LifeStates, lifeVars
  <2> QED BY <2>1, <2>2 DEF LifecycleTypeOK
<1> QED BY <1>1, <1>2, PTL DEF LifeSpec

-----------------------------------------------------------------------------
(***************************************************************************)
(* An agent whose create, resume or takeover has not ended is nobody yet:  *)
(* it holds no session, no host and no turn.  Every invariant below needs  *)
(* it, because OpenOk starts from such an agent.                           *)
(***************************************************************************)
Fresh(a) ==
  session[a] = None /\ agentHost[a] = None /\ turns[a] = 0 /\ inFlight[a] = 0

FreshInv == LifeTypeOK /\ \A a \in Agents : call[a] # EndedCall => Fresh(a)

LEMMA FreshInit == ASSUME LifeInit PROVE FreshInv
  BY TypeInit DEF LifeInit, FreshInv, Fresh

(* An agent that resolves has an ended call.                               *)
LEMMA ResolvesEnded ==
  ASSUME FreshInv, NEW a \in Agents, Resolves(a) PROVE call[a] = EndedCall
  BY NoneAssumption DEF FreshInv, Fresh, Resolves, LifeTypeOK

LEMMA FreshStep == ASSUME FreshInv, LifeMoves PROVE FreshInv'
<1>1. LifeTypeOK'
  BY TypeStep DEF FreshInv
<1> SUFFICES ASSUME NEW b \in Agents, call'[b] # EndedCall PROVE Fresh(b)'
  BY <1>1 DEF FreshInv
<1> USE DEF FreshInv, Fresh, LifeTypeOK, rows, machines, routes, work
<1>2. ASSUME UNCHANGED <<session, agentHost, turns, inFlight, call>> PROVE Fresh(b)'
  BY <1>2
<1>3. ASSUME NEW a \in Agents, NEW d \in Devices, Requested(a, d) PROVE Fresh(b)'
  <2>1. ASSUME NEW s \in Sessions \cup {None}, ReuseHost(a, d, s) PROVE Fresh(b)'
    BY <2>1 DEF ReuseHost, Begin, NoCall, EndedCall
  <2>2. ASSUME NEW s \in Sessions \cup {None}, NEW h \in Hosts, SpawnHost(a, d, s, h)
        PROVE  Fresh(b)'
    BY <2>2 DEF SpawnHost, Begin, NoCall, EndedCall
  <2>3. ASSUME NEW s \in Sessions \cup {None}, NEW h \in Hosts, TakeOver(a, d, s, h)
        PROVE  Fresh(b)'
    BY <2>3 DEF TakeOver, Begin, NoCall, EndedCall
  <2>4. CASE Prompt(a, d)
    BY <2>4, ResolvesEnded DEF Prompt
  <2>5. CASE FollowUp(a, d)
    BY <2>5, <1>2 DEF FollowUp
  <2>6. CASE StopBegin(a, d)
    BY <2>6, <1>2 DEF StopBegin
  <2> QED BY <1>3, <2>1, <2>2, <2>3, <2>4, <2>5, <2>6 DEF Requested
<1>4. ASSUME NEW a \in Agents, Continued(a) PROVE Fresh(b)'
  <2>1. CASE HostStarted(a)
    BY <2>1, CallType DEF HostStarted
  <2>2. CASE HostNotStarted(a)
    BY <2>2 DEF HostNotStarted
  <2>3. CASE Bind(a)
    BY <2>3, CallType DEF Bind
  <2>4. ASSUME NEW s \in Sessions, OpenOk(a, s) PROVE Fresh(b)'
    BY <2>4 DEF OpenOk
  <2>5. CASE OpenFailed(a)
    BY <2>5 DEF OpenFailed
  <2>6. CASE TurnEnds(a)
    <3>1. turns[a] > 0
      BY <2>6 DEF TurnEnds, TurnAbandoned, TurnEndsIdle, TurnEndsNext, TurnEndsRefused
    <3>2. call[a] = EndedCall
      BY <3>1
    <3>3. /\ UNCHANGED <<session, agentHost, call>>
          /\ \A c \in Agents \ {a} : turns'[c] = turns[c] /\ inFlight'[c] = inFlight[c]
      BY <2>6 DEF TurnEnds, TurnAbandoned, TurnEndsIdle, TurnEndsNext, TurnEndsRefused
    <3> QED BY <3>2, <3>3
  <2>7. CASE StopEnd(a)
    BY <2>7 DEF StopEnd
  <2> QED BY <1>4, <2>1, <2>2, <2>3, <2>4, <2>5, <2>6, <2>7 DEF Continued, Opened
<1>5. ASSUME NEW h \in Hosts, HostExit(h) PROVE Fresh(b)'
  BY <1>5, <1>2 DEF HostExit
<1>6. ASSUME NEW d \in Devices, RevokeDevice(d) PROVE Fresh(b)'
  BY <1>6, <1>2 DEF RevokeDevice
<1>7. CASE Shutdown
  BY <1>7 DEF Shutdown
<1>8. CASE NextDaemon
  BY <1>8 DEF NextDaemon
<1>9. CASE UNCHANGED lifeRest
  BY <1>9, <1>2 DEF lifeRest
<1> QED BY <1>3, <1>4, <1>5, <1>6, <1>7, <1>8, <1>9 DEF LifeMoves, LifeNext, RunningNext

-----------------------------------------------------------------------------
(***************************************************************************)
(* Turns.  Only of an agent that its host still serves is the count exact: *)
(* stopAgent clears that of a turn that is still unwinding.                *)
(***************************************************************************)
TurnInv == FreshInv /\ TurnsCounted

LEMMA TurnsInit == ASSUME LifeInit PROVE TurnsCounted
<1>1. ASSUME NEW a \in Agents PROVE inFlight[a] = 0 /\ turns[a] = 0
  BY <1>1 DEF LifeInit
<1>2. \A h \in Hosts : serves[h] = {}
  BY DEF LifeInit
<1> QED BY <1>1, <1>2 DEF TurnsCounted

(* No count without its turn: what clears the one does not keep the other. *)
LEMMA CountBounded ==
  ASSUME LifeTypeOK, LifeMoves, NEW b \in Agents, inFlight[b] <= turns[b]
  PROVE  inFlight'[b] <= turns'[b]
<1> USE DEF LifeTypeOK, rows, machines, routes, work
<1>1. ASSUME UNCHANGED <<turns, inFlight>> PROVE inFlight'[b] <= turns'[b]
  BY <1>1
<1>2. ASSUME NEW a \in Agents, NEW d \in Devices, Requested(a, d)
      PROVE  inFlight'[b] <= turns'[b]
  <2>1. CASE Prompt(a, d)
    <3>1. CASE b = a
      <4>1. /\ inFlight' = [inFlight EXCEPT ![a] = @ + 1]
            /\ turns' = [turns EXCEPT ![a] = @ + 1]
        BY <2>1 DEF Prompt
      <4>2. inFlight[b] \in {0, 1} /\ turns[b] \in Nat
        OBVIOUS
      <4>3. inFlight'[b] = inFlight[b] + 1
        BY <3>1, <4>1
      <4>4. turns'[b] = turns[b] + 1
        BY <3>1, <4>1
      <4> QED BY <4>2, <4>3, <4>4
    <3>2. CASE b # a
      BY <2>1, <3>2 DEF Prompt
    <3> QED BY <3>1, <3>2
  <2>2. ASSUME ~Prompt(a, d) PROVE UNCHANGED <<turns, inFlight>>
    BY <1>2, <2>2 DEF Requested, ReuseHost, SpawnHost, TakeOver, FollowUp, StopBegin
  <2> QED BY <1>1, <2>1, <2>2
<1>3. ASSUME NEW a \in Agents, Continued(a) PROVE inFlight'[b] <= turns'[b]
  <2>1. CASE TurnEnds(a) \/ StopEnd(a)
    <3>1. /\ \A c \in Agents \ {a} : turns'[c] = turns[c] /\ inFlight'[c] = inFlight[c]
          /\ \/ turns'[a] \in Nat /\ inFlight'[a] = 0
             \/ turns'[a] = turns[a] /\ turns[a] > 0 /\ inFlight'[a] = 1
      BY <2>1 DEF TurnEnds, TurnAbandoned, TurnEndsIdle, TurnEndsNext, TurnEndsRefused, StopEnd
    <3>2. CASE b = a
      BY <3>1, <3>2
    <3>3. CASE b # a
      BY <3>1, <3>3
    <3> QED BY <3>2, <3>3
  <2>2. ASSUME ~(TurnEnds(a) \/ StopEnd(a)) PROVE UNCHANGED <<turns, inFlight>>
    BY <1>3, <2>2 DEF Continued, HostStarted, HostNotStarted, Bind, Opened, OpenOk, OpenFailed
  <2> QED BY <1>1, <2>1, <2>2
<1>4. CASE (\E h \in Hosts : HostExit(h)) \/ \E d \in Devices : RevokeDevice(d)
  BY <1>4, <1>1 DEF HostExit, RevokeDevice
<1>5. CASE Shutdown \/ NextDaemon
  BY <1>5 DEF Shutdown, NextDaemon
<1>6. CASE UNCHANGED lifeRest
  BY <1>1, <1>6 DEF lifeRest
<1> QED BY <1>2, <1>3, <1>4, <1>5, <1>6 DEF LifeMoves, LifeNext, RunningNext

(* What a step must leave alone to keep the count of agent a.              *)
LEMMA CountKept ==
  ASSUME TurnInv, NEW a \in Agents, NEW h \in Hosts, ~closing,
         agentHost'[a] = agentHost[a], serves'[h] \subseteq serves[h],
         turns'[a] = turns[a], inFlight'[a] = inFlight[a],
         agentHost'[a] = h, a \in serves'[h]
  PROVE  turns'[a] = inFlight'[a] /\ turns'[a] <= 1
  BY DEF TurnInv, TurnsCounted

LEMMA TurnStep == ASSUME TurnInv, LifeMoves PROVE TurnInv'
<1>1. FreshInv'
  BY FreshStep DEF TurnInv
<1>0. \A b \in Agents : inFlight'[b] <= turns'[b]
  BY CountBounded DEF TurnInv, TurnsCounted, FreshInv
<1> SUFFICES ASSUME NEW b \in Agents, NEW k \in Hosts,
                    ~closing', agentHost'[b] = k, b \in serves'[k]
             PROVE  turns'[b] = inFlight'[b] /\ turns'[b] <= 1
  BY <1>0, <1>1 DEF TurnInv, TurnsCounted
<1> USE DEF FreshInv, LifeTypeOK, rows, machines, routes, work
<1>2. ASSUME UNCHANGED <<agentHost, serves, turns, inFlight, closing>>
      PROVE  turns'[b] = inFlight'[b] /\ turns'[b] <= 1
  BY <1>2, CountKept DEF TurnInv
<1>3. ASSUME NEW a \in Agents, NEW d \in Devices, Requested(a, d)
      PROVE  turns'[b] = inFlight'[b] /\ turns'[b] <= 1
  <2>1. CASE Prompt(a, d)
    <3>1. CASE b = a
      <4>1. turns[a] = inFlight[a] /\ inFlight[a] = 0
        BY <2>1, <3>1 DEF Prompt, Free, TurnInv, TurnsCounted
      <4> QED BY <2>1, <3>1, <4>1 DEF Prompt, TurnInv
    <3>2. CASE b # a
      BY <2>1, <3>2, CountKept DEF Prompt, TurnInv
    <3> QED BY <3>1, <3>2
  <2>2. CASE FollowUp(a, d) \/ StopBegin(a, d)
    BY <2>2, <1>2 DEF FollowUp, StopBegin
  <2>3. ASSUME NEW s \in Sessions \cup {None},
               ReuseHost(a, d, s) \/ \E h \in Hosts : SpawnHost(a, d, s, h) \/ TakeOver(a, d, s, h)
        PROVE  turns'[b] = inFlight'[b] /\ turns'[b] <= 1
    BY <2>3, <1>2 DEF ReuseHost, SpawnHost, TakeOver
  <2> QED BY <1>3, <2>1, <2>2, <2>3 DEF Requested
<1>4. ASSUME NEW a \in Agents, Continued(a)
      PROVE  turns'[b] = inFlight'[b] /\ turns'[b] <= 1
  <2>1. CASE HostStarted(a) \/ HostNotStarted(a) \/ Bind(a) \/ OpenFailed(a)
    BY <2>1, <1>2 DEF HostStarted, HostNotStarted, Bind, OpenFailed
  <2>2. ASSUME NEW s \in Sessions, OpenOk(a, s)
        PROVE  turns'[b] = inFlight'[b] /\ turns'[b] <= 1
    <3>1. CASE b = a
      <4>1. turns[a] = 0 /\ inFlight[a] = 0
        BY <2>2, CallType DEF OpenOk, TurnInv, Fresh
      <4> QED BY <2>2, <3>1, <4>1 DEF OpenOk
    <3>2. CASE b # a
      <4>1. /\ UNCHANGED <<turns, inFlight, closing>>
            /\ agentHost'[b] = agentHost[b] /\ b \in serves[k]
        BY <2>2, <3>2 DEF OpenOk, TurnInv
      <4> QED BY <4>1 DEF TurnInv, TurnsCounted
    <3> QED BY <3>1, <3>2
  <2>3. CASE TurnEnds(a)
    <3>1. /\ turns[a] > 0
          /\ UNCHANGED <<agentHost, serves, closing>>
          /\ \A c \in Agents \ {a} : turns'[c] = turns[c] /\ inFlight'[c] = inFlight[c]
          /\ \/ turns'[a] = turns[a] - 1 /\ inFlight'[a] = 0
             \/ turns'[a] = turns[a] /\ inFlight'[a] = 1
      BY <2>3 DEF TurnEnds, TurnAbandoned, TurnEndsIdle, TurnEndsNext, TurnEndsRefused, TurnInv
    <3>2. CASE b = a
      <4>1. turns[a] <= 1 /\ turns[a] \in Nat
        BY <3>1, <3>2 DEF TurnInv, TurnsCounted
      <4> QED BY <3>1, <3>2, <4>1
    <3>3. CASE b # a
      BY <3>1, <3>3, CountKept
    <3> QED BY <3>2, <3>3
  <2>4. CASE StopEnd(a)
    <3>1. b # a
      BY <2>4 DEF StopEnd, TurnInv
    <3>2. UNCHANGED <<agentHost, turns, closing>> /\ inFlight'[b] = inFlight[b] /\ b \in serves[k]
      BY <2>4, <3>1 DEF StopEnd, TurnInv
    <3> QED BY <3>2 DEF TurnInv, TurnsCounted
  <2> QED BY <1>4, <2>1, <2>2, <2>3, <2>4 DEF Continued, Opened
<1>5. CASE (\E h \in Hosts : HostExit(h)) \/ \E d \in Devices : RevokeDevice(d)
  BY <1>5, <1>2 DEF HostExit, RevokeDevice
<1>6. CASE Shutdown
  BY <1>6 DEF Shutdown
<1>7. CASE NextDaemon
  BY <1>7 DEF NextDaemon
<1>8. CASE UNCHANGED lifeRest
  BY <1>8, <1>2 DEF lifeRest
<1> QED BY <1>3, <1>4, <1>5, <1>6, <1>7, <1>8 DEF LifeMoves, LifeNext, RunningNext

(* An agent that is served has at most one turn, and the daemon's count of *)
(* it is the truth.                                                        *)
THEOREM TurnsAreCounted == LifeSpec => []TurnsCounted
<1>1. LifeInit => TurnInv
  BY FreshInit, TurnsInit DEF TurnInv
<1>2. TurnInv => TurnsCounted
  BY DEF TurnInv
<1> QED BY <1>1, <1>2, TurnStep, MovesAlone, PTL DEF LifeSpec

-----------------------------------------------------------------------------
(***************************************************************************)
(* Routes.  Inductive with Fresh: an agent that opens a session holds no   *)
(* other, so neither success nor failure leaves it an old route.           *)
(***************************************************************************)
RouteInv == FreshInv /\ RoutedToHolder

(* The two reasons for a route.                                            *)
Holds(s, a) ==
  \/ session[a] = s
  \/ call[a] \in Calls /\ call[a].phase = "open" /\ call[a].session = s

LEMMA RouteStep == ASSUME RouteInv, LifeMoves PROVE RouteInv'
<1>1. FreshInv'
  BY FreshStep DEF RouteInv
<1> SUFFICES ASSUME NEW s \in Sessions, NEW b \in Agents, sessionAgent'[s] = b
             PROVE  Holds(s, b)'
  BY <1>1 DEF RouteInv, RoutedToHolder, Holds
<1>2. sessionAgent[s] = b => Holds(s, b)
  BY DEF RouteInv, RoutedToHolder, Holds
<1> USE DEF RouteInv, FreshInv, LifeTypeOK, rows, machines, routes, work
<1>3. ASSUME UNCHANGED <<session, sessionAgent, call>> PROVE Holds(s, b)'
  BY <1>2, <1>3 DEF Holds
<1>4. ASSUME NEW a \in Agents, UNCHANGED <<session, sessionAgent>>,
             \A c \in Agents \ {a} : call'[c] = call[c],
             call[a] = NoCall \/ (call[a] \in Calls /\ call[a].phase = "spawn")
      PROVE  Holds(s, b)'
  BY <1>2, <1>4, CallType DEF Holds, NoCall
<1>5. ASSUME NEW a \in Agents, NEW d \in Devices, Requested(a, d) PROVE Holds(s, b)'
  <2>1. CASE Prompt(a, d) \/ FollowUp(a, d) \/ StopBegin(a, d)
    BY <2>1, <1>3 DEF Prompt, FollowUp, StopBegin
  <2>2. ASSUME NEW t \in Sessions \cup {None}, ReuseHost(a, d, t) PROVE Holds(s, b)'
    <3>1. UNCHANGED <<session, sessionAgent>> /\ call[a] = NoCall
      BY <2>2 DEF ReuseHost, Begin
    <3>2. \A c \in Agents \ {a} : call'[c] = call[c]
      BY <2>2 DEF ReuseHost
    <3>3. Holds(s, b)
      BY <3>1, <1>2
    <3> QED BY <3>1, <3>2, <3>3, CallType DEF Holds, NoCall
  <2>3. ASSUME NEW t \in Sessions \cup {None}, NEW h \in Hosts, SpawnHost(a, d, t, h)
        PROVE  Holds(s, b)'
    <3>1. UNCHANGED <<session, sessionAgent>> /\ call[a] = NoCall
      BY <2>3 DEF SpawnHost, Begin
    <3>2. \A c \in Agents \ {a} : call'[c] = call[c]
      BY <2>3 DEF SpawnHost
    <3>3. Holds(s, b)
      BY <3>1, <1>2
    <3> QED BY <3>1, <3>2, <3>3, CallType DEF Holds, NoCall
  <2>4. ASSUME NEW t \in Sessions \cup {None}, NEW h \in Hosts, TakeOver(a, d, t, h)
        PROVE  Holds(s, b)'
    <3>1. UNCHANGED <<session, sessionAgent>> /\ call[a] = NoCall
      BY <2>4 DEF TakeOver, Begin
    <3>2. \A c \in Agents \ {a} : call'[c] = call[c]
      BY <2>4 DEF TakeOver
    <3>3. Holds(s, b)
      BY <3>1, <1>2
    <3> QED BY <3>1, <3>2, <3>3, CallType DEF Holds, NoCall
  <2> QED BY <1>5, <2>1, <2>2, <2>3, <2>4 DEF Requested
<1>6. ASSUME NEW a \in Agents, Continued(a) PROVE Holds(s, b)'
  <2>1. CASE HostStarted(a)
    BY <2>1, <1>4 DEF HostStarted
  <2>2. CASE HostNotStarted(a)
    BY <2>2, <1>4 DEF HostNotStarted
  <2>3. CASE Bind(a)
    <3>1. call[a] \in Calls /\ call[a].phase = "picked"
      BY <2>3 DEF Bind
    <3>2. call' = [call EXCEPT ![a] = [call[a] EXCEPT !.phase = "open"]]
      BY <2>3 DEF Bind
    <3>3. call'[a] = [call[a] EXCEPT !.phase = "open"]
      BY <3>2
    <3>4. call'[a] \in Calls /\ call'[a].phase = "open" /\ call'[a].session = call[a].session
      BY <3>1, <3>3, CallType DEF Calls
    <3>5. CASE s = call[a].session
      BY <2>3, <3>4, <3>5 DEF Bind, Holds
    <3>6. CASE s # call[a].session
      <4>1. Holds(s, b)
        BY <2>3, <3>6, <1>2 DEF Bind
      <4>2. session'[b] = session[b] /\ (b # a => call'[b] = call[b])
        BY <2>3, <3>2 DEF Bind
      <4> QED BY <3>1, <4>1, <4>2 DEF Holds
    <3> QED BY <3>5, <3>6
  <2>4. ASSUME NEW t \in Sessions, OpenOk(a, t) PROVE Holds(s, b)'
    <3>1. call[a] \in Calls /\ session[a] = None /\ s # None
      BY <2>4, CallType, NoneAssumption DEF OpenOk, RouteInv, Fresh
    <3>2. CASE s = t
      <4>1. b = a /\ session'[a] = t
        BY <2>4, <3>2 DEF OpenOk
      <4> QED BY <3>2, <4>1 DEF Holds
    <3>3. CASE s # t
      <4>1. Holds(s, b)
        BY <2>4, <3>3, <1>2 DEF OpenOk
      <4>2. b # a
        BY <2>4, <3>1, <3>3, <4>1 DEF OpenOk, Holds
      <4> QED BY <2>4, <4>1, <4>2 DEF OpenOk, Holds
    <3> QED BY <3>2, <3>3
  <2>5. CASE OpenFailed(a)
    <3>1. call[a] \in Calls /\ session[a] = None /\ s # None
      BY <2>5, CallType, NoneAssumption DEF OpenFailed, RouteInv, Fresh
    <3>2. sessionAgent[s] = b /\ ~(s = call[a].session /\ b = a)
      BY <2>5, NoneAssumption DEF OpenFailed, TakeBackRoute
    <3>3. b # a
      BY <1>2, <3>1, <3>2 DEF Holds
    <3> QED BY <2>5, <1>2, <3>2, <3>3 DEF OpenFailed, Holds
  <2>6. CASE TurnEnds(a)
    BY <2>6, <1>3 DEF TurnEnds, TurnAbandoned, TurnEndsIdle, TurnEndsNext, TurnEndsRefused
  <2>7. CASE StopEnd(a)
    <3>1. sessionAgent[s] = b
      BY <2>7, NoneAssumption DEF StopEnd
    <3> QED BY <2>7, <1>2, <3>1 DEF StopEnd, Holds
  <2> QED BY <1>6, <2>1, <2>2, <2>3, <2>4, <2>5, <2>6, <2>7 DEF Continued, Opened
<1>7. CASE Shutdown \/ (\E h \in Hosts : HostExit(h)) \/ \E d \in Devices : RevokeDevice(d)
  BY <1>7, <1>3 DEF Shutdown, HostExit, RevokeDevice
<1>8. CASE NextDaemon
  BY <1>8, NoneAssumption DEF NextDaemon
<1>9. CASE UNCHANGED lifeRest
  BY <1>9, <1>3 DEF lifeRest
<1> QED BY <1>5, <1>6, <1>7, <1>8, <1>9 DEF LifeMoves, LifeNext, RunningNext

(* A session is only ever routed to the agent that holds it or opens it.   *)
THEOREM RoutesAreHeld == LifeSpec => []RoutedToHolder
<1>1. LifeInit => RouteInv
  BY FreshInit, NoneAssumption DEF LifeInit, RouteInv, RoutedToHolder
<1>2. RouteInv => RoutedToHolder
  BY DEF RouteInv
<1> QED BY <1>1, <1>2, RouteStep, MovesAlone, PTL DEF LifeSpec

-----------------------------------------------------------------------------
(***************************************************************************)
(* A turn needs a device that is not revoked and a host in the table.  No  *)
(* invariant is needed but types: a turn more only comes from prompt, and  *)
(* a shorter queue with a turn in flight only from the dispatch of a       *)
(* follow-up, which asks all of it again.                                  *)
(***************************************************************************)
LEMMA AuthorizedStep ==
  ASSUME LifeTypeOK, LifeNext, NEW b \in Agents, turns'[b] > turns[b] \/ Dispatched(b)
  PROVE  /\ promptedBy'[b] \notin revoked /\ agentHost[b] \in hosts
         /\ Dispatched(b) => state[b] \notin Terminal
<1> DEFINE Right == /\ promptedBy'[b] \notin revoked /\ agentHost[b] \in hosts
                    /\ Dispatched(b) => state[b] \notin Terminal
<1> USE DEF LifeTypeOK, rows, machines, routes, work
<1>1. turns[b] \in Nat /\ Len(queue[b]) \in Nat
  OBVIOUS
<1>2. ASSUME turns'[b] = turns[b], queue'[b] = queue[b] PROVE Right
  BY <1>1, <1>2 DEF Dispatched
<1>3. ASSUME NEW a \in Agents, NEW d \in Devices, Requested(a, d) PROVE Right
  <2>1. CASE Prompt(a, d)
    <3>1. queue' = queue
      BY <2>1 DEF Prompt
    <3>2. CASE b = a
      BY <1>1, <2>1, <3>1, <3>2 DEF Prompt, Authorized, Resolves, Dispatched
    <3>3. CASE b # a
      BY <1>2, <2>1, <3>1, <3>3 DEF Prompt
    <3> QED BY <3>2, <3>3
  <2>2. CASE FollowUp(a, d)
    <3>1. turns' = turns /\ Len(queue'[b]) >= Len(queue[b]) /\ Len(queue'[b]) \in Nat
      BY <2>2 DEF FollowUp
    <3> QED BY <1>1, <3>1 DEF Dispatched
  <2>3. ASSUME ~Prompt(a, d), ~FollowUp(a, d) PROVE UNCHANGED <<turns, queue>>
    BY <1>3, <2>3 DEF Requested, ReuseHost, SpawnHost, TakeOver, StopBegin
  <2> QED BY <1>2, <2>1, <2>2, <2>3
<1>4. ASSUME NEW a \in Agents, Continued(a) PROVE Right
  <2>1. CASE TurnEndsNext(a)
    <3>1. CASE b = a
      BY <2>1, <3>1 DEF TurnEndsNext, Dispatchable, Authorized, Resolves
    <3>2. CASE b # a
      BY <1>2, <2>1, <3>2 DEF TurnEndsNext
    <3> QED BY <3>1, <3>2
  <2>2. CASE TurnAbandoned(a) \/ TurnEndsIdle(a) \/ TurnEndsRefused(a) \/ StopEnd(a)
    <3>1. /\ inFlight'[a] = 0 /\ turns'[a] <= turns[a]
          /\ \A c \in Agents \ {a} : turns'[c] = turns[c] /\ queue'[c] = queue[c]
      BY <2>2 DEF TurnAbandoned, TurnEndsIdle, TurnEndsRefused, StopEnd
    <3>2. CASE b = a
      <4>1. turns'[a] \in Nat
        BY <2>2 DEF TurnAbandoned, TurnEndsIdle, TurnEndsRefused, StopEnd
      <4> QED BY <1>1, <3>1, <3>2, <4>1 DEF Dispatched
    <3>3. CASE b # a
      BY <1>2, <3>1, <3>3
    <3> QED BY <3>2, <3>3
  <2>3. ASSUME ~TurnEnds(a), ~StopEnd(a) PROVE UNCHANGED <<turns, queue>>
    BY <1>4, <2>3 DEF Continued, HostStarted, HostNotStarted, Bind, Opened, OpenOk, OpenFailed
  <2> QED BY <1>2, <1>4, <2>1, <2>2, <2>3 DEF TurnEnds
<1>5. CASE (\E h \in Hosts : HostExit(h)) \/ \E d \in Devices : RevokeDevice(d)
  BY <1>2, <1>5 DEF HostExit, RevokeDevice
<1>6. CASE Shutdown \/ NextDaemon
  BY <1>1, <1>6 DEF Shutdown, NextDaemon, Dispatched
<1> QED BY <1>3, <1>4, <1>5, <1>6 DEF LifeNext, RunningNext

(* Every turn, a direct prompt's as well as a follow-up's, starts for a    *)
(* device that is not revoked at that moment and on a host in the table,   *)
(* and none comes from the queue of an agent that has ended.               *)
THEOREM TurnsAreAuthorized == LifeSpec => AuthorizedTurn
<1>1. ASSUME LifeTypeOK, [LifeNext]_lifeVars
      PROVE  [\A a \in Agents :
                /\ turns'[a] > turns[a] \/ Dispatched(a)
                     => promptedBy'[a] \notin revoked /\ agentHost[a] \in hosts
                /\ Dispatched(a) => state[a] \notin Terminal]_lifeVars
  BY <1>1, AuthorizedStep
<1> QED BY <1>1, TypeInit, TypeStep, MovesAlone, PTL DEF LifeSpec, AuthorizedTurn

-----------------------------------------------------------------------------
(***************************************************************************)
(* Hosts.  A host that is in the table, or that a call names, has been     *)
(* started, so a new host is nobody's; two calls that are starting a host  *)
(* start different ones; and a process that was spawned, not adopted, is   *)
(* in the table only once it is initialised.  Without the last two, the    *)
(* failure of one call could leave the host of another behind.             *)
(***************************************************************************)
Spawning(a) == call[a] \in Calls /\ call[a].phase = "spawn"

HostInv ==
  /\ LifeTypeOK
  /\ \A h \in hosts : proc[h] # "free"
  /\ \A a \in Agents : call[a] \in Calls => proc[call[a].host] # "free"
  /\ \A a, b \in Agents :
       Spawning(a) /\ Spawning(b) /\ call[a].host = call[b].host => a = b
  /\ \A a \in Agents : Spawning(a) /\ ~call[a].takeover => call[a].host \notin hosts

LEMMA HostInit == ASSUME LifeInit PROVE HostInv
<1>1. \A a \in Agents : call[a] = NoCall
  BY DEF LifeInit
<1> QED BY <1>1, TypeInit, CallType DEF LifeInit, HostInv, Spawning

(* A step that starts no process, adds no host and moves no call into      *)
(* another host or back to "spawn".                                        *)
LEMMA HostKept ==
  ASSUME HostInv, LifeTypeOK', hosts' \subseteq hosts,
         \A h \in Hosts : proc[h] # "free" => proc'[h] # "free",
         \A a \in Agents : call'[a] \in Calls =>
            /\ call[a] \in Calls /\ call'[a].host = call[a].host
            /\ call'[a].phase = "spawn" => call'[a] = call[a]
  PROVE  HostInv'
<1> USE DEF HostInv, Spawning
<1>1. \A h \in hosts' : proc'[h] # "free"
  BY DEF LifeTypeOK
<1>2. \A a \in Agents : call'[a] \in Calls => proc'[call'[a].host] # "free"
  BY CallType
<1> QED BY <1>1, <1>2

(* A new process is started for a call that had none.                      *)
LEMMA HostBegun ==
  ASSUME HostInv, LifeTypeOK', NEW a \in Agents, NEW h \in Hosts, NEW c \in Calls,
         call[a] = NoCall, proc[h] = "free",
         c.phase = "spawn", c.host = h,
         call' = [call EXCEPT ![a] = c], proc' = [proc EXCEPT ![h] = "up"],
         hosts' = IF c.takeover THEN hosts \cup {h} ELSE hosts
  PROVE  HostInv'
<1> USE DEF HostInv, LifeTypeOK
<1>1. \A k \in Hosts : proc[k] # "free" => proc'[k] # "free" /\ k # h
  OBVIOUS
<1>2. proc'[h] = "up" /\ call'[a] = c /\ \A b \in Agents \ {a} : call'[b] = call[b]
  OBVIOUS
<1>3. \A b \in Agents : b # a /\ call'[b] \in Calls => call'[b].host # h
  BY <1>1, <1>2, CallType
<1>4. \A k \in hosts' : proc'[k] # "free"
  BY <1>1, <1>2
<1>5. \A b \in Agents : call'[b] \in Calls => proc'[call'[b].host] # "free"
  BY <1>1, <1>2, CallType
<1>6. \A b, d \in Agents :
        (Spawning(b) /\ Spawning(d) /\ call[b].host = call[d].host)' => b = d
  BY <1>2, <1>3 DEF Spawning
<1>7. \A b \in Agents : (Spawning(b) /\ ~call[b].takeover)' => call'[b].host \notin hosts'
  <2> SUFFICES ASSUME NEW b \in Agents, (Spawning(b) /\ ~call[b].takeover)'
               PROVE  call'[b].host \notin hosts'
    OBVIOUS
  <2>1. CASE b = a
    BY <1>1, <1>2, <2>1 DEF Spawning
  <2>2. CASE b # a
    BY <1>2, <1>3, <2>2 DEF Spawning
  <2> QED BY <2>1, <2>2
<1> QED BY <1>4, <1>5, <1>6, <1>7

LEMMA HostStep == ASSUME HostInv, LifeMoves PROVE HostInv'
<1>1. LifeTypeOK'
  BY TypeStep DEF HostInv
<1> USE DEF LifeTypeOK, rows, machines, routes, work
<1>2. ASSUME UNCHANGED <<hosts, proc, call>> PROVE HostInv'
  BY <1>1, <1>2 DEF HostInv, Spawning
<1>3. ASSUME NEW a \in Agents, NEW d \in Devices, NEW t \in Sessions \cup {None},
             ReuseHost(a, d, t)
      PROVE  HostInv'
  <2>1. PICK h \in Reusable :
          call' = [call EXCEPT ![a] = [phase |-> "picked", takeover |-> FALSE,
                                       host |-> h, session |-> t]]
    BY <1>3 DEF ReuseHost
  <2>2. h \in hosts /\ h \in Hosts
    BY DEF Reusable, HostInv
  <2>3. UNCHANGED <<hosts, proc>>
    BY <1>3 DEF ReuseHost
  <2>4. /\ call'[a].phase = "picked" /\ call'[a].host = h
        /\ \A b \in Agents \ {a} : call'[b] = call[b]
    BY <2>1 DEF HostInv
  <2> QED BY <1>1, <2>2, <2>3, <2>4 DEF HostInv, Spawning
<1>4. ASSUME NEW a \in Agents, NEW d \in Devices, NEW t \in Sessions \cup {None},
             NEW h \in Hosts, SpawnHost(a, d, t, h)
      PROVE  HostInv'
  <2>1. [phase |-> "spawn", takeover |-> FALSE, host |-> h, session |-> t] \in Calls
    BY DEF Calls
  <2> QED BY <1>1, <1>4, <2>1, HostBegun DEF SpawnHost, Begin
<1>5. ASSUME NEW a \in Agents, NEW d \in Devices, NEW t \in Sessions \cup {None},
             NEW h \in Hosts, TakeOver(a, d, t, h)
      PROVE  HostInv'
  <2>1. [phase |-> "spawn", takeover |-> TRUE, host |-> h, session |-> t] \in Calls
    BY <1>5 DEF Calls, TakeOver
  <2> QED BY <1>1, <1>5, <2>1, HostBegun DEF TakeOver, Begin
<1>6. ASSUME NEW a \in Agents, NEW d \in Devices,
             Prompt(a, d) \/ FollowUp(a, d) \/ StopBegin(a, d)
      PROVE  HostInv'
  BY <1>2, <1>6 DEF Prompt, FollowUp, StopBegin
<1>7. ASSUME NEW a \in Agents, HostStarted(a) PROVE HostInv'
  <2>1. /\ call[a] \in Calls /\ call[a].phase = "spawn"
        /\ hosts' = hosts \cup {call[a].host} /\ UNCHANGED proc
        /\ call' = [call EXCEPT ![a] = [call[a] EXCEPT !.phase = "picked"]]
    BY <1>7 DEF HostStarted
  <2>2. /\ call'[a].phase = "picked" /\ call'[a].host = call[a].host
        /\ \A b \in Agents \ {a} : call'[b] = call[b]
    BY <2>1, CallType DEF HostInv, Calls
  <2>3. \A b \in Agents : Spawning(b)' => b # a /\ Spawning(b) /\ call[b].host # call[a].host
    BY <2>1, <2>2 DEF HostInv, Spawning
  <2>4. \A h \in hosts' : proc'[h] # "free"
    BY <2>1 DEF HostInv
  <2>5. \A b \in Agents : call'[b] \in Calls => proc'[call'[b].host] # "free"
    BY <2>1, <2>2 DEF HostInv
  <2> QED BY <1>1, <2>1, <2>2, <2>3, <2>4, <2>5 DEF HostInv
<1>8. ASSUME NEW a \in Agents, Bind(a) PROVE HostInv'
  <2>1. /\ call[a] \in Calls /\ call'[a] = [call[a] EXCEPT !.phase = "open"]
        /\ \A b \in Agents \ {a} : call'[b] = call[b]
        /\ UNCHANGED <<hosts, proc>>
    BY <1>8 DEF Bind, HostInv
  <2>2. call'[a].phase = "open" /\ call'[a].host = call[a].host
    BY <2>1, CallType DEF Calls
  <2> QED BY <1>1, <2>1, <2>2, HostKept
<1>9. ASSUME NEW a \in Agents, HostNotStarted(a) \/ Opened(a) PROVE HostInv'
  <2>1. /\ call' = [call EXCEPT ![a] = EndedCall]
        /\ hosts' \subseteq hosts
        /\ \A h \in Hosts : proc[h] # "free" => proc'[h] # "free"
    BY <1>9 DEF HostNotStarted, Opened, OpenOk, OpenFailed, Release, HostInv
  <2>2. \A b \in Agents : call'[b] \in Calls => b # a /\ call'[b] = call[b]
    BY <2>1, CallType DEF HostInv
  <2> QED BY <1>1, <2>1, <2>2, HostKept
<1>10. ASSUME NEW a \in Agents, TurnEnds(a) PROVE HostInv'
  BY <1>2, <1>10 DEF TurnEnds, TurnAbandoned, TurnEndsIdle, TurnEndsNext, TurnEndsRefused
<1>11. ASSUME NEW a \in Agents, StopEnd(a) PROVE HostInv'
  <2>1. /\ UNCHANGED call /\ hosts' \subseteq hosts
        /\ \A h \in Hosts : proc[h] # "free" => proc'[h] # "free"
    BY <1>11 DEF StopEnd, Release, HostInv
  <2> QED BY <1>1, <2>1, HostKept
<1>12. ASSUME NEW h \in Hosts, HostExit(h) PROVE HostInv'
  <2>1. /\ UNCHANGED call /\ hosts' \subseteq hosts
        /\ \A k \in Hosts : proc[k] # "free" => proc'[k] # "free"
    BY <1>12 DEF HostExit, HostInv
  <2> QED BY <1>1, <2>1, HostKept
<1>13. ASSUME NEW d \in Devices, RevokeDevice(d) PROVE HostInv'
  BY <1>2, <1>13 DEF RevokeDevice
<1>14. CASE Shutdown
  <2>1. /\ UNCHANGED call /\ hosts' \subseteq hosts
        /\ \A k \in Hosts : proc[k] # "free" => proc'[k] # "free"
    BY <1>14 DEF Shutdown, HostInv
  <2> QED BY <1>1, <2>1, HostKept
<1>15. CASE NextDaemon
  <2>1. hosts' = {} /\ \A a \in Agents : call'[a] \in {NoCall, EndedCall}
    BY <1>15 DEF NextDaemon
  <2> QED BY <1>1, <2>1, CallType DEF HostInv, Spawning
<1>16. CASE UNCHANGED lifeRest
  BY <1>2, <1>16 DEF lifeRest
<1> QED BY <1>3, <1>4, <1>5, <1>6, <1>7, <1>8, <1>9, <1>10, <1>11, <1>12, <1>13, <1>14, <1>15, <1>16
        DEF LifeMoves, LifeNext, RunningNext, Requested, Continued

(* Somebody is served by h or needs it.                                    *)
Wanted(h) == serves[h] # {} \/ \E a \in Agents : Uses(a, h)

LEMMA WantedStep ==
  ASSUME HostInv, NoIdleHost, LifeMoves, NEW h \in hosts' PROVE Wanted(h)'
<1> USE DEF LifeTypeOK, HostInv, rows, machines, routes, work
<1>1. h \in hosts => Wanted(h)
  BY DEF NoIdleHost, Wanted
<1>2. h \in Hosts
  <2>1. LifeTypeOK'
    BY TypeStep
  <2> QED BY <2>1
<1>3. ASSUME UNCHANGED serves, h \in hosts,
             \A a \in Agents : Uses(a, h) => Uses(a, h)'
      PROVE  Wanted(h)'
  BY <1>1, <1>3 DEF Wanted
<1>4. ASSUME UNCHANGED <<serves, hosts, call>> PROVE Wanted(h)'
  BY <1>1, <1>4 DEF Wanted, Uses
<1>5. ASSUME NEW a \in Agents, NEW c \in Calls, call[a] = NoCall, UNCHANGED serves,
             call' = [call EXCEPT ![a] = c], hosts' = hosts \/ hosts' = hosts \cup {c.host}
      PROVE  Wanted(h)'
  <2>1. call'[a] = c /\ \A b \in Agents \ {a} : call'[b] = call[b]
    BY <1>5
  <2>2. CASE h = c.host
    BY <2>1, <2>2 DEF Wanted, Uses
  <2>3. CASE h \in hosts
    BY <1>3, <1>5, <2>1, <2>3, CallType DEF Uses
  <2> QED BY <1>5, <2>2, <2>3
<1>6. ASSUME NEW a \in Agents, NEW d \in Devices, Requested(a, d) PROVE Wanted(h)'
  <2>1. CASE Prompt(a, d) \/ FollowUp(a, d) \/ StopBegin(a, d)
    BY <1>4, <2>1 DEF Prompt, FollowUp, StopBegin
  <2>2. ASSUME NEW t \in Sessions \cup {None}, ReuseHost(a, d, t) PROVE Wanted(h)'
    <3>1. h \in hosts /\ UNCHANGED serves /\ call[a] = NoCall
          /\ \A b \in Agents \ {a} : call'[b] = call[b]
      BY <2>2 DEF ReuseHost, Begin
    <3> QED BY <1>3, <3>1, CallType DEF Uses
  <2>3. ASSUME NEW t \in Sessions \cup {None}, NEW k \in Hosts, SpawnHost(a, d, t, k)
        PROVE  Wanted(h)'
    <3>1. [phase |-> "spawn", takeover |-> FALSE, host |-> k, session |-> t] \in Calls
      BY DEF Calls
    <3> QED BY <1>5, <2>3, <3>1 DEF SpawnHost, Begin
  <2>4. ASSUME NEW t \in Sessions \cup {None}, NEW k \in Hosts, TakeOver(a, d, t, k)
        PROVE  Wanted(h)'
    <3>1. [phase |-> "spawn", takeover |-> TRUE, host |-> k, session |-> t] \in Calls
      BY DEF Calls
    <3>2. [phase |-> "spawn", takeover |-> TRUE, host |-> k, session |-> t].host = k
      OBVIOUS
    <3> QED BY <1>5, <2>4, <3>1, <3>2 DEF TakeOver, Begin
  <2> QED BY <1>6, <2>1, <2>2, <2>3, <2>4 DEF Requested
<1>7. ASSUME NEW a \in Agents, HostStarted(a) \/ Bind(a) PROVE Wanted(h)'
  <2>1. PICK p \in {"picked", "open"} : call' = [call EXCEPT ![a] = [call[a] EXCEPT !.phase = p]]
    BY <1>7 DEF HostStarted, Bind
  <2>2. call[a] \in Calls /\ UNCHANGED serves /\ (h \in hosts \/ h = call[a].host)
    BY <1>7 DEF HostStarted, Bind
  <2>3. /\ call'[a] = [call[a] EXCEPT !.phase = p]
        /\ \A b \in Agents \ {a} : call'[b] = call[b]
    BY <2>1
  <2>4. call'[a] \in Calls /\ call'[a].host = call[a].host
    BY <2>2, <2>3, CallType DEF Calls
  <2>5. CASE h = call[a].host
    BY <2>4, <2>5 DEF Wanted, Uses
  <2>6. CASE h \in hosts
    BY <1>3, <2>2, <2>3, <2>4, <2>6 DEF Uses
  <2> QED BY <2>2, <2>5, <2>6
<1>8. ASSUME NEW a \in Agents, HostNotStarted(a) PROVE Wanted(h)'
  <2>1. h \in hosts /\ h # call[a].host /\ UNCHANGED serves
    BY <1>8 DEF HostNotStarted, Release, Spawning
  <2>2. \A b \in Agents \ {a} : call'[b] = call[b]
    BY <1>8 DEF HostNotStarted
  <2> QED BY <1>3, <2>1, <2>2 DEF Uses
<1>9. ASSUME NEW a \in Agents, NEW t \in Sessions, OpenOk(a, t) PROVE Wanted(h)'
  <2>1. CASE h = call[a].host
    <3>1. a \in serves'[h]
      BY <1>2, <1>9, <2>1 DEF OpenOk
    <3> QED BY <3>1 DEF Wanted
  <2>2. CASE h # call[a].host
    <3>1. h \in hosts /\ serves'[h] = serves[h] /\ \A b \in Agents \ {a} : call'[b] = call[b]
      BY <1>2, <1>9, <2>2 DEF OpenOk
    <3> QED BY <1>1, <2>2, <3>1 DEF Wanted, Uses
  <2> QED BY <2>1, <2>2
<1>10. ASSUME NEW a \in Agents, OpenFailed(a) PROVE Wanted(h)'
  <2>1. /\ h \in hosts /\ UNCHANGED serves
        /\ h = call[a].host => serves[h] # {}
        /\ \A b \in Agents \ {a} : call'[b] = call[b]
    BY <1>10 DEF OpenFailed, Release
  <2> QED BY <1>1, <2>1 DEF Wanted, Uses
<1>11. ASSUME NEW a \in Agents, TurnEnds(a) PROVE Wanted(h)'
  BY <1>4, <1>11 DEF TurnEnds, TurnAbandoned, TurnEndsIdle, TurnEndsNext, TurnEndsRefused
<1>12. ASSUME NEW a \in Agents, StopEnd(a) PROVE Wanted(h)'
  <2>1. h \in hosts /\ UNCHANGED call
    BY <1>12 DEF StopEnd, Release
  <2>2. CASE h = agentHost[a]
    BY <1>2, <1>12, <2>2 DEF StopEnd, LastServed, Release, Wanted
  <2>3. CASE h # agentHost[a]
    <3>1. serves'[h] = serves[h]
      BY <1>2, <1>12, <2>3 DEF StopEnd
    <3> QED BY <1>1, <2>1, <3>1 DEF Wanted, Uses
  <2> QED BY <2>2, <2>3
<1>13. ASSUME NEW k \in Hosts, HostExit(k) PROVE Wanted(h)'
  BY <1>3, <1>13 DEF HostExit, Uses
<1>14. ASSUME NEW d \in Devices, RevokeDevice(d) PROVE Wanted(h)'
  BY <1>4, <1>14 DEF RevokeDevice
<1>15. CASE Shutdown \/ NextDaemon
  BY <1>15 DEF Shutdown, NextDaemon
<1>16. CASE UNCHANGED lifeRest
  BY <1>4, <1>16 DEF lifeRest
<1> QED BY <1>6, <1>7, <1>8, <1>9, <1>10, <1>11, <1>12, <1>13, <1>14, <1>15, <1>16
        DEF LifeMoves, LifeNext, RunningNext, Continued, Opened

(* No host is left running for nobody.                                     *)
THEOREM HostsAreWanted == LifeSpec => []NoIdleHost
<1>1. LifeInit => NoIdleHost
  BY DEF LifeInit, NoIdleHost
<1>2. ASSUME HostInv, NoIdleHost, LifeMoves PROVE NoIdleHost'
  BY <1>2, WantedStep DEF NoIdleHost, Wanted
<1> QED BY <1>1, <1>2, HostInit, HostStep, MovesAlone, PTL DEF LifeSpec

-----------------------------------------------------------------------------
(***************************************************************************)
(* Rows that are being opened.  An agent that is stopped, served or whose  *)
(* turn ends has no open in flight, so no write of a row but those of the  *)
(* open itself touches a row that is "starting".                           *)
(***************************************************************************)
Opening(a) == call[a] \in Calls /\ call[a].phase = "open"

(* A row is "starting" exactly while session/new or session/load is        *)
(* awaited for it: nothing that fails, stops or restarts leaves a row      *)
(* "starting" that nobody is going to settle, and nothing settles one      *)
(* early (#bindAgentToSession, #onHostClosed, shutdown, the boot sweep).   *)
(* The safety half of OpeningSettles.                                      *)
StartingIsInFlight == \A a \in Agents : state[a] = "starting" <=> Opening(a)

OpeningInv ==
  /\ FreshInv
  /\ StateOK
  /\ \A h \in Hosts, a \in Agents : a \in serves[h] => agentHost[a] = h
  /\ \A a \in stopping : call[a] = EndedCall
  /\ StartingIsInFlight

LEMMA ServedKept ==
  ASSUME OpeningInv, LifeNext, NEW h \in Hosts, NEW b \in Agents, b \in serves'[h]
  PROVE  agentHost'[b] = h
<1> USE DEF OpeningInv, FreshInv, LifeTypeOK, rows, machines, routes, work
<1>1. ASSUME serves'[h] \subseteq serves[h], UNCHANGED agentHost PROVE agentHost'[b] = h
  BY <1>1
<1>2. ASSUME NEW a \in Agents, NEW d \in Devices, Requested(a, d) PROVE agentHost'[b] = h
  BY <1>1, <1>2 DEF Requested, ReuseHost, SpawnHost, TakeOver, Prompt, FollowUp, StopBegin
<1>3. ASSUME NEW a \in Agents, NEW s \in Sessions, OpenOk(a, s) PROVE agentHost'[b] = h
  <2>1. call[a].host \in Hosts /\ call[a] # EndedCall
    BY <1>3, CallType DEF OpenOk
  <2>2. agentHost[a] = None
    BY <2>1 DEF Fresh
  <2>3. CASE b = a
    BY <1>3, <2>1, <2>2, <2>3, NoneAssumption DEF OpenOk
  <2>4. CASE b # a
    BY <1>3, <2>1, <2>4 DEF OpenOk
  <2> QED BY <2>3, <2>4
<1>4. ASSUME NEW a \in Agents, StopEnd(a) PROVE agentHost'[b] = h
  BY <1>1, <1>4 DEF StopEnd
<1>5. ASSUME NEW a \in Agents, Continued(a) PROVE agentHost'[b] = h
  BY <1>1, <1>3, <1>4, <1>5
     DEF Continued, HostStarted, HostNotStarted, Bind, Opened, OpenFailed, TurnEnds,
         TurnAbandoned, TurnEndsIdle, TurnEndsNext, TurnEndsRefused
<1>6. CASE NextDaemon
  BY <1>6 DEF NextDaemon
<1>7. CASE Shutdown \/ (\E k \in Hosts : HostExit(k)) \/ \E d \in Devices : RevokeDevice(d)
  BY <1>1, <1>7 DEF Shutdown, HostExit, RevokeDevice
<1> QED BY <1>2, <1>5, <1>6, <1>7 DEF LifeNext, RunningNext

LEMMA StoppingKept ==
  ASSUME OpeningInv, LifeNext, NEW b \in stopping' PROVE call'[b] = EndedCall
<1> USE DEF OpeningInv, FreshInv, LifeTypeOK, rows, machines, routes, work
<1>1. ASSUME stopping' \subseteq stopping, call[b] = EndedCall => call'[b] = EndedCall
      PROVE  call'[b] = EndedCall
  BY <1>1
<1>2. ASSUME NEW a \in Agents, NEW d \in Devices, Requested(a, d) PROVE call'[b] = EndedCall
  <2>1. CASE StopBegin(a, d)
    BY <2>1, ResolvesEnded DEF StopBegin
  <2>2. CASE ~StopBegin(a, d)
    BY <1>1, <1>2, <2>2, CallType
       DEF Requested, ReuseHost, SpawnHost, TakeOver, Begin, Prompt, FollowUp, NoCall, EndedCall
  <2> QED BY <2>1, <2>2
<1>3. ASSUME NEW a \in Agents, Continued(a) PROVE call'[b] = EndedCall
  BY <1>1, <1>3, CallType
     DEF Continued, HostStarted, HostNotStarted, Bind, Opened, OpenOk, OpenFailed, StopEnd,
         TurnEnds, TurnAbandoned, TurnEndsIdle, TurnEndsNext, TurnEndsRefused
<1>4. CASE NextDaemon
  BY <1>4 DEF NextDaemon
<1>5. CASE Shutdown \/ (\E k \in Hosts : HostExit(k)) \/ \E d \in Devices : RevokeDevice(d)
  BY <1>1, <1>5 DEF Shutdown, HostExit, RevokeDevice
<1> QED BY <1>2, <1>3, <1>4, <1>5 DEF LifeNext, RunningNext

LEMMA StartingKept ==
  ASSUME OpeningInv, LifeNext, NEW b \in Agents
  PROVE  state'[b] = "starting" <=> Opening(b)'
<1> USE DEF OpeningInv, FreshInv, LifeTypeOK, StateOK, rows, machines, routes, work
<1>1. ASSUME UNCHANGED <<state, call>> PROVE state'[b] = "starting" <=> Opening(b)'
  BY <1>1 DEF StartingIsInFlight, Opening
<1>2. ASSUME call[b] = EndedCall, UNCHANGED call, state'[b] # "starting"
      PROVE  state'[b] = "starting" <=> Opening(b)'
  BY <1>2, CallType DEF Opening
<1>3. ASSUME UNCHANGED call, state'[b] = state[b] PROVE state'[b] = "starting" <=> Opening(b)'
  BY <1>3 DEF StartingIsInFlight, Opening
<1>4. ASSUME UNCHANGED state, ~Opening(b), ~Opening(b)'
      PROVE  state'[b] = "starting" <=> Opening(b)'
  BY <1>4 DEF StartingIsInFlight
<1>5. ASSUME NEW a \in Agents, NEW c, c \notin Calls \/ c.phase # "open",
             ~Opening(a), call' = [call EXCEPT ![a] = c], UNCHANGED state
      PROVE  state'[b] = "starting" <=> Opening(b)'
  <2>1. CASE b = a
    BY <1>4, <1>5, <2>1 DEF Opening
  <2>2. CASE b # a
    BY <1>5, <2>2 DEF StartingIsInFlight, Opening
  <2> QED BY <2>1, <2>2
<1>6. ASSUME NEW a \in Agents, NEW d \in Devices, Requested(a, d)
      PROVE  state'[b] = "starting" <=> Opening(b)'
  <2>1. CASE Prompt(a, d)
    BY <1>2, <1>3, <2>1, ResolvesEnded DEF Prompt
  <2>2. CASE FollowUp(a, d) \/ StopBegin(a, d)
    BY <1>1, <2>2 DEF FollowUp, StopBegin
  <2>3. ASSUME NEW s \in Sessions \cup {None}, ReuseHost(a, d, s)
        PROVE  state'[b] = "starting" <=> Opening(b)'
    BY <1>5, <2>3, CallType DEF ReuseHost, Begin, Opening
  <2>4. ASSUME NEW s \in Sessions \cup {None}, NEW h \in Hosts, SpawnHost(a, d, s, h)
        PROVE  state'[b] = "starting" <=> Opening(b)'
    BY <1>5, <2>4, CallType DEF SpawnHost, Begin, Opening
  <2>5. ASSUME NEW s \in Sessions \cup {None}, NEW h \in Hosts, TakeOver(a, d, s, h)
        PROVE  state'[b] = "starting" <=> Opening(b)'
    BY <1>5, <2>5, CallType DEF TakeOver, Begin, Opening
  <2> QED BY <1>6, <2>1, <2>2, <2>3, <2>4, <2>5 DEF Requested
<1>7. ASSUME NEW a \in Agents, Continued(a) PROVE state'[b] = "starting" <=> Opening(b)'
  <2>1. CASE HostStarted(a)
    <3>1. call' = [call EXCEPT ![a] = [call[a] EXCEPT !.phase = "picked"]]
      BY <2>1 DEF HostStarted
    <3>2. [call[a] EXCEPT !.phase = "picked"].phase = "picked"
      BY <2>1 DEF HostStarted, Calls
    <3> QED BY <1>5, <2>1, <3>1, <3>2 DEF HostStarted, Opening
  <2>2. CASE HostNotStarted(a)
    BY <1>5, <2>2, CallType DEF HostNotStarted, Opening
  <2>3. CASE Bind(a)
    <3>1. call[a] \in Calls /\ [call[a] EXCEPT !.phase = "open"] \in Calls
      BY <2>3, CallType DEF Bind
    <3>2. [call[a] EXCEPT !.phase = "open"].phase = "open"
      BY <3>1 DEF Calls
    <3>3. CASE b = a
      BY <2>3, <3>1, <3>2, <3>3 DEF Bind, Opening
    <3>4. CASE b # a
      BY <2>3, <3>4 DEF Bind, StartingIsInFlight, Opening
    <3> QED BY <3>3, <3>4
  <2>4. CASE Opened(a)
    <3>1. /\ call' = [call EXCEPT ![a] = EndedCall]
          /\ \E x \in {"idle", "failed"} : state' = [state EXCEPT ![a] = x]
      BY <2>4 DEF Opened, OpenOk, OpenFailed
    <3>2. CASE b = a
      BY <3>1, <3>2, CallType DEF Opening
    <3>3. CASE b # a
      BY <3>1, <3>3 DEF StartingIsInFlight, Opening
    <3> QED BY <3>2, <3>3
  <2>5. CASE TurnEnds(a)
    <3>1. call[a] = EndedCall
      BY <2>5 DEF TurnEnds, TurnAbandoned, TurnEndsIdle, TurnEndsNext, TurnEndsRefused, Fresh
    <3>2. UNCHANGED call /\ (UNCHANGED state \/ \E x \in {"idle", "busy"} : state' = [state EXCEPT ![a] = x])
      BY <2>5 DEF TurnEnds, TurnAbandoned, TurnEndsIdle, TurnEndsNext, TurnEndsRefused
    <3> QED BY <1>1, <1>2, <1>3, <3>1, <3>2
  <2>6. CASE StopEnd(a)
    BY <1>2, <1>3, <2>6 DEF StopEnd
  <2> QED BY <1>7, <2>1, <2>2, <2>3, <2>4, <2>5, <2>6 DEF Continued
<1>8. ASSUME NEW h \in Hosts, b \in serves[h] PROVE call[b] = EndedCall
  BY <1>8, NoneAssumption DEF Fresh
<1>9. ASSUME NEW h \in Hosts, HostExit(h) PROVE state'[b] = "starting" <=> Opening(b)'
  BY <1>2, <1>3, <1>8, <1>9 DEF HostExit
<1>10. CASE Shutdown
  BY <1>2, <1>3, <1>8, <1>10 DEF Shutdown
<1>11. CASE NextDaemon
  <2>1. ~Opening(b)'
    BY <1>11, CallType DEF NextDaemon, Opening
  <2> QED BY <1>11, <2>1 DEF NextDaemon, Terminal
<1>12. ASSUME NEW d \in Devices, RevokeDevice(d) PROVE state'[b] = "starting" <=> Opening(b)'
  BY <1>1, <1>12 DEF RevokeDevice
<1> QED BY <1>6, <1>7, <1>9, <1>10, <1>11, <1>12 DEF LifeNext, RunningNext

THEOREM StartingRowsSettle == LifeSpec => []StartingIsInFlight
<1>1. LifeInit => OpeningInv
  BY FreshInit, CallType DEF LifeInit, OpeningInv, StateOK, LifeStates, StartingIsInFlight, Opening
<1>2. ASSUME OpeningInv, LifeNext PROVE OpeningInv'
  <2>1. FreshInv' /\ StateOK'
    BY <1>2, FreshStep, LifecycleWrites DEF OpeningInv, LifeMoves, StateOK, LifeStates
  <2> QED BY <1>2, <2>1, ServedKept, StoppingKept, StartingKept DEF OpeningInv, StartingIsInFlight
<1>3. OpeningInv /\ UNCHANGED lifeVars => OpeningInv'
  BY DEF OpeningInv, FreshInv, Fresh, LifeTypeOK, StateOK, StartingIsInFlight, Opening, lifeVars,
         rows, machines, routes, work
<1>4. OpeningInv => StartingIsInFlight
  BY DEF OpeningInv
<1> QED BY <1>1, <1>2, <1>3, <1>4, PTL DEF LifeSpec

-----------------------------------------------------------------------------

(* What the refinement needs to know of a state: rows, pending entries and *)
(* continuations are well typed, so that what an answer writes back is the *)
(* state of a row.                                                         *)
RowInv ==
  /\ state \in [Agents -> Gate!RowStates]
  /\ pending \in [Requests -> Gates \cup {NoGate}]
  /\ gate \in [Gates -> {Gate!Unused, Gate!Lost} \cup Gate!Asking \cup Gate!Done]

LEMMA AskingType ==
  ASSUME RowInv, NEW g \in Gates, gate[g].phase = "asking"
  PROVE  gate[g].agent \in Agents /\ gate[g].request \in Requests
         /\ gate[g].before \in Gate!RowStates
<1>1. Gate!Unused.phase # "asking" /\ Gate!Lost.phase # "asking" /\ gate[g] \notin Gate!Done
  BY DEF Gate!Unused, Gate!Lost, Gate!Done
<1>2. gate[g] \in Gate!Asking
  BY <1>1 DEF RowInv
<1> QED BY <1>2 DEF Gate!Asking

-----------------------------------------------------------------------------
(* An answer, whoever gives it.                                            *)
LEMMA AnswerRows ==
  ASSUME RowInv, NEW g \in Gates, NEW c \in Gate!Choices, NEW by \in Gate!Authors,
         Gate!Answer(g, c, by), pending' \in [Requests -> Gates \cup {NoGate}]
  PROVE  RowInv'
<1>1. gate[g].agent \in Agents /\ gate[g].request \in Requests
      /\ gate[g].before \in Gate!RowStates
  BY AskingType DEF Gate!Answer
<1>2. state' \in [Agents -> Gate!RowStates]
  BY <1>1 DEF Gate!Answer, Gate!Restored, RowInv
<1>3. [phase |-> "done", agent |-> gate[g].agent, request |-> gate[g].request,
       option |-> c, by |-> by] \in Gate!Done
  BY <1>1 DEF Gate!Done
<1>4. gate' \in [Gates -> {Gate!Unused, Gate!Lost} \cup Gate!Asking \cup Gate!Done]
  BY <1>3 DEF Gate!Answer, RowInv
<1> QED BY <1>2, <1>4 DEF RowInv

LEMMA RowInit == ASSUME Init PROVE RowInv
  BY DEF Init, LifeInit, RowInv, Gate!RowStates

LEMMA RowStep == ASSUME RowInv, [Next]_vars PROVE RowInv'
<1>1. CASE Lifecycle
  BY <1>1, LifecycleWrites DEF Lifecycle, LifeNext, RowInv, asked, Gate!RowStates, Gate!Terminal, Terminal
<1>2. CASE Restarted
  <2>1. gate' \in [Gates -> {Gate!Unused, Gate!Lost} \cup Gate!Asking \cup Gate!Done]
    BY <1>2 DEF Restarted, Gate!Lose, RowInv
  <2>2. pending' \in [Requests -> Gates \cup {NoGate}]
    BY <1>2 DEF Restarted, Gate!Lose
  <2>3. state' \in [Agents -> Gate!RowStates]
    BY <1>2, LifecycleWrites DEF Restarted, LifeNext, RowInv, Gate!RowStates, Gate!Terminal, Terminal
  <2> QED BY <2>1, <2>2, <2>3 DEF RowInv
<1>3. ASSUME NEW g \in Gates, NEW a \in Agents, NEW r \in Requests, NEW V \in SUBSET Gate!Verdicts,
             Gate!AskPolicy(g, a, r, V)
      PROVE  RowInv'
  <2>1. Gate!Verdict(V) \in Gate!Choices
    BY <1>3 DEF Gate!AskPolicy, Gate!Verdict, Gate!Choices
  <2>2. [phase |-> "done", agent |-> a, request |-> r,
         option |-> Gate!Verdict(V), by |-> "policy"] \in Gate!Done
    BY <2>1 DEF Gate!Done, Gate!Authors
  <2> QED BY <1>3, <2>2 DEF Gate!AskPolicy, RowInv
<1>4. ASSUME NEW g \in Gates, NEW a \in Agents, NEW r \in Requests, NEW V \in SUBSET Gate!Verdicts,
             Gate!AskOperator(g, a, r, V)
      PROVE  RowInv'
  <2>1. state[a] \in Gate!RowStates
    BY DEF RowInv
  <2>2. [phase |-> "asking", agent |-> a, request |-> r, before |-> state[a]] \in Gate!Asking
    BY <2>1 DEF Gate!Asking
  <2> QED BY <1>4, <2>2 DEF Gate!AskOperator, RowInv, Gate!RowStates
<1>5. ASSUME NEW d \in Devices, NEW r \in Requests, NEW c \in Gate!Choices, Gate!Decide(d, r, c)
      PROVE  RowInv'
  <2>1. pending[r] \in Gates /\ d \in Gate!Authors
    BY <1>5 DEF Gate!Decide, Gate!Authors, RowInv
  <2>2. pending' \in [Requests -> Gates \cup {NoGate}]
    BY <1>5 DEF Gate!Decide, RowInv
  <2> QED BY <1>5, <2>1, <2>2, AnswerRows DEF Gate!Decide
<1>6. ASSUME NEW g \in Gates, Gate!Timeout(g) PROVE RowInv'
  <2>1. "deny" \in Gate!Choices /\ "timeout" \in Gate!Authors
    BY DEF Gate!Choices, Gate!Authors
  <2>2. pending' \in [Requests -> Gates \cup {NoGate}]
    BY <1>6 DEF Gate!Timeout, RowInv
  <2> QED BY <1>6, <2>1, <2>2, AnswerRows DEF Gate!Timeout
<1>7. ASSUME UNCHANGED <<state, pending, gate>> PROVE RowInv'
  BY <1>7 DEF RowInv
<1>8. CASE Question
  BY <1>3, <1>4, <1>8 DEF Question, Gate!Ask
<1>9. CASE Decision
  BY <1>5, <1>7, <1>9 DEF Decision, Gate!DecidePlan
<1>10. ASSUME NEW g \in Gates, Clock(g) PROVE RowInv'
  BY <1>6, <1>10 DEF Clock
<1>11. ASSUME NEW p \in Plans, PlanAsked(p) \/ PlanClock(p) PROVE RowInv'
  BY <1>7, <1>11 DEF PlanAsked, PlanClock, Gate!AskPlan, Gate!PlanTimeout
<1>12. CASE UNCHANGED vars
  BY <1>7, <1>12 DEF vars, asked, lifeVars
<1> QED BY <1>1, <1>2, <1>8, <1>9, <1>10, <1>11, <1>12 DEF Next

-----------------------------------------------------------------------------
(* A step of the lifecycle is a revocation or a write of rows.             *)
LEMMA LifecycleSimulated ==
  ASSUME RowInv, Lifecycle PROVE [Gate!GateNext]_(Gate!gateVars)
<1>1. /\ UNCHANGED asked /\ state' \in [Agents -> Gate!RowStates]
      /\ \A a \in Agents : state'[a] = state[a] \/ state'[a] \notin {"none", "waiting"}
  BY LifecycleWrites DEF Lifecycle, LifeNext, RowInv, Gate!RowStates, Gate!Terminal, Terminal
<1>2. ASSUME UNCHANGED revoked PROVE Gate!RowWrite
  BY <1>1, <1>2 DEF Gate!RowWrite, Gate!gateOwn, Approvers, asked
<1>3. ASSUME NEW d \in Devices, RevokeDevice(d) PROVE [Gate!GateNext]_(Gate!gateVars)
  <2>1. revoked' = revoked \cup {d} /\ UNCHANGED state
    BY <1>3 DEF RevokeDevice
  <2>2. CASE d \in CanApprove
    <3>1. d \in Approvers /\ Approvers' = Approvers \ {d}
      BY <1>3, <2>1, <2>2 DEF RevokeDevice, Approvers
    <3>2. Gate!Revoke(d)
      BY <1>1, <2>1, <3>1 DEF Gate!Revoke, asked
    <3> QED BY <3>2 DEF Gate!GateNext, Gate!Operate
  <2>3. CASE d \notin CanApprove
    <3>1. Approvers' = Approvers
      BY <2>1, <2>3 DEF Approvers
    <3> QED BY <1>1, <2>1, <3>1 DEF Gate!gateVars, Gate!gateOwn, asked
  <2> QED BY <2>2, <2>3
<1>4. ASSUME \A d \in Devices : ~RevokeDevice(d) PROVE UNCHANGED revoked
  <2>1. ASSUME NEW a \in Agents, NEW d \in Devices, Requested(a, d) PROVE UNCHANGED revoked
    BY <2>1 DEF Requested, ReuseHost, SpawnHost, TakeOver, Prompt, FollowUp, StopBegin, rows
  <2>2. ASSUME NEW a \in Agents, Continued(a) PROVE UNCHANGED revoked
    BY <2>2 DEF Continued, HostStarted, HostNotStarted, Bind, Opened, OpenOk, OpenFailed,
                TurnEnds, TurnAbandoned, TurnEndsIdle, TurnEndsNext, TurnEndsRefused, StopEnd, rows
  <2>3. CASE Shutdown \/ \E h \in Hosts : HostExit(h)
    BY <2>3 DEF Shutdown, HostExit, rows
  <2> QED BY <1>4, <2>1, <2>2, <2>3 DEF Lifecycle, RunningNext
<1> QED BY <1>2, <1>3, <1>4 DEF Gate!GateNext

LEMMA StepSimulated ==
  ASSUME RowInv, [Next]_vars PROVE [Gate!GateNext]_(Gate!gateVars)
<1>1. CASE Lifecycle
  BY <1>1, LifecycleSimulated
<1>2. CASE Restarted
  <2>1. state' = [a \in Agents |-> IF state[a] \in Terminal \cup {"none"} THEN state[a] ELSE "stopped"]
    BY <1>2 DEF Restarted, NextDaemon
  <2> QED BY <1>2, <2>1 DEF Restarted, Gate!Restart, Gate!GateNext, Gate!Terminal, Terminal
<1>3. CASE Question
  BY <1>3 DEF Question, Gate!GateNext
<1>4. CASE Decision
  BY <1>4 DEF Decision, Gate!GateNext, Gate!Operate
<1>5. ASSUME NEW g \in Gates, Clock(g) PROVE Gate!GateNext
  BY <1>5 DEF Clock, Gate!GateNext
<1>6. ASSUME NEW p \in Plans, PlanAsked(p) \/ PlanClock(p) PROVE Gate!GateNext
  BY <1>6 DEF PlanAsked, PlanClock, Gate!GateNext
<1>7. CASE UNCHANGED vars
  BY <1>7 DEF vars, lifeVars, rows, asked, Approvers, Gate!gateVars, Gate!gateOwn
<1> QED BY <1>1, <1>2, <1>3, <1>4, <1>5, <1>6, <1>7 DEF Next

LEMMA InitSimulated == ASSUME Init PROVE Gate!GateInit
<1>1. Approvers \in SUBSET Devices
  BY CanApproveAssumption DEF Approvers
<1> QED BY <1>1 DEF Init, LifeInit, Gate!GateInit

(* The supervisor keeps every promise of the gate: whatever the lifecycle  *)
(* does, the questions behave as ApprovalGate says.                        *)
THEOREM Implementation == Spec => ImplementsGate
  BY RowInit, RowStep, StepSimulated, InitSimulated, PTL DEF Spec, ImplementsGate, Gate!GateSpec

-----------------------------------------------------------------------------
(***************************************************************************)
(* What the lifecycle promises it promises beside the gate, which changes  *)
(* the states of rows under it.                                            *)
(***************************************************************************)

(* However questions, answers and timers write the rows, an agent that is  *)
(* served has at most one turn, and the daemon's count of it is the truth. *)
THEOREM TurnsStayCounted == Spec => []TurnsCounted
<1>1. Init => TurnInv
  BY FreshInit, TurnsInit DEF Init, TurnInv
<1>2. TurnInv => TurnsCounted
  BY DEF TurnInv
<1> QED BY <1>1, <1>2, TurnStep, MovesWithGate, PTL DEF Spec

(* A session, and so a question about it, reaches only the agent that      *)
(* holds it or opens it.                                                   *)
THEOREM RoutesStayHeld == Spec => []RoutedToHolder
<1>1. Init => RouteInv
  <2>1. LifeInit => RoutedToHolder
    BY NoneAssumption DEF LifeInit, RoutedToHolder
  <2> QED BY <2>1, FreshInit DEF Init, RouteInv
<1>2. RouteInv => RoutedToHolder
  BY DEF RouteInv
<1> QED BY <1>1, <1>2, RouteStep, MovesWithGate, PTL DEF Spec

(* No host is left running for nobody while questions are asked.           *)
THEOREM HostsStayWanted == Spec => []NoIdleHost
<1>1. Init => HostInv /\ NoIdleHost
  BY HostInit DEF Init, LifeInit, NoIdleHost
<1>2. ASSUME HostInv, NoIdleHost, LifeMoves PROVE NoIdleHost'
  BY <1>2, WantedStep DEF NoIdleHost, Wanted
<1> QED BY <1>1, <1>2, HostStep, MovesWithGate, PTL DEF Spec

(* No answer starts a turn or brings a queued one back: each one has a     *)
(* device that is not revoked at that moment and a host in the table.      *)
THEOREM TurnsStayAuthorized == Spec => AuthorizedTurn
<1>1. Init => LifeTypeOK
  BY TypeInit DEF Init
<1>2. ASSUME LifeTypeOK, LifeMoves
      PROVE  [\A a \in Agents :
                /\ turns'[a] > turns[a] \/ Dispatched(a)
                     => promptedBy'[a] \notin revoked /\ agentHost[a] \in hosts
                /\ Dispatched(a) => state[a] \notin Terminal]_lifeVars
  <2>1. CASE UNCHANGED lifeRest
    <3>1. /\ UNCHANGED <<turns, queue>>
          /\ \A a \in Agents : turns[a] \in Nat /\ Len(queue[a]) \in Nat
      BY <1>2, <2>1 DEF lifeRest, work, LifeTypeOK
    <3> QED BY <3>1 DEF Dispatched
  <2> QED BY <1>2, <2>1, AuthorizedStep DEF LifeMoves
<1> QED BY <1>1, <1>2, TypeStep, MovesWithGate, PTL DEF Spec, AuthorizedTurn

-----------------------------------------------------------------------------
(* The two tables of the gate that RowInv does not speak of.               *)
TableOK ==
  /\ approvals \in [Requests -> Gate!Row]
  /\ plan \in [Plans -> {"unused", "asking", "accepted", "declined", "lost"}]

LEMMA TableStep == ASSUME RowInv, TableOK, [Next]_vars PROVE TableOK'
<1> USE DEF TableOK
<1>1. ASSUME NEW r \in Requests, NEW c \in Gate!Choices, NEW by \in Gate!Authors
      PROVE  Gate!OpenRow(approvals[r]) \in Gate!Row
             /\ Gate!DecideRow(approvals[r], c, by) \in Gate!Row
             /\ Gate!DecideRow(Gate!OpenRow(approvals[r]), c, by) \in Gate!Row
  BY DEF Gate!OpenRow, Gate!DecideRow, Gate!Row, Gate!Choices
<1>2. ASSUME UNCHANGED approvals PROVE approvals' \in [Requests -> Gate!Row]
  BY <1>2
<1>3. ASSUME NEW g \in Gates, NEW c \in Gate!Choices, NEW by \in Gate!Authors,
             Gate!Answer(g, c, by), UNCHANGED plan
      PROVE  TableOK'
  <2>1. gate[g].request \in Requests
    BY <1>3, AskingType DEF Gate!Answer
  <2> QED BY <1>1, <1>3, <2>1 DEF Gate!Answer
<1>4. CASE Lifecycle
  BY <1>4 DEF Lifecycle, asked
<1>5. CASE Restarted
  BY <1>5 DEF Restarted, Gate!Lose
<1>6. CASE Question
  <2>1. ASSUME NEW g \in Gates, NEW a \in Agents, NEW r \in Requests,
               NEW V \in SUBSET Gate!Verdicts, Gate!AskPolicy(g, a, r, V)
        PROVE  TableOK'
    <3>1. Gate!Verdict(V) \in Gate!Choices /\ "policy" \in Gate!Authors
      BY <2>1 DEF Gate!AskPolicy, Gate!Verdict, Gate!Choices, Gate!Authors
    <3> QED BY <1>1, <2>1, <3>1 DEF Gate!AskPolicy
  <2>2. ASSUME NEW g \in Gates, NEW a \in Agents, NEW r \in Requests,
               NEW V \in SUBSET Gate!Verdicts, Gate!AskOperator(g, a, r, V)
        PROVE  TableOK'
    <3>1. "deny" \in Gate!Choices /\ "timeout" \in Gate!Authors
      BY DEF Gate!Choices, Gate!Authors
    <3> QED BY <1>1, <2>2, <3>1 DEF Gate!AskOperator
  <2> QED BY <1>6, <2>1, <2>2 DEF Question, Gate!Ask
<1>7. CASE Decision
  <2>1. ASSUME NEW d \in Devices, NEW r \in Requests, NEW c \in Gate!Choices,
               Gate!Decide(d, r, c)
        PROVE  TableOK'
    <3>1. pending[r] \in Gates /\ d \in Gate!Authors
      BY <2>1 DEF Gate!Decide, Gate!Authors, RowInv
    <3> QED BY <1>3, <2>1, <3>1 DEF Gate!Decide
  <2>2. ASSUME NEW d \in Devices, NEW p \in Plans, Gate!DecidePlan(d, p) PROVE TableOK'
    BY <2>2 DEF Gate!DecidePlan
  <2> QED BY <1>7, <2>1, <2>2 DEF Decision
<1>8. ASSUME NEW g \in Gates, Clock(g) PROVE TableOK'
  <2>1. "deny" \in Gate!Choices /\ "timeout" \in Gate!Authors
    BY DEF Gate!Choices, Gate!Authors
  <2> QED BY <1>3, <1>8, <2>1 DEF Clock, Gate!Timeout
<1>9. ASSUME NEW p \in Plans, PlanAsked(p) \/ PlanClock(p) PROVE TableOK'
  BY <1>9 DEF PlanAsked, PlanClock, Gate!AskPlan, Gate!PlanTimeout
<1>10. CASE UNCHANGED vars
  BY <1>10 DEF vars, asked
<1> QED BY <1>4, <1>5, <1>6, <1>7, <1>8, <1>9, <1>10 DEF Next

(* Every reachable state of the supervisor is well typed, the rows that    *)
(* the lifecycle and the gate both write included.                         *)
THEOREM SupervisorTypes == Spec => []TypeOK
<1>1. Init => TableOK
  BY DEF Init, TableOK, Gate!Row
<1>2. LifeTypeOK /\ RowInv /\ TableOK => TypeOK
  BY CanApproveAssumption DEF TypeOK, RowInv, TableOK, Gate!GateTypeOK, Approvers
<1>3. Init => LifeTypeOK
  BY TypeInit DEF Init
<1> QED BY <1>1, <1>2, <1>3, TypeStep, MovesWithGate, RowInit, RowStep, TableStep, PTL DEF Spec
=============================================================================
