--------------------------- MODULE AgentLifecycle ---------------------------
(***************************************************************************)
(* Agents, the hosts that run them and the sessions they hold, as the      *)
(* supervisor keeps them (packages/daemon/src/supervisor.ts).              *)
(*                                                                         *)
(* Everything runs on one event loop: an action below is the code between  *)
(* two awaits.  A create, resume or takeover is three such pieces (choose  *)
(* a host, bind the row, open the session) and any other call, an answer,  *)
(* the death of a host or the end of the daemon may come in between.       *)
(* Every request names the same host spec, so any host with room fits.     *)
(***************************************************************************)
EXTENDS Naturals, Sequences, FiniteSets

CONSTANTS
  Agents,       \* agent ids, each allocated once
  Hosts,        \* host processes, each started once
  Sessions,     \* ACP session ids
  OnDisk,       \* sessions recorded before this daemon ever ran
  Devices,      \* paired devices
  HostCap,      \* agents one host may serve before another is started
  QueueMax,     \* PROMPT_QUEUE_MAX
  TurnBound,    \* bound of the model: unsettled client.prompt calls per agent
  None          \* no agent, host, session or device

ASSUME NoneAssumption ==
  None \notin Agents \cup Hosts \cup Sessions \cup Devices
ASSUME BoundsAssumption ==
  OnDisk \subseteq Sessions /\ HostCap \in Nat /\ QueueMax \in Nat /\ TurnBound \in Nat

VARIABLES
  state,        \* agents.state; "none" is an agent without a row
  session,      \* agents.acp_session_id
  recorded,     \* sessions that exist on disk
  revoked,      \* devices whose row carries revoked_at
  hosts,        \* keys of #hosts
  ready,        \* hosts whose client has agentInfo
  proc,         \* the processes behind the hosts
  serves,       \* HostEntry.agents; an entry outlives its key in #hosts
  adopts,       \* the session of a host that is an adopted TUI
  agentHost,    \* #agentHost
  sessionAgent, \* #sessionAgent
  call,         \* createAgent, resumeAgent or takeOverTuiSession of an agent
  stopping,     \* agents with a stopAgent awaiting session/close
  turns,        \* client.prompt calls that have not settled
  inFlight,     \* #inFlightTurns
  queue,        \* #promptQueues, by the device that queued
  promptedBy,   \* actor of the latest agent.prompt audit row
  closing       \* shutdown has run

rows     == <<session, recorded, revoked>>
machines == <<hosts, ready, proc, serves, adopts>>
routes   == <<agentHost, sessionAgent>>
work     == <<turns, inFlight, queue, promptedBy>>
lifeVars == <<state, rows, machines, routes, call, stopping, work, closing>>

Terminal  == {"stopped", "failed"}
LifeStates == {"none", "starting", "idle", "busy"} \cup Terminal
NoCall    == [phase |-> "none"]
EndedCall == [phase |-> "ended"]
Calls     == [phase : {"spawn", "picked", "open"}, takeover : BOOLEAN,
              host : Hosts, session : Sessions \cup {None}]

LifeTypeOK ==
  /\ session \in [Agents -> Sessions \cup {None}]
  /\ recorded \subseteq Sessions
  /\ revoked \subseteq Devices
  /\ hosts \subseteq Hosts
  /\ ready \subseteq Hosts
  /\ proc \in [Hosts -> {"free", "up", "killed", "gone"}]
  /\ serves \in [Hosts -> SUBSET Agents]
  /\ adopts \in [Hosts -> Sessions \cup {None}]
  /\ agentHost \in [Agents -> Hosts \cup {None}]
  /\ sessionAgent \in [Sessions -> Agents \cup {None}]
  /\ call \in [Agents -> {NoCall, EndedCall} \cup Calls]
  /\ stopping \subseteq Agents
  /\ turns \in [Agents -> Nat]
  /\ inFlight \in [Agents -> {0, 1}]
  /\ queue \in [Agents -> Seq(Devices)]
  /\ promptedBy \in [Agents -> Devices \cup {None}]
  /\ closing \in BOOLEAN

LifeInit ==
  /\ state = [a \in Agents |-> "none"]
  /\ session = [a \in Agents |-> None]
  /\ recorded = OnDisk
  /\ revoked = {}
  /\ hosts = {}
  /\ ready = {}
  /\ proc = [h \in Hosts |-> "free"]
  /\ serves = [h \in Hosts |-> {}]
  /\ adopts = [h \in Hosts |-> None]
  /\ agentHost = [a \in Agents |-> None]
  /\ sessionAgent = [s \in Sessions |-> None]
  /\ call = [a \in Agents |-> NoCall]
  /\ stopping = {}
  /\ turns = [a \in Agents |-> 0]
  /\ inFlight = [a \in Agents |-> 0]
  /\ queue = [a \in Agents |-> <<>>]
  /\ promptedBy = [a \in Agents |-> None]
  /\ closing = FALSE

-----------------------------------------------------------------------------
(***************************************************************************)
(* Shared pieces.                                                          *)
(***************************************************************************)

(* #authorize against the live device row.                                 *)
Authorized(d) == d \notin revoked

(* #resolve: the agent has a row and its host is still in the table.       *)
Resolves(a) == state[a] # "none" /\ agentHost[a] \in hosts

(* Hosts #hostFor may answer with: initialised, and below the cap when     *)
(* looked at.                                                              *)
Reusable == {h \in hosts \cap ready : Cardinality(serves[h]) < HostCap}

(* A call that still needs host h.                                         *)
Uses(a, h) == call[a] \in Calls /\ call[a].host = h

(* #releaseHost: out of the table at once, then the process is told to go. *)
Release(h) ==
  /\ hosts' = hosts \ {h}
  /\ ready' = ready \ {h}
  /\ proc' = [proc EXCEPT ![h] = IF @ = "up" THEN "killed" ELSE @]

-----------------------------------------------------------------------------
(***************************************************************************)
(* createAgent, resumeAgent, takeOverTuiSession: first piece, up to the    *)
(* first await.  s is None for a create.                                   *)
(***************************************************************************)

(* A resume is refused while an agent holds the session.                   *)
Opens(s) == s = None \/ (s \in recorded /\ sessionAgent[s] = None)

Begin(a, d, s) ==
  /\ ~closing
  /\ call[a] = NoCall
  /\ Authorized(d)
  /\ Opens(s)

(* #hostFor finds an entry with room.                                      *)
ReuseHost(a, d, s) ==
  /\ Begin(a, d, s)
  /\ \E h \in Reusable :
       call' = [call EXCEPT ![a] = [phase |-> "picked", takeover |-> FALSE,
                                    host |-> h, session |-> s]]
  /\ UNCHANGED <<state, rows, machines, routes, stopping, work, closing>>

(* #hostFor starts a process; it enters the table once initialised.        *)
SpawnHost(a, d, s, h) ==
  /\ Begin(a, d, s)
  /\ Reusable = {}
  /\ proc[h] = "free"
  /\ proc' = [proc EXCEPT ![h] = "up"]
  /\ call' = [call EXCEPT ![a] = [phase |-> "spawn", takeover |-> FALSE,
                                  host |-> h, session |-> s]]
  /\ UNCHANGED <<state, rows, hosts, ready, serves, adopts, routes, stopping, work, closing>>

(* takeOverTuiSession: the adopted TUI is in the table before initialize.  *)
TakeOver(a, d, s, h) ==
  /\ s # None
  /\ Begin(a, d, s)
  /\ \A k \in hosts : adopts[k] # s
  /\ proc[h] = "free"
  /\ proc' = [proc EXCEPT ![h] = "up"]
  /\ hosts' = hosts \cup {h}
  /\ adopts' = [adopts EXCEPT ![h] = s]
  /\ call' = [call EXCEPT ![a] = [phase |-> "spawn", takeover |-> TRUE,
                                  host |-> h, session |-> s]]
  /\ UNCHANGED <<state, rows, ready, serves, routes, stopping, work, closing>>

(* initialize answered.                                                    *)
HostStarted(a) ==
  /\ call[a] \in Calls
  /\ call[a].phase = "spawn"
  /\ proc[call[a].host] = "up"
  /\ hosts' = hosts \cup {call[a].host}
  /\ ready' = ready \cup {call[a].host}
  /\ call' = [call EXCEPT ![a].phase = "picked"]
  /\ UNCHANGED <<state, rows, proc, serves, adopts, routes, stopping, work, closing>>

(* initialize was refused, timed out or lost its transport.  No row exists *)
(* yet.  An adopted TUI is released; a spawned process is left behind.     *)
HostNotStarted(a) ==
  /\ call[a] \in Calls
  /\ call[a].phase = "spawn"
  /\ call' = [call EXCEPT ![a] = EndedCall]
  /\ IF call[a].takeover THEN Release(call[a].host) ELSE UNCHANGED <<hosts, ready, proc>>
  /\ UNCHANGED <<state, rows, serves, adopts, routes, stopping, work, closing>>

(* #bindAgentToSession up to openSession: the row appears, and a resume is *)
(* routed before its history can be replayed.                              *)
Bind(a) ==
  /\ call[a] \in Calls
  /\ call[a].phase = "picked"
  /\ state' = [state EXCEPT ![a] = "starting"]
  /\ sessionAgent' = [s \in Sessions |-> IF s = call[a].session THEN a ELSE sessionAgent[s]]
  /\ call' = [call EXCEPT ![a].phase = "open"]
  /\ UNCHANGED <<rows, machines, agentHost, stopping, work, closing>>

(* session/new or session/load answered.  The process may have been told   *)
(* to go meanwhile; what it wrote before it went is still read.            *)
OpenOk(a, s) ==
  /\ call[a] \in Calls
  /\ call[a].phase = "open"
  /\ proc[call[a].host] \in {"up", "killed"}
  /\ IF call[a].session = None THEN s \notin recorded ELSE s = call[a].session
  /\ recorded' = recorded \cup {s}
  /\ session' = [session EXCEPT ![a] = s]
  /\ state' = [state EXCEPT ![a] = "idle"]
  /\ agentHost' = [agentHost EXCEPT ![a] = call[a].host]
  /\ sessionAgent' = [sessionAgent EXCEPT ![s] = a]
  /\ serves' = [serves EXCEPT ![call[a].host] = @ \cup {a}]
  /\ call' = [call EXCEPT ![a] = EndedCall]
  /\ UNCHANGED <<revoked, hosts, ready, proc, adopts, stopping, work, closing>>

(* Defect: the failed resume keeps its route.                              *)
KeepRoute(a) == sessionAgent

(* A failed open takes back its own route and nobody else's.               *)
TakeBackRoute(a) ==
  [s \in Sessions |-> IF s = call[a].session /\ sessionAgent[s] = a
                        THEN None ELSE sessionAgent[s]]

(* Defect: the transport closes without rejecting what it still owes.      *)
OpenFailedWhileUp(a) ==
  /\ call[a] \in Calls
  /\ call[a].phase = "open"
  /\ proc[call[a].host] = "up"
  /\ sessionAgent' = TakeBackRoute(a)
  /\ IF serves[call[a].host] = {} THEN Release(call[a].host)
                                  ELSE UNCHANGED <<hosts, ready, proc>>
  /\ state' = [state EXCEPT ![a] = "failed"]
  /\ call' = [call EXCEPT ![a] = EndedCall]
  /\ UNCHANGED <<rows, serves, adopts, agentHost, stopping, work, closing>>

(* openSession threw: refused, timed out, or the transport closed.         *)
OpenFailed(a) ==
  /\ call[a] \in Calls
  /\ call[a].phase = "open"
  /\ sessionAgent' = TakeBackRoute(a)
  /\ IF serves[call[a].host] = {} THEN Release(call[a].host)
                                  ELSE UNCHANGED <<hosts, ready, proc>>
  /\ state' = [state EXCEPT ![a] = "failed"]
  /\ call' = [call EXCEPT ![a] = EndedCall]
  /\ UNCHANGED <<rows, serves, adopts, agentHost, stopping, work, closing>>

-----------------------------------------------------------------------------
(***************************************************************************)
(* prompt, its queue, and the finally block a turn unwinds through.        *)
(***************************************************************************)

(* Defect: the guard on the running turn is gone.                          *)
AlwaysFree(a) == TRUE

(* No turn in flight.                                                      *)
Free(a) == inFlight[a] = 0

(* A turn starts: counted, the row busy, audited, then client.prompt.      *)
Prompt(a, d) ==
  /\ ~closing
  /\ Authorized(d)
  /\ Resolves(a)
  /\ Free(a)
  /\ turns[a] < TurnBound
  /\ inFlight' = [inFlight EXCEPT ![a] = @ + 1]
  /\ turns' = [turns EXCEPT ![a] = @ + 1]
  /\ state' = [state EXCEPT ![a] = "busy"]
  /\ promptedBy' = [promptedBy EXCEPT ![a] = d]
  /\ UNCHANGED <<rows, machines, routes, call, stopping, queue, closing>>

(* A follow-up waits behind the running turn.  A plain prompt is refused,  *)
(* and so is a follow-up when the queue is full.                           *)
FollowUp(a, d) ==
  /\ ~closing
  /\ Authorized(d)
  /\ Resolves(a)
  /\ ~Free(a)
  /\ Len(queue[a]) < QueueMax
  /\ queue' = [queue EXCEPT ![a] = Append(@, d)]
  /\ UNCHANGED <<state, rows, machines, routes, call, stopping, turns, inFlight,
                 promptedBy, closing>>

(* The turn of an agent that was stopped or lost its host unwinds.         *)
TurnAbandoned(a) ==
  /\ turns[a] > 0
  /\ state[a] \in Terminal
  /\ turns' = [turns EXCEPT ![a] = @ - 1]
  /\ inFlight' = [inFlight EXCEPT ![a] = 0]
  /\ queue' = [queue EXCEPT ![a] = <<>>]
  /\ UNCHANGED <<state, rows, machines, routes, call, stopping, promptedBy, closing>>

TurnEndsIdle(a) ==
  /\ turns[a] > 0
  /\ state[a] \notin Terminal
  /\ queue[a] = <<>>
  /\ turns' = [turns EXCEPT ![a] = @ - 1]
  /\ inFlight' = [inFlight EXCEPT ![a] = 0]
  /\ state' = [state EXCEPT ![a] = "idle"]
  /\ UNCHANGED <<rows, machines, routes, call, stopping, queue, promptedBy, closing>>

(* Defect: a follow-up is trusted as it was when it was queued.            *)
TrustedWhenQueued(a, d) == Resolves(a)

(* What prompt asks again of a follow-up when its turn comes.              *)
Dispatchable(a, d) == Authorized(d) /\ Resolves(a)

(* The next follow-up is taken off the queue and sent in the same piece.   *)
TurnEndsNext(a) ==
  /\ turns[a] > 0
  /\ state[a] \notin Terminal
  /\ queue[a] # <<>>
  /\ Dispatchable(a, Head(queue[a]))
  /\ queue' = [queue EXCEPT ![a] = Tail(@)]
  /\ inFlight' = [inFlight EXCEPT ![a] = 1]
  /\ state' = [state EXCEPT ![a] = "busy"]
  /\ promptedBy' = [promptedBy EXCEPT ![a] = Head(queue[a])]
  /\ UNCHANGED <<rows, machines, routes, call, stopping, turns, closing>>

(* The follow-up is refused: dropped, and nothing else runs after it.      *)
TurnEndsRefused(a) ==
  /\ turns[a] > 0
  /\ state[a] \notin Terminal
  /\ queue[a] # <<>>
  /\ ~Dispatchable(a, Head(queue[a]))
  /\ queue' = [queue EXCEPT ![a] = Tail(@)]
  /\ inFlight' = [inFlight EXCEPT ![a] = 0]
  /\ turns' = [turns EXCEPT ![a] = @ - 1]
  /\ UNCHANGED <<state, rows, machines, routes, call, stopping, promptedBy, closing>>

-----------------------------------------------------------------------------
(***************************************************************************)
(* stopAgent, the death of a host, the end of the daemon.                  *)
(***************************************************************************)

(* stopAgent up to the await of session/close.                             *)
StopBegin(a, d) ==
  /\ ~closing
  /\ Authorized(d)
  /\ Resolves(a)
  /\ a \notin stopping
  /\ stopping' = stopping \cup {a}
  /\ UNCHANGED <<state, rows, machines, routes, call, work, closing>>

(* Defect: the host of a stopped agent is left running.                    *)
NeverEmpty(h, a) == FALSE

(* The stopped agent was the last one its host served.                     *)
LastServed(h, a) == serves[h] \ {a} = {}

(* session/close was answered, or failed, which is the same.               *)
StopEnd(a) ==
  LET h == agentHost[a] IN
  /\ a \in stopping
  /\ sessionAgent' = [s \in Sessions |-> IF s = session[a] /\ sessionAgent[s] = a
                                           THEN None ELSE sessionAgent[s]]
  /\ inFlight' = [inFlight EXCEPT ![a] = 0]
  /\ queue' = [queue EXCEPT ![a] = <<>>]
  /\ serves' = [serves EXCEPT ![h] = @ \ {a}]
  /\ state' = [state EXCEPT ![a] = "stopped"]
  /\ IF LastServed(h, a) THEN Release(h) ELSE UNCHANGED <<hosts, ready, proc>>
  /\ stopping' = stopping \ {a}
  /\ UNCHANGED <<rows, adopts, agentHost, call, turns, promptedBy, closing>>

(* The process behind h ends and its transport closes.  #onHostClosed      *)
(* fails the agents of a host that is still in the table.                  *)
HostExit(h) ==
  /\ proc[h] \in {"up", "killed"}
  /\ proc' = [proc EXCEPT ![h] = "gone"]
  /\ hosts' = hosts \ {h}
  /\ ready' = ready \ {h}
  /\ state' = [a \in Agents |-> IF h \in hosts /\ a \in serves[h] THEN "failed" ELSE state[a]]
  /\ UNCHANGED <<rows, serves, adopts, routes, call, stopping, work, closing>>

(* shutdown: the rows first, then the tables, then the processes.  Calls   *)
(* that are still awaited go on unwinding.                                 *)
Shutdown ==
  /\ ~closing
  /\ closing' = TRUE
  /\ state' = [a \in Agents |-> IF /\ \E h \in hosts : a \in serves[h]
                                   /\ state[a] \notin Terminal
                                  THEN "stopped" ELSE state[a]]
  /\ inFlight' = [a \in Agents |-> 0]
  /\ queue' = [a \in Agents |-> <<>>]
  /\ hosts' = {}
  /\ ready' = {}
  /\ proc' = [h \in Hosts |-> IF h \in hosts /\ proc[h] = "up" THEN "killed" ELSE proc[h]]
  /\ UNCHANGED <<rows, serves, adopts, routes, call, stopping, turns, promptedBy>>

(* The daemon process ends, after a shutdown or without one, and the next  *)
(* one starts: memory is empty, no host survives, and every row that is    *)
(* not terminal is settled before anybody connects.                        *)
NextDaemon ==
  /\ state' = [a \in Agents |-> IF state[a] \in Terminal \cup {"none"}
                                  THEN state[a] ELSE "stopped"]
  /\ hosts' = {}
  /\ ready' = {}
  /\ proc' = [h \in Hosts |-> IF proc[h] = "free" THEN "free" ELSE "gone"]
  /\ serves' = [h \in Hosts |-> {}]
  /\ adopts' = [h \in Hosts |-> None]
  /\ agentHost' = [a \in Agents |-> None]
  /\ sessionAgent' = [s \in Sessions |-> None]
  /\ call' = [a \in Agents |-> IF call[a] = NoCall THEN NoCall ELSE EndedCall]
  /\ stopping' = {}
  /\ turns' = [a \in Agents |-> 0]
  /\ inFlight' = [a \in Agents |-> 0]
  /\ queue' = [a \in Agents |-> <<>>]
  /\ closing' = FALSE
  /\ UNCHANGED <<rows, promptedBy>>

(* revokeDevice, from the gateway or the command line.                     *)
RevokeDevice(d) ==
  /\ d \notin revoked
  /\ revoked' = revoked \cup {d}
  /\ UNCHANGED <<state, session, recorded, machines, routes, call, stopping, work, closing>>

-----------------------------------------------------------------------------
TurnEnds(a) ==
  TurnAbandoned(a) \/ TurnEndsIdle(a) \/ TurnEndsNext(a) \/ TurnEndsRefused(a)

Requested(a, d) ==
  \/ \E s \in Sessions \cup {None} :
       \/ ReuseHost(a, d, s)
       \/ \E h \in Hosts : SpawnHost(a, d, s, h) \/ TakeOver(a, d, s, h)
  \/ Prompt(a, d)
  \/ FollowUp(a, d)
  \/ StopBegin(a, d)

Opened(a) == (\E s \in Sessions : OpenOk(a, s)) \/ OpenFailed(a)

Continued(a) ==
  HostStarted(a) \/ HostNotStarted(a) \/ Bind(a) \/ Opened(a) \/ TurnEnds(a) \/ StopEnd(a)

RunningNext ==
  \/ \E a \in Agents : Continued(a) \/ \E d \in Devices : Requested(a, d)
  \/ \E h \in Hosts : HostExit(h)
  \/ \E d \in Devices : RevokeDevice(d)
  \/ Shutdown

LifeNext == RunningNext \/ NextDaemon

LifeSpec == LifeInit /\ [][LifeNext]_lifeVars

(* Every ACP request is answered, times out or loses its transport, so     *)
(* every await above ends.  Nothing is assumed of operators or hosts.      *)
Awaits == \A a \in Agents :
  /\ WF_lifeVars(HostNotStarted(a) \/ HostStarted(a))
  /\ WF_lifeVars(Bind(a))
  /\ WF_lifeVars(Opened(a))
  /\ WF_lifeVars(TurnEnds(a))
  /\ WF_lifeVars(StopEnd(a))

FairLifeSpec == LifeSpec /\ Awaits

-----------------------------------------------------------------------------
(***************************************************************************)
(* What the lifecycle promises.                                            *)
(***************************************************************************)

(* The states a row can be in while nobody is asked for an approval.       *)
StateOK == state \in [Agents -> LifeStates]
LifecycleTypeOK == LifeTypeOK /\ StateOK

(* #inFlightTurns never outlives the turn it counts, or its agent would    *)
(* refuse prompts for good: that of an agent that was stopped under a turn *)
(* and prompted again on a host it shared included.  While an agent is     *)
(* served, the count is exactly the turns that stream, and there is never  *)
(* a second one, whatever follow-ups, refusals, host deaths and late       *)
(* answers do (prompt and its finally block, stopAgent).                   *)
TurnsCounted ==
  \A a \in Agents :
    /\ inFlight[a] <= turns[a]
    /\ \A h \in Hosts :
         ~closing /\ agentHost[a] = h /\ a \in serves[h]
           => turns[a] = inFlight[a] /\ turns[a] <= 1

(* Updates and permission questions of a session only ever reach the agent *)
(* that holds it or is opening it; a failed, stopped or replaced holder    *)
(* leaves no route to a row without the session (#sessionAgent).           *)
RoutedToHolder ==
  \A s \in Sessions, a \in Agents : sessionAgent[s] = a =>
    \/ session[a] = s
    \/ call[a] \in Calls /\ call[a].phase = "open" /\ call[a].session = s

(* A host in the table serves somebody or is about to: whatever order      *)
(* creates fail and agents stop in, none is left running for nobody        *)
(* (#releaseHost, the catch of #bindAgentToSession, stopAgent).            *)
NoIdleHost ==
  \A h \in hosts : serves[h] # {} \/ \E a \in Agents : Uses(a, h)

(* A follow-up leaves the queue for a turn.                                *)
Dispatched(a) == Len(queue'[a]) < Len(queue[a]) /\ inFlight'[a] = 1

(* Every turn, that of a direct prompt and that of a follow-up, starts for *)
(* a device that is not revoked at that moment and on a host that is in    *)
(* the table, and no follow-up outlives a stop of its agent or the death   *)
(* of its host, however long it was queued (#authorize and #resolve in     *)
(* prompt, which #dispatchQueued goes through again).                      *)
AuthorizedTurn ==
  [][\A a \in Agents :
       /\ turns'[a] > turns[a] \/ Dispatched(a)
            => promptedBy'[a] \notin revoked /\ agentHost[a] \in hosts
       /\ Dispatched(a) => state[a] \notin Terminal]_lifeVars

(* An agent does not stay "starting": the open is answered, fails with its *)
(* host, or the next daemon settles the row (#bindAgentToSession).         *)
OpeningSettles ==
  \A a \in Agents : state[a] = "starting" ~> state[a] # "starting"

-----------------------------------------------------------------------------
(***************************************************************************)
(* What the repository says of the lifecycle and the code does not do.     *)
(***************************************************************************)

(* supervisor.ts, resumeAgent: a session id this daemon already has an     *)
(* agent holding is refused, so two live rows never hold one session.      *)
SessionHeldOnce ==
  \A a, b \in Agents :
    /\ a # b
    /\ session[a] # None
    /\ session[a] = session[b]
    => state[a] \in Terminal \/ state[b] \in Terminal

(* supervisor.ts, stopAgent: an agent whose row is terminal no longer owns *)
(* its session, or a later ordinary resume is "already held".              *)
TerminalHoldsNothing ==
  \A s \in Sessions : sessionAgent[s] # None => state[sessionAgent[s]] \notin Terminal

(* contracts.ts, AgentState: "busy" is a turn streaming.                   *)
BusyHasTurn ==
  \A a \in Agents : state[a] = "busy" => turns[a] > 0

=============================================================================
