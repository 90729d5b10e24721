--------------------------- MODULE QueuedIntents ---------------------------
(***************************************************************************)
(* Writes accepted by a replica and performed by the daemon that owns the  *)
(* agent: the queue (packages/core/src/store.ts, the sync routes of the    *)
(* gateway) and its drainer (packages/daemon/src/federation/               *)
(* queued-intents.ts), with what the supervisor does for it.               *)
(*                                                                         *)
(* A drain is one async function per daemon.  It sleeps in the pull, in    *)
(* the claim of the intent at hand, in its execution and in its            *)
(* acknowledgement; between two awaits it runs alone.  A call may be lost, *)
(* its answer may be lost, and a daemon may die in any of them.            *)
(***************************************************************************)
EXTENDS Integers, FiniteSets

CONSTANTS
  Daemons,        \* the delegates that drain one replica
  Intents,        \* queued_intents.id
  Agents,
  Devices,        \* paired devices
  ActionOf,       \* what an intent asks for
  AgentOf,        \* of whom; for "new-agent" the id the replica reserves
  ActorOf,        \* the device that asked for it
  None,
  FaultBound,     \* calls and answers that are lost
  QuestionBound,  \* approvals an agent asks for
  EndBound        \* deaths of hosts and ends of daemons

(* A prompt may carry images and no text.                                  *)
Prompts == {"prompt", "image-prompt"}
Kinds   == Prompts \cup {"cancel", "decide", "new-agent"}

(* An id that a replica reserves is fresh: no two creations share it.      *)
ASSUME IntentsAssumption ==
  /\ IsFiniteSet(Intents)
  /\ ActionOf \in [Intents -> Kinds]
  /\ AgentOf \in [Intents -> Agents]
  /\ ActorOf \in [Intents -> Devices]
  /\ \A i, j \in Intents :
       ActionOf[i] = "new-agent" /\ ActionOf[j] = "new-agent" /\ AgentOf[i] = AgentOf[j] => i = j
  /\ None \notin Intents \cup Daemons
  /\ FaultBound \in Nat /\ QuestionBound \in Nat /\ EndBound \in Nat

VARIABLES
  status,     \* the queue's rows; "none" is an intent nobody has queued
  seq,        \* their rowid, 0 before they are queued
  request,    \* the approval a "decide" names, by its number
  faults,     \* calls and answers lost so far
  mode,       \* a daemon: up, stopping or down
  ends,       \* how often a host died or a daemon ended
  phase,      \* where its drain sleeps
  current,    \* the intent at hand
  todo,       \* those of the batch behind it
  rows,       \* agents with a row in the daemon's store
  owns,       \* agents it has a live host for
  trusted,    \* devices its store has neither forgotten nor revoked
  turn,       \* of an agent: its turn in flight, by whom
  asked,      \* approvals it asked for
  open,       \* agents whose last one is still pending
  runs,       \* history: how often a daemon performed an intent
  missed      \* history: intents a drain passed over and left pending

queueVars == <<status, seq, request>>
drainVars == <<phase, current, todo, missed>>
agentVars == <<turn, asked, open>>
lifeVars  == <<mode, ends, rows, owns, trusted>>
vars == <<queueVars, faults, drainVars, agentVars, lifeVars, runs>>

(* The awaits of a drain that hold an intent.                              *)
Holding == {"claiming", "granted", "refused", "failed", "turn", "creating", "opening", "acking"}
Drains  == Daemons \X Intents

TypeOK ==
  /\ status \in [Intents -> {"none", "pending", "claimed", "delivered"}]
  /\ seq \in [Intents -> Nat]
  /\ request \in [Intents -> Nat]
  /\ faults \in 0..FaultBound
  /\ mode \in [Daemons -> {"up", "stopping", "down"}]
  /\ ends \in 0..EndBound
  /\ phase \in [Daemons -> {"idle", "pulling"} \cup Holding]
  /\ current \in [Daemons -> Intents \cup {None}]
  /\ todo \in [Daemons -> SUBSET Intents]
  /\ rows \in [Daemons -> SUBSET Agents]
  /\ owns \in [Daemons -> SUBSET Agents]
  /\ trusted \in [Daemons -> SUBSET Devices]
  /\ turn \in [Agents -> {"none", "drain", "client"}]
  /\ asked \in [Agents -> 0..QuestionBound]
  /\ open \subseteq Agents
  /\ runs \in [Drains -> Nat]
  /\ missed \subseteq Intents

(* Reserved ids are nobody's yet; every other agent has at most one host.  *)
Reserved == {AgentOf[i] : i \in {j \in Intents : ActionOf[j] = "new-agent"}}

Init ==
  /\ status = [i \in Intents |-> "none"]
  /\ seq = [i \in Intents |-> 0]
  /\ request = [i \in Intents |-> 0]
  /\ faults = 0
  /\ mode = [d \in Daemons |-> "up"]
  /\ ends = 0
  /\ phase = [d \in Daemons |-> "idle"]
  /\ current = [d \in Daemons |-> None]
  /\ todo = [d \in Daemons |-> {}]
  /\ \E home \in [Agents \ Reserved -> Daemons] :
       rows = [d \in Daemons |-> {a \in Agents \ Reserved : home[a] = d}]
  /\ owns = rows
  /\ trusted = [d \in Daemons |-> Devices]
  /\ turn = [a \in Agents |-> "none"]
  /\ asked = [a \in Agents |-> 0]
  /\ open = {}
  /\ runs = [p \in Drains |-> 0]
  /\ missed = {}

-----------------------------------------------------------------------------
(***************************************************************************)
(* The queue of the replica.                                               *)
(***************************************************************************)

(* claimQueuedIntent, one UPDATE guarded by the status.                    *)
Claimable(i) == status[i] = "pending"

(* The gateway of the replica queues a write for an agent it knows of and  *)
(* does not run itself, or a creation under an id it makes up.  A decision *)
(* names an approval the agent has asked for.                              *)
Enqueue(i, n) ==
  /\ status[i] = "none"
  /\ IF ActionOf[i] = "new-agent"
     THEN \A d \in Daemons : AgentOf[i] \notin rows[d]
     ELSE \E d \in Daemons : AgentOf[i] \in rows[d]
  /\ n \in IF ActionOf[i] = "decide" THEN 1..asked[AgentOf[i]] ELSE {0}
  /\ status' = [status EXCEPT ![i] = "pending"]
  /\ seq' = [seq EXCEPT ![i] = 1 + Cardinality({j \in Intents : status[j] # "none"})]
  /\ request' = [request EXCEPT ![i] = n]
  /\ UNCHANGED <<faults, drainVars, agentVars, lifeVars, runs>>

Lost == faults < FaultBound /\ faults' = faults + 1

-----------------------------------------------------------------------------
(***************************************************************************)
(* The drain of daemon d.                                                  *)
(***************************************************************************)

(* Defect: a creation waits for an owner like the rest.                    *)
EligibleOwned(d, i) == AgentOf[i] \in owns[d]

Eligible(d, i) == ActionOf[i] = "new-agent" \/ AgentOf[i] \in owns[d]

(* Defect: the batch is worked through in any order.                       *)
AnyOrder(S, i) == i \in S

(* The batch comes in the order in which its intents were queued.          *)
First(S, i) == i \in S /\ \A j \in S : seq[i] <= seq[j]

(* The loop goes on with the rest S of its batch: it passes over intents   *)
(* of agents that are not its own and claims the first that is, or ends.   *)
(* Those behind it are looked at when their turn comes.                    *)
Continue(d, S, left) ==
  LET E == {i \in S : Eligible(d, i)}
      Over(i) == {j \in S \ E : seq[j] < seq[i]}
  IN  \/ /\ E = {}
         /\ phase' = [phase EXCEPT ![d] = "idle"]
         /\ current' = [current EXCEPT ![d] = None]
         /\ todo' = [todo EXCEPT ![d] = {}]
         /\ missed' = missed \cup left \cup S
      \/ \E i \in E :
           /\ First(E, i)
           /\ phase' = [phase EXCEPT ![d] = "claiming"]
           /\ current' = [current EXCEPT ![d] = i]
           /\ todo' = [todo EXCEPT ![d] = S \ (Over(i) \cup {i})]
           /\ missed' = missed \cup left \cup Over(i)

(* The timer, and the poll of start: not while a drain is in flight.       *)
Poll(d) ==
  /\ mode[d] = "up" /\ phase[d] = "idle"
  /\ phase' = [phase EXCEPT ![d] = "pulling"]
  /\ UNCHANGED <<queueVars, faults, current, todo, missed, agentVars, lifeVars, runs>>

Pulled(d) ==
  /\ phase[d] = "pulling"
  /\ Continue(d, {i \in Intents : status[i] = "pending"}, {})
  /\ UNCHANGED <<queueVars, faults, agentVars, lifeVars, runs>>

PullFails(d) ==
  /\ phase[d] = "pulling" /\ Lost
  /\ phase' = [phase EXCEPT ![d] = "idle"]
  /\ UNCHANGED <<queueVars, current, todo, missed, agentVars, lifeVars, runs>>

(* The replica answers the claim; 409 is a refusal.                        *)
ClaimServed(d) ==
  LET i == current[d]
  IN  /\ phase[d] = "claiming"
      /\ phase' = [phase EXCEPT ![d] = IF Claimable(i) THEN "granted" ELSE "refused"]
      /\ status' = [status EXCEPT ![i] = IF Claimable(i) THEN "claimed" ELSE @]
      /\ UNCHANGED <<seq, request, faults, current, todo, missed, agentVars, lifeVars, runs>>

(* The claim fails, before or after the replica has served it.             *)
ClaimFails(d) ==
  /\ phase[d] \in {"claiming", "granted", "refused"} /\ Lost
  /\ Continue(d, todo[d], {current[d]})
  /\ UNCHANGED <<queueVars, agentVars, lifeVars, runs>>

(* The claim was refused, or the execution has thrown.                     *)
GoesOn(d) ==
  /\ phase[d] \in {"refused", "failed"}
  /\ Continue(d, todo[d], {})
  /\ UNCHANGED <<queueVars, faults, agentVars, lifeVars, runs>>

-----------------------------------------------------------------------------
(***************************************************************************)
(* #execute, from the answer to the claim to its next await.               *)
(***************************************************************************)

Performs(d, i) == runs' = [runs EXCEPT ![<<d, i>>] = @ + 1]

Sleeps(d, p) ==
  /\ phase' = [phase EXCEPT ![d] = p]
  /\ UNCHANGED <<current, todo, missed>>

(* Defect: the replica authorised the device when it queued the intent.    *)
AuthorizedWhenQueued(d, i) == TRUE

(* The supervisor reads the device again, from its own store.              *)
Authorized(d, i) == ActorOf[i] \in trusted[d]

(* What lets the supervisor go ahead with i at once.  A prompt with no     *)
(* text never reaches it.                                                  *)
Accepts(d, i) ==
  LET a == AgentOf[i]
  IN  /\ Authorized(d, i)
      /\ ActionOf[i] # "image-prompt"
      /\ ActionOf[i] # "new-agent" => a \in owns[d]
      /\ ActionOf[i] = "prompt" => turn[a] = "none"
      /\ ActionOf[i] = "decide" => a \in open /\ request[i] = asked[a]

Prompt(d, i) ==
  /\ ActionOf[i] = "prompt"
  /\ turn' = [turn EXCEPT ![AgentOf[i]] = "drain"]
  /\ Performs(d, i) /\ Sleeps(d, "turn")
  /\ UNCHANGED <<asked, open>>

Cancel(d, i) ==
  /\ ActionOf[i] = "cancel"
  /\ Performs(d, i) /\ Sleeps(d, "acking")
  /\ UNCHANGED agentVars

Decide(d, i) ==
  /\ ActionOf[i] = "decide"
  /\ open' = open \ {AgentOf[i]}
  /\ Performs(d, i) /\ Sleeps(d, "acking")
  /\ UNCHANGED <<turn, asked>>

Create(d, i) ==
  /\ ActionOf[i] = "new-agent"
  /\ Sleeps(d, IF AgentOf[i] \in owns[d] THEN "acking" ELSE "creating")
  /\ UNCHANGED <<agentVars, runs>>

Execute(d) ==
  LET i == current[d]
  IN  /\ phase[d] = "granted" /\ Accepts(d, i)
      /\ Prompt(d, i) \/ Cancel(d, i) \/ Decide(d, i) \/ Create(d, i)
      /\ UNCHANGED <<queueVars, faults, lifeVars>>

(* Defect: an execution that threw is acknowledged all the same.           *)
AckAnyway(d) ==
  /\ phase[d] = "granted" /\ ~Accepts(d, current[d])
  /\ Sleeps(d, "acking")
  /\ UNCHANGED <<queueVars, faults, agentVars, lifeVars, runs>>

(* The supervisor throws, or refuses the decision: the row stays claimed.  *)
Refuse(d) ==
  /\ phase[d] = "granted" /\ ~Accepts(d, current[d])
  /\ Continue(d, todo[d], {})
  /\ UNCHANGED <<queueVars, faults, agentVars, lifeVars, runs>>

(* createAgent: the host is there and the row is written, the session is   *)
(* opened, or one of the two fails.                                        *)
CreateBinds(d) ==
  LET a == AgentOf[current[d]]
  IN  /\ phase[d] = "creating" /\ a \notin rows[d]
      /\ rows' = [rows EXCEPT ![d] = @ \cup {a}]
      /\ Sleeps(d, "opening")
      /\ UNCHANGED <<queueVars, faults, agentVars, mode, ends, owns, trusted, runs>>

CreateEnds(d) ==
  /\ phase[d] = "opening"
  /\ owns' = [owns EXCEPT ![d] = @ \cup {AgentOf[current[d]]}]
  /\ Performs(d, current[d]) /\ Sleeps(d, "acking")
  /\ UNCHANGED <<queueVars, faults, agentVars, mode, ends, rows, trusted>>

CreateFails(d) ==
  /\ phase[d] \in {"creating", "opening"}
  /\ Continue(d, todo[d], {})
  /\ UNCHANGED <<queueVars, faults, agentVars, lifeVars, runs>>

(* acknowledgeDelivered, served; or it fails, and nobody sends it again.   *)
AckServed(d) ==
  LET i == current[d]
  IN  /\ phase[d] = "acking"
      /\ status' = [status EXCEPT ![i] = IF @ = "claimed" THEN "delivered" ELSE @]
      /\ Continue(d, todo[d], {})
      /\ UNCHANGED <<seq, request, faults, agentVars, lifeVars, runs>>

AckFails(d) ==
  /\ phase[d] = "acking" /\ Lost
  /\ Continue(d, todo[d], {})
  /\ UNCHANGED <<queueVars, agentVars, lifeVars, runs>>

-----------------------------------------------------------------------------
(***************************************************************************)
(* The agents, and the daemons' lives.                                     *)
(***************************************************************************)

(* A client of daemon d prompts one of its agents.                         *)
ClientPrompt(d, a) ==
  /\ mode[d] \in {"up", "stopping"} /\ a \in owns[d] /\ turn[a] = "none"
  /\ turn' = [turn EXCEPT ![a] = "client"]
  /\ UNCHANGED <<queueVars, faults, drainVars, asked, open, lifeVars, runs>>

Ask(a) ==
  /\ turn[a] # "none" /\ a \notin open /\ asked[a] < QuestionBound
  /\ asked' = [asked EXCEPT ![a] = @ + 1]
  /\ open' = open \cup {a}
  /\ UNCHANGED <<queueVars, faults, drainVars, turn, lifeVars, runs>>

(* A client decides, or the approval times out.                            *)
Close(a) ==
  /\ a \in open
  /\ open' = open \ {a}
  /\ UNCHANGED <<queueVars, faults, drainVars, turn, asked, lifeVars, runs>>

(* The drain that waits for a turn of agent a.                             *)
Awaits(d, a) == phase[d] = "turn" /\ AgentOf[current[d]] = a

(* Defect: the end of the turn is told to its clients only.                *)
TurnEndsUnheard(a) ==
  /\ turn[a] # "none" /\ a \notin open
  /\ turn' = [turn EXCEPT ![a] = "none"]
  /\ UNCHANGED <<queueVars, faults, drainVars, asked, open, lifeVars, runs>>

(* The turn ends, and a drain that waits for it goes on.                   *)
TurnEnds(a) ==
  /\ turn[a] # "none" /\ a \notin open
  /\ turn' = [turn EXCEPT ![a] = "none"]
  /\ \/ \E d \in Daemons : Awaits(d, a) /\ Sleeps(d, "acking")
     \/ (\A d \in Daemons : ~Awaits(d, a)) /\ UNCHANGED drainVars
  /\ UNCHANGED <<queueVars, faults, asked, open, lifeVars, runs>>

(* The host of an agent dies: its turn fails, and so does a drain that     *)
(* waits for it.                                                           *)
HostDies(d, h) ==
  /\ h \in owns[d] /\ ends < EndBound
  /\ ends' = ends + 1
  /\ owns' = [owns EXCEPT ![d] = @ \ {h}]
  /\ turn' = [turn EXCEPT ![h] = "none"]
  /\ open' = open \ {h}
  /\ IF Awaits(d, h)
     THEN Sleeps(d, "failed")
     ELSE UNCHANGED drainVars
  /\ UNCHANGED <<queueVars, faults, asked, mode, rows, trusted, runs>>

Revoke(d, v) ==
  /\ v \in trusted[d]
  /\ trusted' = [trusted EXCEPT ![d] = @ \ {v}]
  /\ UNCHANGED <<queueVars, faults, drainVars, agentVars, mode, ends, rows, owns, runs>>

(* What the end of a daemon leaves of its agents.                          *)
Emptied(d) ==
  /\ owns' = [owns EXCEPT ![d] = {}]
  /\ turn' = [a \in Agents |-> IF a \in owns[d] THEN "none" ELSE turn[a]]
  /\ open' = open \ owns[d]
  /\ UNCHANGED <<asked, rows, trusted>>

Crash(d) ==
  /\ mode[d] # "down" /\ ends < EndBound
  /\ ends' = ends + 1
  /\ mode' = [mode EXCEPT ![d] = "down"]
  /\ phase' = [phase EXCEPT ![d] = "idle"]
  /\ current' = [current EXCEPT ![d] = None]
  /\ todo' = [todo EXCEPT ![d] = {}]
  /\ Emptied(d)
  /\ UNCHANGED <<queueVars, faults, missed, runs>>

Restart(d) ==
  /\ mode[d] = "down"
  /\ mode' = [mode EXCEPT ![d] = "up"]
  /\ UNCHANGED <<queueVars, faults, drainVars, agentVars, ends, rows, owns, trusted, runs>>

(* Daemon.stop begins with the drainer's stop: no more polls, then wait    *)
(* for the drain in flight.  The supervisor is shut down after it.         *)
Stop(d) ==
  /\ mode[d] = "up" /\ ends < EndBound
  /\ ends' = ends + 1
  /\ mode' = [mode EXCEPT ![d] = "stopping"]
  /\ UNCHANGED <<queueVars, faults, drainVars, agentVars, rows, owns, trusted, runs>>

StopReturns(d) ==
  /\ mode[d] = "stopping" /\ phase[d] = "idle"
  /\ mode' = [mode EXCEPT ![d] = "down"]
  /\ Emptied(d)
  /\ UNCHANGED <<queueVars, faults, drainVars, ends, runs>>

-----------------------------------------------------------------------------
Call(d) == ClaimServed(d) \/ ClaimFails(d) \/ AckServed(d) \/ AckFails(d)
Work(d) == Execute(d) \/ Refuse(d) \/ CreateBinds(d) \/ CreateEnds(d) \/ CreateFails(d)
Drain(d) == Poll(d) \/ Pulled(d) \/ PullFails(d) \/ Call(d) \/ GoesOn(d) \/ Work(d)
Life(d) == Crash(d) \/ Restart(d) \/ Stop(d) \/ StopReturns(d)

Next ==
  \/ \E i \in Intents, n \in 0..QuestionBound : Enqueue(i, n)
  \/ \E d \in Daemons : Drain(d) \/ Life(d)
  \/ \E d \in Daemons, a \in Agents : ClientPrompt(d, a) \/ HostDies(d, a)
  \/ \E a \in Agents : Ask(a) \/ Close(a) \/ TurnEnds(a)
  \/ \E d \in Daemons, v \in Devices : Revoke(d, v)

Spec == Init /\ [][Next]_vars

(* The timer fires and the process runs what is ready; the replica answers *)
(* what it is asked; a creation ends one way or the other; an approval     *)
(* that nobody decides times out, and a turn that waits for none ends.     *)
(* Nobody has to queue, prompt, ask, revoke, crash, stop or restart.       *)
Fairness ==
  /\ \A d \in Daemons :
       /\ WF_vars(Poll(d)) /\ WF_vars(Pulled(d) \/ PullFails(d))
       /\ WF_vars(Call(d)) /\ WF_vars(GoesOn(d)) /\ WF_vars(Work(d))
       /\ WF_vars(StopReturns(d))
  /\ \A a \in Agents : WF_vars(Close(a)) /\ WF_vars(TurnEnds(a))

FairSpec == Spec /\ Fairness

-----------------------------------------------------------------------------
(***************************************************************************)
(* Properties.                                                             *)
(***************************************************************************)

(* An intent takes effect at most once, whoever claims it, whatever answer *)
(* is lost and whoever dies: claimIntent comes before the execution.       *)
AtMostOnce ==
  \A p, q \in Drains : p[2] = q[2] /\ runs[p] > 0 /\ runs[q] > 0 => p = q /\ runs[p] = 1

(* The queue with its drains is a ledger: a write is recorded, taken once, *)
(* performed, and confirmed only after it was performed.                   *)
Performed(i) == \E d \in Daemons : runs[<<d, i>>] > 0

Fate(i) ==
  IF status[i] = "none" THEN "absent"
  ELSE IF status[i] = "pending" THEN "recorded"
  ELSE IF status[i] = "delivered" THEN "confirmed"
  ELSE IF Performed(i) THEN "performed" ELSE "taken"

Ledger == INSTANCE IntentLedger WITH fate <- [i \in Intents |-> Fate(i)]
ImplementsLedger == Ledger!LedgerSpec

(* A write of an agent takes effect after a later one only if a drain had  *)
(* passed it over: its claim failed, or the agent was not its own.         *)
OrderedUnlessMissed ==
  [][\A d \in Daemons, i, j \in Intents :
       /\ runs'[<<d, i>>] > runs[<<d, i>>] /\ Performed(j)
       /\ AgentOf[i] = AgentOf[j] /\ seq[i] < seq[j]
       => i \in missed]_vars

(* A device revoked at a daemon while its write is still pending gets      *)
(* nothing done there: the authority of the queue is the live row.         *)
NoRevokedAuthority ==
  \A d \in Daemons, i \in Intents :
    [](status[i] = "pending" /\ ActorOf[i] \notin trusted[d] => [](runs[<<d, i>>] = 0))

(* A write whose agent stays with a running daemon leaves the queue, and   *)
(* so does a creation, which any of them may take.                         *)
PendingIsTaken ==
  \A d \in Daemons, i \in Intents :
    LET Waits == /\ status[i] = "pending" /\ mode[d] = "up"
                 /\ ActionOf[i] = "new-agent" \/ AgentOf[i] \in owns[d]
    IN  Waits ~> ~Waits

(* The drainer's stop returns: nothing it waits for waits for ever.        *)
StopEnds == \A d \in Daemons : mode[d] = "stopping" ~> mode[d] # "stopping"

(* "Execute eligible intents in source order" (queued-intents.ts:136).     *)
SourceOrder ==
  [][\A d \in Daemons, i, j \in Intents :
       /\ runs'[<<d, i>>] > runs[<<d, i>>] /\ runs[<<d, j>>] > 0
       /\ AgentOf[i] = AgentOf[j]
       => seq[j] < seq[i]]_vars

(* "An image-only prompt is a real prompt" (gateway.ts:4570): one that the *)
(* supervisor would take as a text is not refused.                         *)
ImagePromptIsPrompt ==
  \A d \in Daemons :
    phase[d] = "granted" /\ ActionOf[current[d]] = "image-prompt" =>
      \/ Accepts(d, current[d])
      \/ ~Authorized(d, current[d])
      \/ AgentOf[current[d]] \notin owns[d]
      \/ turn[AgentOf[current[d]]] # "none"
=============================================================================
