# A TLA+ model of ompctl

ompctl runs coding agents on a machine and lets paired devices watch, prompt,
approve and stop them, directly or through a relay. The daemon (`ompd`) is one
process on one event loop. It starts ACP hosts, opens sessions on them, gates
every tool call, runs routines, and answers a gateway; nothing of it is parallel,
but almost every operation awaits somebody in its middle, and everything else may
happen there. That is what these specifications are about.

## Inventory

Paths are below `src/packages`.

| Component | State it keeps | Operations | Talks to | What makes it correct |
| --- | --- | --- | --- | --- |
| Supervisor, lifecycle (`daemon/src/supervisor.ts`) | hosts, agents per host, session routes, turn counts, prompt queues | create, resume, take over, prompt, follow up, stop, shutdown | store, ACP hosts, gateway, scheduler | one turn at a time, truthful rows, no orphaned host, routes only to holders, current authority |
| Supervisor, gate (same file) | pending questions, timers, plan reviews | ask, decide, time out | policy, store, devices | nothing allowed without authority; every question ends; one final record |
| Store (`core/src/store.ts`) | SQLite rows | one statement or transaction per call | everybody in the daemon | rows survive a crash at any point |
| ACP client (`acp/src/client.ts`) | request table of one transport | request, notify, close | a host process | every request ends |
| Scheduler (`daemon/src/routines/scheduler.ts`) | due times, runs in flight | tick, run, webhook, drain, delete | supervisor, store | one run of a singleton, no run left unsettled, final records stay |
| Queued intents (`daemon/src/federation/queued-intents.ts`) | one drain in flight | pull, claim, execute, acknowledge | a replica, supervisor | at most once, in order, with live authority |
| MCP auth broker (`daemon/src/mcpauth`) | grants, access tokens, exchanges in flight | token, refresh, sweep, login, import, forget | token endpoints, sealed rows | a refresh token is redeemed once; a fresh grant is never lost |
| Hub (`hub/src`) | legs of daemons and clients, sessions, presence leases | register, open, relay, acknowledge, tick, close | backplane, registry | order, no session across legs, nobody waits on a dead stream |
| Tunnel (`tunnel/src`) | one outbound leg, sealed sessions | dial, register, admit, seal, acknowledge | hub, gateway | order, one leg, no admission after teardown |
| Gateway (`daemon/src/gateway`) | sockets, attachments, marks of what was delivered, approvals shown | attach, replay, push, detach, request, revoke | supervisor, store | no update lost or repeated across replay, every pending approval shown |
| Client library (`core/src/ompd-client.ts`) | socket and its generation, attachments, watermarks | connect, reattach, drop, call | gateway or tunnel | resumes where it was, over any number of sockets |
| Model broker (`daemon/src/model-broker`) | grants, reservations | admit, refund, release, revoke | providers | limits hold, a revoked grant ends |
| Provisioner (`daemon/src/provisioner`) | containers, leases | acquire, release, reap | a container runtime | no container for nobody |
| Session index (`daemon/src/sessions`) | offsets into transcripts | scan, tail, watch | files of omp | no line lost or read twice |
| Evolution (`daemon/src/evolution`) | proposals, worktrees | submit, gate, promote | git, supervisor | what is promoted is what was gated |
| Collab, voice, browser, filesystem, artifacts, providers | small tables | requests of a device | outside programs | their own protocols |
| App (`app/src/console`, `app/src/session`) | per agent a watermark, a transcript, cards of approvals | select, leave, decide, prune | client library | transcript and cards are what the daemon has |
| Command line, site, omp extension | user interface | | gateway | outside the model |

`PROJECT.json` lists every component with what is modelled, and every hazard at
its line with the properties that cover it.

## Modules

| Module | Models |
| --- | --- |
| `ApprovalGate` | `#gate` and everything that answers it: policy, operators, timers, repeated ids, plan reviews, revocation, restart. Also the abstract specification of the gate for the whole supervisor |
| `AgentLifecycle` | create, resume, takeover, prompt, queue, stop, host death, shutdown, next daemon |
| `Supervisor` | both together, meeting in the state of a row and in the device rows; implements `ApprovalGate` |
| `Scheduler` | routines: tick, operator and webhook fires, the actions of a run, deadlines, retirement, drain, deletion, the next daemon |
| `McpAuth` | the broker of MCP grants: requests, forced refreshes, the sweep, exchanges and their answers, over rows that logins, imports and forgets replace; restarts |
| `IntentLedger` | what the queue of a replica promises: a write is recorded, taken once, performed once, confirmed only then |
| `QueuedIntents` | the queue of a replica and the daemons that drain it: pull, claim, execution of each kind of write, acknowledgement, lost calls and answers, revocation, stop, crash and restart; implements `IntentLedger` |
| `HubRelay` | hub instances, their backplane, the tunnel of one daemon and its clients: registration, replacement, leases, sessions, frames and acknowledgements, disruption and death of an instance |
| `ModelAccess` | grants of containers, the brokers and bind loops of a shared address, and the requests a guest sends through them |
| `Replay` | the log and the approvals of one agent, the gateway's socket data, the wires, the client that reconnects and reattaches, and the console's transcript and cards |
| `MCApprovalGate`, `MCAgentLifecycle`, `MCSupervisor`, `MCScheduler`, `MCMcpAuth`, `MCQueuedIntents`, `MCHubRelay`, `MCModelAccess`, `MCReplay` | instances for TLC |
| `ApprovalGateProofs`, `SupervisorProofs` (with the lifecycle), `SchedulerProofs`, `McpAuthProofs`, `QueuedIntentsProofs`, `HubRelayProofs`, `ModelAccessProofs`, `ReplayProofs` | theorems |

**An action is the code between two awaits.** `createAgent`, `resumeAgent` and
`takeOverTuiSession` share three pieces: choose a host (`ReuseHost`, `SpawnHost`,
`TakeOver`, then `HostStarted` or `HostNotStarted`), write the row (`Bind`), open
the session (`OpenOk`, `OpenFailed`). `prompt` is `Prompt` up to the await of
`client.prompt` and one of the `TurnEnds...` actions for its finally block, which
dispatches the next follow-up in the same piece. `stopAgent` is `StopBegin` and
`StopEnd` around `session/close`. `#onHostClosed` is `HostExit`.

A call of `#gate` is a continuation in `gate`: `AskPolicy` when a rule decides,
`AskOperator` when it sleeps, then `Decide` or `Timeout`. The code resolves a
promise and the continuation runs in the next microtask; no other piece can come
between, so each is one action. The continuation remembers the state of the row it
interrupted (`before`), as the closure does. Requests are ids a host may repeat.

In `ApprovalGate` the action `RowWrite` stands for the rest of the supervisor: any
write of rows except to "waiting". `Supervisor` replaces it by the real lifecycle,
and `ImplementsGate` says that this is all the lifecycle ever does to the gate, so
each promise of the gate holds of the whole.

A run of a routine is a coroutine too. `Fire` is `#execute` and `#executeRun` up to
the first await, for `Tick`, `RunNow` and `FireWebhook`. `phase` is the await a run
sleeps in and `at` the action; `Created`, `TurnEnds`, `Cancelled`, `Stopped` and so
on each run from the answer of one await to the next await. `Proceed` is the loop
head and everything behind it: break off, walk to the next action, or end and
leave `#inflight`. `run` is the object in memory, `row` what the store holds; they
differ exactly where the code has not recorded yet. The supervisor is seen through
what its promises settle to, so the scheduler is checked against every answer, in
every order, and not against the particular ones `Supervisor` gives.

Abstractions of the scheduler: "refused" is "failed"; which prompts are blank and
which actions have a deadline is left open; a manual trigger is a hook nobody
calls; a definition may be written by a request that read it before it was
deleted; store writes do not throw; the microtasks between the end of a run and its
leaving `#inflight` are not separate steps. Cron arithmetic is one step of `Clock`.

`McpAuth` cuts an exchange in two at its only await. The first piece is the code of
whoever asks: `AccessTokenFor` for a proxied request, `Refused` for one whose bearer
the upstream rejected (it forgets the bearer and asks again), `RefreshNow`,
`SweepBegins` and `SweepResumes`. All go through `Refresh`, which is `#refresh` and
`#exchange` up to the request: join, refuse a row that cannot be refreshed, or send.
The second piece is the answer: `Renewed`, `Fails`, `Definitive`; with it everybody
who waited goes on. `sweeping`, `todo`, `held` and `awaited` are the local state of
`#sweep`: `grants.list()` is a snapshot, so the states it tested and the deadlines it
compares are old by the time it has awaited another grant. A login's `save` and
`acceptInitialAccessToken` are one piece, and so are an import's `save` and `setState`.
Two things are not in the code: `newest` records which generation of a token has ever
been stored, and `forced` marks the exchanges an operator asked for.

A token that an answer brings may complete a row that had nothing to refresh with
(`Supplied`), since `rotateRefreshToken` writes it into whatever row there is. A backoff the
sweep has listed may pass although the row was replaced (`ListedBackoffEnds`). Opening the
store condemns rows that do not name how their client is authenticated (`Opened`): rows of an
older database, and those of an import that was cut off between its two writes.

Abstractions of the broker: a refresh token is a generation of an authorization, and
providers are seen through their answers, in any order and of any kind; deadlines are
ahead or passed; why a row cannot be refreshed is one of two reasons (`means`); the
store throws only when a successor is written; the order in which a sweep visits names
is left open; sealing of rows, the proxy's screening and cooldown, the browser flow,
and what a forget does to OMP's configuration are left out.

`QueuedIntents` has two sides. The queue is rows of the replica's store; a claim is
one `UPDATE` guarded by the status. A drain is a coroutine of a daemon: `phase` is the
await it sleeps in, `current` the intent at hand, `todo` the rest of its batch, which is
a list made before all of the awaits. `Continue` is the loop: pass over what is not for
this daemon when it is reached, claim the first that is, or end. A failed claim and a failed
acknowledgement are each two things in the world, the call or the answer lost, which
`ClaimFails` covers by applying before and after `ClaimServed`. `Accepts` is what the
supervisor answers at that moment, from its own rows: `Authorized` is read again, the
agent must be here, a prompt must not find a turn, a decision must name the question
that is open. `runs` and `missed` are history. Of the supervisor this model keeps who
has which agent, its turn and its last question; `Supervisor` says what the real one
does. `created_at` and the rowid order a batch in the code, and the model takes them to
agree, as they do while the replica's clock does not step back. Pagination, contents
and the replica's copies of rows are left out.

`HubRelay` has three places. The tunnel: `live` is the leg its handlers speak for, so a
handler of another leg must do nothing; `tun` is its sessions. An instance: the leg on
record (`holds`), sessions (`joined`), the commands it has issued and the backplane has
not executed (`out`, in order). An action is what runs between two awaits, so the close
handler is `Closed`, then the release in the backplane, then one `TearOne` per session,
and registration is `Dial` up to the lookup and `Registered` behind it. A frame is its
number; `dTook`, `cTook` are what an end has taken and acknowledged, `toD`, `toC` what an
instance has billed a session or a leg for, and `Overdue...` is the tick that finds them
apart.

Commands may be rejected, and each rejection is followed as the code does: a claim
(`ClaimFails`) leaves the leg on record unconfirmed, a renewal (`RenewFails`) counts as not
held, and a release or the close of one session ends the close handler, since its rejection
is only logged (hub.ts:224), so that the remaining sessions are not torn (`ReleaseFails`,
`TearFails`). A session that no other closing leg of the daemon will tear is then `holed`,
as is one that lost an envelope: the client of such a session may wait on a dead stream for
ever, which is the divergence `EachClientIsTold` below, and the properties about it are
about every other session. A rejected publish anywhere else is a lost envelope (`Lose`).

Abstractions of the relay: one daemon; a frame on an open websocket arrives at once,
one on a broken or closed websocket never; the close handler of a client's leg runs at
once; renewals that find the lease held, and closes that find nothing to close, are no
steps; a lookup for a client that is rejected is an open that is lost, and one that finds
nobody (487-491), which closes the leg of a client nothing was opened for, is left out; so is
the hub's own test of the numbers of frames (552, 680), since a websocket keeps their order;
a session is admitted or ended, without credentials and sealing; `Break` stands
for every reason for which an instance closes a leg (rate, refusal, enrollment).

`ModelAccess` follows one address of the host, the gateway of the container networks on it,
which exists while a container runs. `current` and `bound` are what `ModelAccessProvider`
knows of it, `socket` is which broker's server has it. A bind loop is `tries`, and `probing`
the await in which it looks for the reason of its failure; who waits for it settles with it.
A request reserves its slot before its first await (`Admit`), and leaves on each of the
paths of `#fetch` through `Refunds` or `Releases`, which do nothing once the reservation is
`settled`: the stream's meter has two hooks that release, and which of them a runtime calls
is not the broker's, so the model lets the second follow the first (`StreamEnds`,
`EndsAgain`). `revoked` is the abort signal of a grant. A grant's time ends only while its
container runs, since a provision takes less than the hour it lasts; the token ceiling, the
check of the peer and everything that only denies is left out; the loopback services start
or fail; closing of the whole (model-access.ts:582-599), and the unwinding of a grant whose
audit sink throws (425-466), are left out.

`Replay` has four places in a row: the supervisor, the gateway's data of one socket, the
client library, the console; the two wires between the middle ones are sequences. Each
handler of a frame is an action, as is each synchronous run of the supervisor with all it
pushes: `Ask` and `Settle` push a roster frame and then the question or its end. The
gateway's `delivered` and `shown` are the data that drop copies; `watermark` and
`watching` outlive sockets, `held`, `seen` and `cards` belong to the console and go when
its session is pruned. The model follows one socket, the current one: handlers of earlier
ones return at once (`generation`), and what the daemon still does for an abandoned one
is a push into nothing, or a decision, which `SettledElsewhere` covers. `cut` and
`eclipsed` are history. `cut` is what a full page withheld and no later attach has fetched
(`Fetched`): an attach from below it that arrives before anything later does brings it after
all. `eclipsed` is the pending approvals a roster frame has hidden, and those whose id the
host has used before on a socket that showed it then: `#deliverApproval` never forgets an id
(gateway.ts:6492), so such a question sends no card. An id is asked again only once it is
settled; the repeat of one that is pending is `ApprovalGate`'s matter. A socket may also hang
while it is being opened; the client has no deadline for that (ompd-client.ts:1605), so
that it ends then is fairness of the network stack.

Abstractions of the replay: one agent, so a socket that leaves it is attached to nothing;
frames that neither move a watermark nor a card are left out, and plan reviews, which take
the path of approvals; the device may approve; follow-ups are prompts; "failed" is
"stopped"; a network error, a close for backpressure and the end of the daemon are one
action, `Break`, with or without the daemon's rows; pruning takes longer than a frame is
under way, since it takes eight other sessions.

Abstractions of the supervisor: all requests name the same host spec (so hosts are interchangeable);
prompts, updates, tool inputs and audit rows have no content; policy is the set of
verdicts over the probes of a call; a device's scopes are "may approve" and "not
revoked"; replica rows, MCP attachment and the sub-agent registry are left out.
`cancel` changes no state of the daemon and is left out. Every agent id is used for
one create; every host process starts once. A host of a TUI session has a fresh id in the
model, while the code keys it `tui:<session>` (supervisor.ts:806) and may use the key again
after a stop or a failed open; a dead host's session cannot be taken over again, as its route
stays. The bridge's close is heard when it is closed, so no event of the earlier host is
outstanding; what differs is that an agent stopped under the first host resolves to the
second, which the model has with a host that two agents share. A process that did not
initialise leaves the table in the piece that notices it (`HostNotStarted`); what becomes of
the process itself is not modelled, and `NoIdleHost` speaks of the table.

## Runs

| Run | Shows |
| --- | --- |
| `gate` | One agent, two request ids, three questions: enough for a repeated id, for overlap on one row and for both at once. Symmetry over questions and ids (safety only) |
| `lifecycle` | Two agents, two hosts, two sessions (one recorded on disk, one new), queue of two, two unsettled turns per agent (`TurnBound`). Two agents are the least that race for a session, a route, or a host's release |
| `supervisor` | One agent, one host, two questions on one id, a plan: a question before a turn, one inside it, a stop, a dead host, a restart |
| `scheduler` | One routine with four definitions (off, singleton or not, clock, broken or hook), two runs of two actions: overlap on a singleton, a retry from the second action, a drain that waits or gives up, late answers to a settled run, deletion under all of it |
| `mcp_auth` | Two grants, two exchanges, one login of each, one import of the first, one rotation per authorization (`GenBound`). Two grants, because the sweep's list of one goes stale while it awaits the other; a login and an import, because they replace a row while its token is out; all with restarts, so a new process meets every kind of row |
| `intents` | Two daemons, a creation and a prompt for what it creates, one lost call or answer, one end of a host or daemon: two drains are the least that race for a claim, a creation the only write two may take |
| `intent_order` | One daemon, three writes of one agent (prompt, decision, cancel), one question, one fault, one end: a write can fail, the next overtake it, and the last be revoked under way |
| `relay` | Two instances, two dials to either of them, one client, no frames, one fault: a leg and its successor, at the same instance or at another, with every late event of the first |
| `relay_frames` | One leg, one session, two frames each way, two faults: the least in which a first frame is lost and a second one shows it, or the last is lost and nothing follows |
| `model_access` | Two containers on one address, two tries of a bind loop, three requests, one at a time and two in all: one broker after another, and one request more than either ceiling |
| `replay` | One agent, three updates, one approval, one update per page, one fault, and clicks while at most one frame is under way: the least in which a page withholds an update and a later one jumps over it, an attach is under way while its answer to an earlier one is, and a socket is lost at any point. `Questions = {q1, q2}` with two updates and clicks on empty wires passes as well, and so does a page of two |
| `session_held_once` | A statement of the repository that the code does not keep; see `findings` in `PROJECT.json`, and Divergences below for others |

`relay` stops when the dials and the fault are used up, `relay_frames` also when the
tunnel is stopped, and `model_access` when the containers are gone, so these three do
not check for deadlock. Each fault of the relay is any of: a link broken or closed, an
envelope lost, a command rejected, an instance dead or cut off, the tunnel stopped.

The bounds are `TurnBound` (turns that were abandoned and have not unwound), `QueueMax` and
`HostCap`, which the code has as 20 and 16, `Logins`, `Imports` and `GenBound` of the
broker, and the size of the constant sets; run ids are used once, so a behaviour has at most
two runs, which is what overlap needs. Routines share nothing but `#draining`, and two
actions are the least of which the first can be skipped while the second runs. Two turns are
enough to see a second one over a first; a third adds no new order. `HostCap` is 2 so that
one host serves both agents in some behaviours and, one being full or gone, a second is
started in others.

The bounds of the later modules are `FaultBound` (what is lost or dies), `QuestionBound`
and `EndBound` of the intents, `LegBound` and `FrameBound` of the relay, `Attempts`,
`MaxConcurrent` and `MaxRequests` of model access, which the code has as 20, 4 and 2,000,
and `UpdateBound`, `FaultBound` and `WireBound` (frames under way when the operator clicks)
of the replay, whose `PageLimit` is 1,000 in the code.

`Imports` is 1 in `mcp_auth` because of `RetryingIsSafe` (see Divergences): with two imports
of a grant `NeverRedeemsSpent` and `SuccessorFirst` fail in just this way, and the theorems
about them say so in their hypothesis. A rotation more per authorization only repeats the
first.

## Fairness

* Timers of questions and plan reviews fire (`Timers`, `FairSpec`): the code sets
  one for each continuation. Operators need never answer.
* An await of the daemon ends (`Awaits`): the ACP client answers, times out or
  rejects every request when its transport closes. Nothing is assumed of hosts,
  operators, or the next restart.
* `drain` goes on (`DrainWaits`, `DrainSettles`): cancellations are notifications
  and the wait has a timer. `DrainReturns`, a part of `RunsSettle`, needs nothing else:
  the runs it waits for may hang for ever.
* That runs end, the other part, also assumes that the awaits of a run end (`AwaitsEnd`),
  which is its antecedent rather than the specification's: a request has a deadline in the
  ACP client, two minutes in general and an hour for a turn.

* A drain of intents goes on when what it awaits is there, the replica answers, a
  creation ends, an unanswered question times out, and a turn that waits for none ends
  (`QueuedIntents!Fairness`). Nobody has to queue, ask, crash or restart.
* A hub's and a tunnel's timers fire, handlers go on, the backplane executes what it is
  given, a lease that nobody renews expires, and a dial finds an instance
  (`HubRelay!Fairness`): the tunnel dials with backoff for ever. No client has to send.
* Both ends of a socket read what has arrived, a dead socket is noticed by the missing pong
  (before it is open, by the network stack alone),
  and the client dials again for ever (`Replay!FairSpec`). No agent has to speak and no
  operator to click; `CatchesUp` is what a watched agent's transcript does by itself.
* `ModelAccess` states no fairness: a guest, a gateway and a runtime owe nothing.
* The sweep has an interval timer and goes on when its await has ended
  (`SweepBegins`, `SweepResumes`). That token endpoints answer (`AnswersCome`) is an
  antecedent of `AgingEnds` and no fairness: the broker sets an exchange no deadline,
  so one endpoint that never answers keeps its grant and the whole sweep waiting.
  Requests and operators may never come, so `AgingEnds` is the sweep's own merit.

## Proofs

All for every value of the constants. TLC first found the invariants to hold on the
instances above.

*Gate.* Types are inductive. `WaitingIsAsked` is not: the question that is left
could be one that writes "waiting" back. `WaitInv` says there always is one that
interrupted something else (`Interrupter`). `PendingIsAsking` is inductive with
types. `AnswerIsRecorded` needs the whole life of a row (`TableInv`): absent until
asked, open while nobody answered, decided by some answer. `DecisionIsFinal` and
`AllowIsAuthorised` are step properties; the second needs `PendingIsAsking`.

*Lifecycle.* `FreshInv`: an agent whose create has not ended holds no session, host or turn.
`TurnsCounted` and `RoutedToHolder` are inductive with it. `NoIdleHost` needs `HostInv`:
hosts that are named have been started, calls that are starting one start different ones,
and a spawned process is in the table only when it is initialised. `TurnsCounted` says two
things: a count never outlives its turn, of stopped agents too, and while an agent is served
the count is exact. `AuthorizedTurn` is a step property over types: `prompt` authorizes the
device and resolves the agent whether it was called or dispatched, and a queue that is
dispatched from belongs to a row that is not over. Each of these is proved of every step
that moves the lifecycle or nothing of it but the states of rows (`LifeMoves`), and so of
`LifeSpec` and of the whole supervisor, whose gate writes those. `StartingIsInFlight`, what
`OpeningSettles` says will end, is of the lifecycle alone (a question may put a "starting"
row to "waiting"): a row is "starting" exactly while its open is awaited. `OpeningInv` says
why nothing else writes such a row: who is served, being stopped or in a turn has no open in
flight.

*Supervisor.* `Spec => Gate!GateSpec`, with types of rows and continuations as the
invariant: a lifecycle step is a revocation, a row write or a stutter. What the gate
promises under `GateSpec` thereby holds beside any lifecycle, and what the lifecycle
promises holds beside the gate (`TurnsStayCounted`, `RoutesStayHeld`, `HostsStayWanted`,
`TurnsStayAuthorized`, `SupervisorTypes`).

*Scheduler.* `IInv` is `TypeOK` and `Table`, which ties the row of a run to its
object: while the run is in flight and drain has not settled it, both are open and
name the same routine, and in every other case the row is final or missing.
`RowsAreInFlight` is part of it. `NoOrphanRow` and `AgentsAreRetired` are inductive
over it: a routine that may be deleted has no open row, hence no run that could
still write one, and an agent is known to its run from `Created` to `Retire`.
`SingletonRunsAlone`, `RecordsAreFinal` and `DrainStopsWork` are step properties;
the first needs `Table`, since the code looks for rows and the property for runs.

*Broker.* `Kinds` says what a step can be: somebody sends, somebody is refused, a
bearer goes, or one of the named actions. `OneExchange` needs `Matched`, that
`#inflight` and the exchanges are the same relation; no property of rows is needed,
which is why nothing that replaces a row can break it. `NoBearerWithoutGrant` and
`RefreshingIsInFlight` are inductive with types. `DeadGrantsStayQuiet` is a step
property over `DeadHaveNoBearer`: a dead grant that could be refreshed has no bearer
in memory, so the sweep passes it over however old its list is; the only dead grants
with bearers have nothing to send. `NeverRedeemsSpent` and `SuccessorFirst` follow
from `Current`, which ties rows, exchanges and bearers to the newest stored
generation of their authorization, and authorizations nobody has used to generation
0; its hypothesis is that no grant is imported twice.

*Queued intents.* `AtMostOnce` needs `TakeInv`: who has claimed an intent has taken it
from the queue, has it alone, and has not performed it yet; two lists may name one intent
but only one claim finds it pending. The refinement to `IntentLedger` needs also that what
is marked delivered was performed, and for creations, whose end is the birth of an agent,
that an agent has one home and an unborn one none (`HomeInv`). `NoRevokedAuthority` is the
step property that trust only shrinks, with `Powerless` as its invariant. For
`OrderedUnlessMissed` the invariant ties batches to the queue: a batch holds every
earlier intent that is still pending and was not missed (`Batched`), its head is its
least (`Leads`), and so whatever was taken past a pending intent has missed it
(`Passed`, `Overtaken`). What `StopEnds` needs of the turns a drain waits for is
`NobodyWaitsInVain`: the turn is in flight, a drain began it, its agent is the daemon's
and no second drain waits for it, so that its end, the death of its host and the end of
its daemon each wake the one that does.

*Relay.* `NoHole` follows from `Prefix`: what a client took in is what it has counted, and
only the next number is taken. `LiveLegStays` is a step property: every other step that
lets go of a leg is guarded by its own leg. `RelayInv` is about what is under way: an
instance's queue holds frames that were sent, ends of sessions for instances that are
known, and releases of legs that closed. With it neither end takes in more than the other
sent (`TakenWasSent`), and a leg that was dropped is never on record again, however late
its commands are executed (`RecordIsOwn`): a leg waits for its registration with its
close handler not yet run, or run without a name (the case of `LeaseDecays` below).

What `ClientHears` and `FramesArrive` say will happen, `NobodyForgotten` and `FrameOwed` say
is under way, for any instances, dials and faults. Unless an envelope of its session was
lost or a failed handler left it behind (`holed`), a client whose leg is open has its open
in the queue of its instance, and the daemon has said nothing yet (`ToOpen`); or its close
in the queue of the daemon's (`ToClose`); or its session in the tunnel, and every frame it
lacks in that queue (`Streams`); or its session at an instance with a leg that will tear it
(`ToTear`). It is inductive with `WaitInv`: only the tunnel's own leg has a working
websocket, a session is where its client's open went, opens come from the client's instance
and closes go to the client's, and an instance has sessions only while a leg that is not
through with its close handler is dialed to it (`ServedInv`). That last part is where a
stale answer could break it: an open that comes while the leg on record is already dead is
accepted, and is torn because its leg has yet to close; the handler that finds the sessions
gone is the last to look. `HandlersGoOn` closes the argument: a leg with sessions to tear
still has its close to hear, or its release in the queue, or tears, unless its handler
failed, and a renewal that is awaited is in the queue. The one leg that is on its way
nowhere is the ghost of `LeaseDecays`, which is why `ClientHears` names it. What is left to
TLC is that the steps under way are taken.

*Model access.* `ActivatedIsServed` needs that the address is bound only by the current
broker (`BoundServes`), that a broker holds the grants of containers that still have one,
and that time ends only grants in use (`ServiceInv`). `ReleasedIsSilent` is a step
property over `RequestInv`: a request is its container's, and one behind its admission
belongs to a grant that is held, expired or revoked. Ceilings and books are one invariant
(`BooksInv`): what went to the gateway is part of the books, so that a slot given back is
one that was reserved, and given back once.

*Replay.* Types come first and say more than `TypeOK`: an update under way was written,
an approval or an answer under way was asked for (`TypeInv`). `LinkInv` relates the two
ends of the socket: the client that left has an attach or a detach of its own as the
last word under way, or the gateway knows; the client that watches likewise. Over it
`HolesAreCut` needs `HoleInv`. What is on the wire is in order (`InOrder`: no update is
ahead of one the client lacks, unless a page withheld that one), an attached socket has
the whole log on its way (`Complete`), and no attach asks from beyond the watermark
(`Asks`), so that a replay starts where the client stopped. The exception is a session
that was dropped, whose watermark is stale: until the agent is selected again nothing is
attached, asked for or under way (`StaleInv`). `OpenIsShown` needs `ShownInv`: an
attached socket was shown all that is pending, and of each approval that is not `eclipsed`
the card is on the screen or under way with nothing behind it that hides it, or the
answer is under way (`CardsInv`). `NothingMissing` is what `CatchesUp` comes to: with
nothing under way, `Complete` leaves nothing of the log beyond the watermark.

Assumptions: the named ones on the constants, `ImportsOnce` where it is stated, and
nothing else. Of those only two are more than types: the set of intents is finite, and
the ids that replicas reserve for new agents are fresh.

Proved and not run: the types of every module above, and `PendingIsAsking`,
`DrainStopsWork`, `DecisionIsFinal`, `OneExchange`, `AtMostOnce` (which `ImplementsLedger`
contains), `TakenWasSent`, `RecordIsOwn`, `NobodyForgotten`,
`FrameOwed`, `HandlersGoOn`, `StartingIsInFlight`, `NothingMissing` and
`NobodyWaitsInVain`.

Only model-checked: liveness (`OpeningSettles`, `QuestionsSettle`, `RunsSettle`,
`AgingEnds`, `PendingIsTaken`, `StopEnds`, `LegSettles`, `ClientHears`,
`FramesArrive`, `LostLegIsNoticed`, `CatchesUp`), and the violation.

## Divergences

Where the code does not do what the repository says of it. The first is a run
with a finding; the others are definitions of their modules that no run checks. Each
is reproduced by a configuration that checks just that property on the instance named.

| Property | Instance | Statement and behaviour |
| --- | --- | --- |
| `SessionHeldOnce` | `session_held_once` | supervisor.ts:738 "Refuses a session id this daemon already has an agent holding": two resumes both look at the holder before either is routed (758, 766, 914) |
| `LeaseDecays` | `relay` | backplane.ts:16 "A lease that has to be renewed decays on its own": a leg closed during the lookup of its registration is put on record afterwards (hub.ts:631-661), and the tick renews its lease for ever |
| `TerminalHoldsNothing` | `lifecycle` | supervisor.ts:1130 "A stopped agent no longer owns this durable session": a dead host's agents keep their routes (1776-1787), so their sessions cannot be resumed in this daemon |
| `BusyHasTurn` | `lifecycle` | contracts.ts:19 "turn streaming": a follow-up refused when its turn comes leaves the row busy and the rest of the queue waiting (supervisor.ts:1090-1112) |
| `IdleMeansNoTurn` | `supervisor` | contracts.ts:18 "ready, no turn in flight": of two overlapping questions the earlier one's answer writes idle over a turn (supervisor.ts:1442, 1471) |
| `ForcedAsReached` | `scheduler` | routines.test.ts:952 "a run that hung recording its outcome keeps the outcome it reached": drain counts only "succeeded" (scheduler.ts:282), not skipped or timed out actions |
| `RetryingIsSafe` | `mcp_auth` with `Logins <- MCNoLogins`, `Imports <- MCRetries` | import.ts:304 "what makes retrying safe": a second import puts a spent refresh token back over its successor (import.ts:358) |
| `SourceOrder` | `intent_order` | queued-intents.ts:136 "Execute eligible intents in source order": after a failed claim the loop goes on and the one left behind is performed later. `OrderedUnlessMissed` is what holds |
| `ImagePromptIsPrompt` | `intent_order` with `ActionOf <- MCImage` | gateway.ts:4570 "An image-only prompt is a real prompt": the drainer refuses one without text (queued-intents.ts:181), after it was claimed |
| `TailIsCaught` | `relay_frames` | hub.ts:57 "This is what catches a frame the backplane lost with nothing behind it": a leg is billed when the envelope has come through the backplane, so a lost last frame is billed to nobody |
| `EachClientIsTold` | `relay` | hub.ts:998 "Telling each client is what lets it reconnect and replay rather than wait on a dead stream": a rejected release (989) ends the close handler before it has told anybody, a rejected publish (1003) before it has told the rest |
| `SuccessorKeepsSessions` | `relay` | hub.ts:985 "would otherwise evict the live one": the close handler of a replaced leg spares the successor's record but tears its sessions (1000-1010) |
| `RevocationReaches` | `model_access` | broker.ts:253 "Cancels every upstream request this grant still has in flight, and is aborted by `revoke`": an expired grant is dropped unaborted, so a later release does not reach its requests |
| `ReplayIsLossless` | `replay` | store.ts:501 "This is what makes reattach lossless": a replay ends at the 1,000th update (502), nothing asks for the rest, and the next live update moves the client's watermark over it (ompd-client.ts:2171-2178) |
| `EveryAskIsShown` | `replay` | state.ts:1120 "the daemon is no longer waiting on any approval": a turn, a stop, or the answer to an earlier question writes another state over "waiting" while an approval is pending (supervisor.ts:1471), the console drops its card, and the socket is not shown it again; nor is an id that the host asks a second time after it was settled (gateway.ts:6492) |
| `NoCardIsStale` | `replay` | state.ts:1124 "clears pending clearances": an approval settled between the hello and the attach, or while the agent was left, sends no frame to this socket, and its card stays until the next roster frame |
| `ListenerComesDown` | `model_access` | model-access.ts:546 "comes down with the last one": the bind loop of a closed broker goes on and may take the address, for good |

Other behaviour of the code that a reader may not expect, and that the models have:
a timed-out approval makes `decide` return false, so the intent is never confirmed,
although queued-intents.ts:208 calls it delivered; a prompt of a batch is awaited to
the end of its turn, so the writes behind it wait, the decision the turn asks for
included; intents of agents whose daemon has restarted stay pending for ever; an
instance that is cut off or dies tells none of the clients homed at another, who find
out through their own pings; an instance that finds its lease lost closes whatever leg is
on record by then (hub.ts:900), a successor that has registered meanwhile included, and the
tunnel dials again; an agent that is stopped under a turn on a host it shares can be prompted
again, which starts a second turn beside the first and takes its row from "stopped" to "busy"
(supervisor.ts:1136); an open is published for a client that has left; an
activation may join a bind loop that is already looking for the reason of its failure,
and then fails although the address is there (model-access.ts:517 says it would start a
fresh one).

## Not modelled

* *The rest of the gateway and of the client library.* Validation and routing of requests,
  sessions, terminals, rooms and voice; history pages of the console.
* *Handshake, credentials, sealing; enrollment; webhooks through the hub.* The
  cryptography is taken to admit or refuse; a webhook is one entry of a table.
* *Provisioner beyond its calls of model access, session index, evolution, voice,
  browser, filesystem, artifacts, providers, hosts, workspace, omp extension.* Their
  correctness is that of subprocesses, files and command lines of other programs.
* *Policy rule matching, cron.* Pure string and calendar arithmetic, tested by tables;
  the models take any result of them.
* *Vault, OMP configuration, discovery, token endpoint.* Encryption, files and HTTP;
  the broker is checked against every answer of theirs.
* *Collab guests.* They follow the protocol of a relay that is not in the repository.
* *The app beyond `Replay`, command line, site, scripts, end-to-end tests.* No behaviour of
  the daemon.

## What comes next

1. Two agents in `Replay`, with the roster of one reaching the cards of the other.
