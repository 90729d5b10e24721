------------------------------- MODULE Replay -------------------------------
(***************************************************************************)
(* How a console follows an agent: the log and the approvals of one agent, *)
(* the gateway socket that pushes them (packages/daemon/src/gateway), the  *)
(* client that keeps the socket alive (packages/core/src/ompd-client.ts)   *)
(* and the console's reducer (packages/app/src/console).                   *)
(*                                                                         *)
(* One agent, one client, one socket at a time.  A socket the client has   *)
(* abandoned is heard by nobody: the client drops its events, and what the *)
(* daemon still does for it is a push into nothing, or a decision, which   *)
(* is a settlement by another hand.                                        *)
(***************************************************************************)
EXTENDS Naturals, SequencesExt

CONSTANTS
  Questions,    \* ids of the approvals the agent asks for
  PageLimit,    \* updates one attach replays (1000 in the code)
  UpdateBound,  \* length of the log
  FaultBound,   \* sockets that break
  WireBound     \* frames on the wires for the operator to click on, or for
                \* a host to ask again what it has asked before

ASSUME ReplayAssumption ==
  PageLimit \in Nat \ {0} /\ UpdateBound \in Nat /\ FaultBound \in Nat /\ WireBound \in Nat

VARIABLES
  \* the daemon
  log,        \* updates appended; seq n is the n-th
  row,        \* agents.state
  turn,       \* a turn is in flight
  asked,      \* approvals asked for so far
  open,       \* those still pending
  before,     \* of a pending approval: the state it interrupted ("idle" otherwise)
  \* the gateway's data of the current socket
  attached, delivered, shown,
  \* the wires, and how the link under them is
  toClient, toDaemon, link, faults,
  \* the client
  conn,       \* its connection
  watching,   \* the agent is in its set of attachments
  watermark,  \* the highest seq handed on
  \* the console
  held,       \* it has a watermark of its own for the agent
  seen,       \* updates in the transcript
  cards,      \* approvals it offers to answer
  \* history
  cut,        \* updates a replay left out because the page was full, and none brought since
  eclipsed    \* approvals whose card a roster frame took away, or that were asked again
              \* on a socket that had shown them, and no attach brought back

agentVars   == <<log, row, turn, asked, open, before>>
socketVars  == <<attached, delivered, shown>>
consoleVars == <<held, seen, cards>>
clientVars  == <<conn, watching, watermark>>
history     == <<cut, eclipsed>>
vars == <<agentVars, socketVars, toClient, toDaemon, link, faults, clientVars, consoleVars, history>>

States == {"idle", "busy", "waiting", "stopped"}

Update(n)   == [t |-> "update", seq |-> n]
Roster(s)   == [t |-> "agents", state |-> s]
Hello(s)    == [t |-> "hello", state |-> s]
Approval(q) == [t |-> "approval", id |-> q]
Settled(q)  == [t |-> "approval_settled", id |-> q]
Attach(n)   == [t |-> "attach", sinceSeq |-> n]
Detach      == [t |-> "detach"]
Decide(q)   == [t |-> "decide", id |-> q]

ServerFrames == {Update(n) : n \in 1..UpdateBound} \cup {Roster(s) : s \in States}
                  \cup {Hello(s) : s \in States}
                  \cup {Approval(q) : q \in Questions} \cup {Settled(q) : q \in Questions}
ClientFrames == {Attach(n) : n \in 0..UpdateBound} \cup {Detach} \cup {Decide(q) : q \in Questions}

TypeOK ==
  /\ log \in 0..UpdateBound /\ row \in States /\ turn \in BOOLEAN
  /\ asked \subseteq Questions /\ open \subseteq asked /\ before \in [Questions -> States]
  /\ attached \in BOOLEAN /\ delivered \in 0..log /\ shown \subseteq asked
  /\ toClient \in Seq(ServerFrames) /\ toDaemon \in Seq(ClientFrames)
  /\ link \in {"closed", "open", "dead"} /\ faults \in 0..FaultBound
  /\ conn \in {"offline", "connecting", "open", "ready"} /\ watching \in BOOLEAN
  /\ watermark \in 0..log
  /\ held \in BOOLEAN /\ seen \subseteq 1..log /\ cards \subseteq asked
  /\ cut \subseteq 1..log /\ eclipsed \subseteq open

Init ==
  /\ log = 0 /\ row = "idle" /\ turn = FALSE
  /\ asked = {} /\ open = {} /\ before = [q \in Questions |-> "idle"]
  /\ attached = FALSE /\ delivered = 0 /\ shown = {}
  /\ toClient = <<>> /\ toDaemon = <<>> /\ link = "closed" /\ faults = 0
  /\ conn = "offline" /\ watching = FALSE /\ watermark = 0
  /\ held = FALSE /\ seen = {} /\ cards = {}
  /\ cut = {} /\ eclipsed = {}

-----------------------------------------------------------------------------
(* The daemon.  Each action is one synchronous run of the supervisor; what *)
(* it pushes goes to the socket only while it is attached.                 *)

Live == row # "stopped"

(* Bounds what operators and hosts may repeat for ever.                    *)
Calm == Len(toClient) + Len(toDaemon) < WireBound

Push(frames) == toClient' = IF attached THEN toClient \o frames ELSE toClient

(* A roster frame that does not say "waiting" hides the cards of what is   *)
(* still pending then.                                                     *)
Announce(state, pending) ==
  eclipsed' = (eclipsed \cap pending) \cup (IF attached /\ state # "waiting" THEN pending ELSE {})

(* The number of an update is one past the highest in the log.  A push is  *)
(* dropped at the choke point only when it is at or below the mark.        *)
AppendUpdate ==
  /\ log < UpdateBound
  /\ log' = log + 1
  /\ delivered' = IF attached THEN log + 1 ELSE delivered

Output ==
  /\ Live
  /\ AppendUpdate
  /\ Push(<<Update(log + 1)>>)
  /\ UNCHANGED <<row, turn, asked, open, before, attached, shown, toDaemon, link, faults,
                 clientVars, consoleVars, history>>

Prompt ==
  /\ Live /\ ~turn
  /\ turn' = TRUE
  /\ row' = "busy"
  /\ AppendUpdate
  /\ Push(<<Roster("busy"), Update(log + 1)>>)
  /\ Announce("busy", open)
  /\ UNCHANGED <<asked, open, before, attached, shown, toDaemon, link, faults,
                 clientVars, consoleVars, cut>>

TurnEnds ==
  /\ Live /\ turn
  /\ turn' = FALSE
  /\ row' = "idle"
  /\ Push(<<Roster("idle")>>)
  /\ Announce("idle", open)
  /\ UNCHANGED <<log, asked, open, before, socketVars, toDaemon, link, faults,
                 clientVars, consoleVars, cut>>

(* A stop, or the death of the host: the approvals stay pending.           *)
AgentEnds ==
  /\ Live
  /\ row' = "stopped" /\ turn' = FALSE
  /\ Push(<<Roster("stopped")>>)
  /\ Announce("stopped", open)
  /\ UNCHANGED <<log, asked, open, before, socketVars, toDaemon, link, faults,
                 clientVars, consoleVars, cut>>

(* Ids are the host's, which may repeat one that has been settled: a       *)
(* socket that showed it then does not hear of it again.                   *)
Ask(q) ==
  /\ Live /\ q \notin open
  /\ q \in asked => Calm
  /\ before' = [before EXCEPT ![q] = row]
  /\ row' = "waiting"
  /\ asked' = asked \cup {q} /\ open' = open \cup {q}
  /\ shown' = IF attached THEN shown \cup {q} ELSE shown
  /\ Push(IF q \in shown THEN <<Roster("waiting")>> ELSE <<Roster("waiting"), Approval(q)>>)
  /\ eclipsed' = IF q \in shown THEN eclipsed \cup {q} ELSE eclipsed
  /\ UNCHANGED <<log, turn, attached, delivered, toDaemon, link, faults,
                 clientVars, consoleVars, cut>>

(* An answer or the timer: the state that was interrupted is restored, and *)
(* announced, unless something else has been written meanwhile.            *)
Settle(q) ==
  LET restored == IF row = "waiting" THEN <<Roster(before[q])>> ELSE <<>>
  IN /\ open' = open \ {q}
     /\ row' = IF row = "waiting" THEN before[q] ELSE row
     /\ before' = [before EXCEPT ![q] = "idle"]
     /\ Push(restored \o <<Settled(q)>>)
     /\ Announce(IF row = "waiting" THEN before[q] ELSE "waiting", open')
     /\ UNCHANGED <<log, turn, asked, socketVars, link, faults,
                    clientVars, consoleVars, cut>>

SettledElsewhere(q) == q \in open /\ Settle(q) /\ UNCHANGED toDaemon

-----------------------------------------------------------------------------
(* The gateway reads a frame of the client.                                *)

Reads(frame) == toDaemon # <<>> /\ frame = Head(toDaemon) /\ toDaemon' = Tail(toDaemon)

LastOfPage(since) == IF log < since + PageLimit THEN log ELSE since + PageLimit

(* The replay of updatesSince goes through the same choke point as the     *)
(* pushes: what is at or below the mark is dropped.                        *)
Replayed(since) ==
  LET first == (IF since < delivered THEN delivered ELSE since) + 1
  IN [i \in 1 .. LastOfPage(since) + 1 - first |-> Update(first + i - 1)]

(* What the client takes in when it comes: nothing under way is later.     *)
Ahead(n) ==
  /\ n > watermark
  /\ \A i \in 1..Len(toClient), k \in 1..UpdateBound : toClient[i] = Update(k) => k < n

(* Of what earlier pages left out, this replay brings so much.             *)
Fetched(since) ==
  {n \in cut : n > since /\ n > delivered /\ n <= LastOfPage(since) /\ Ahead(n)}

(* The approvals still pending that this socket has not been shown.        *)
Unshown ==
  [i \in 1 .. Cardinality(open \ shown) |-> Approval(SetToSeq(open \ shown)[i])]

(* Defect: the approvals still pending are not replayed.                   *)
AttachUnasked(since) ==
  LET marked == IF delivered < LastOfPage(since) THEN LastOfPage(since) ELSE delivered
  IN /\ Reads(Attach(since))
     /\ attached' = TRUE
     /\ delivered' = marked
     /\ toClient' = toClient \o Replayed(since)
     /\ cut' = (cut \ Fetched(since)) \cup (marked + 1 .. log)
     /\ UNCHANGED <<agentVars, shown, eclipsed, link, faults, clientVars, consoleVars>>

(* Registered first, then the log, then the approvals: one run without an  *)
(* await.                                                                  *)
HandleAttach(since) ==
  LET marked == IF delivered < LastOfPage(since) THEN LastOfPage(since) ELSE delivered
  IN /\ Reads(Attach(since))
     /\ attached' = TRUE
     /\ delivered' = marked
     /\ shown' = shown \cup open
     /\ toClient' = toClient \o Replayed(since) \o Unshown
     /\ cut' = (cut \ Fetched(since)) \cup (marked + 1 .. log)
     /\ eclipsed' = eclipsed \cap shown
     /\ UNCHANGED <<agentVars, link, faults, clientVars, consoleVars>>

(* Defect: the mark outlives the attachment.                               *)
DetachKeepsMark ==
  /\ Reads(Detach)
  /\ attached' = FALSE /\ shown' = {}
  /\ UNCHANGED <<agentVars, delivered, toClient, link, faults, clientVars, consoleVars, history>>

(* The mark and the approvals shown are forgotten with the attachment.     *)
HandleDetach ==
  /\ Reads(Detach)
  /\ attached' = FALSE /\ delivered' = 0 /\ shown' = {}
  /\ UNCHANGED <<agentVars, toClient, link, faults, clientVars, consoleVars, history>>

(* A decision about an approval that is not pending is refused.            *)
HandleDecide(q) ==
  /\ Reads(Decide(q))
  /\ \/ q \in open /\ Settle(q)
     \/ q \notin open
        /\ UNCHANGED <<agentVars, socketVars, toClient, link, faults, clientVars, consoleVars, history>>

DaemonReads ==
  \/ \E since \in 0..UpdateBound : HandleAttach(since)
  \/ HandleDetach
  \/ \E q \in Questions : HandleDecide(q)

-----------------------------------------------------------------------------
(* The link.  A socket that closes takes the frames under way with it, and *)
(* the gateway's data; a dead one swallows frames until no pong comes.     *)

SocketGone ==
  /\ toClient' = <<>> /\ toDaemon' = <<>>
  /\ attached' = FALSE /\ delivered' = 0 /\ shown' = {}

(* A network error, a close by the gateway because the socket's buffer is  *)
(* over its limit, or an end of the daemon, which settles the agent's row. *)
Break ==
  /\ link # "closed" /\ faults < FaultBound
  /\ faults' = faults + 1
  /\ link' = "closed" /\ conn' = "offline"
  /\ SocketGone
  /\ \/ UNCHANGED <<row, turn, open, before, eclipsed>>
     \/ /\ row' = "stopped" /\ turn' = FALSE
        /\ open' = {} /\ before' = [q \in Questions |-> "idle"] /\ eclipsed' = {}
  /\ UNCHANGED <<log, asked, watching, watermark, consoleVars, cut>>

(* Nothing more comes through, be it while the socket is being opened.     *)
LinkDies ==
  /\ link = "open" /\ faults < FaultBound
  /\ faults' = faults + 1
  /\ link' = "dead"
  /\ SocketGone
  /\ UNCHANGED <<agentVars, clientVars, consoleVars, history>>

(* The client's own timer once the socket is open, and before that only    *)
(* the network stack's.                                                    *)
PongMissed ==
  /\ link = "dead"
  /\ link' = "closed" /\ conn' = "offline"
  /\ UNCHANGED <<agentVars, socketVars, toClient, toDaemon, faults, watching, watermark,
                 consoleVars, history>>

(* The retry after the backoff; the gateway says hello as it accepts.      *)
OpenSocket ==
  /\ conn = "offline"
  /\ conn' = "connecting" /\ link' = "open"
  /\ toClient' = <<Hello(row)>>
  /\ UNCHANGED <<agentVars, socketVars, toDaemon, faults, watching, watermark, consoleVars, history>>

SocketOpens ==
  /\ conn = "connecting" /\ link = "open"
  /\ conn' = "open"
  /\ UNCHANGED <<agentVars, socketVars, toClient, toDaemon, link, faults, watching, watermark,
                 consoleVars, history>>

-----------------------------------------------------------------------------
(* The client reads a frame of the gateway.                                *)

Hears(frame) ==
  /\ conn \in {"open", "ready"} /\ toClient # <<>>
  /\ frame = Head(toClient)
  /\ toClient' = Tail(toClient)

(* What is sent while no socket is open is dropped.                        *)
Send(frames) ==
  toDaemon' = IF conn \in {"open", "ready"} /\ link = "open" THEN toDaemon \o frames ELSE toDaemon

(* The console takes a state other than "waiting" to mean that nothing is  *)
(* pending any more.                                                       *)
ClearStaleClearances(state) == cards' = IF state = "waiting" THEN cards ELSE {}

(* Defect: a new socket is not told what is being watched.                 *)
HelloForgets(state) ==
  /\ Hears(Hello(state))
  /\ conn' = "ready"
  /\ ClearStaleClearances(state)
  /\ UNCHANGED <<agentVars, socketVars, toDaemon, link, faults, watching, watermark, held, seen, history>>

HandleHello(state) ==
  /\ Hears(Hello(state))
  /\ conn' = "ready"
  /\ ClearStaleClearances(state)
  /\ Send(IF watching THEN <<Attach(watermark)>> ELSE <<>>)
  /\ UNCHANGED <<agentVars, socketVars, link, faults, watching, watermark, held, seen, history>>

HandleAgents(state) ==
  /\ Hears(Roster(state))
  /\ ClearStaleClearances(state)
  /\ UNCHANGED <<agentVars, socketVars, toDaemon, link, faults, clientVars, held, seen, history>>

(* A copy is dropped; a gap is reported, and stepped over.                 *)
HandleUpdate(n) ==
  /\ Hears(Update(n))
  /\ IF n <= watermark
       THEN UNCHANGED <<watermark, held, seen>>
       ELSE watermark' = n /\ held' = TRUE /\ seen' = seen \cup {n}
  /\ UNCHANGED <<agentVars, socketVars, toDaemon, link, faults, conn, watching, cards, history>>

HandleApproval(q) ==
  /\ Hears(Approval(q))
  /\ cards' = cards \cup {q}
  /\ UNCHANGED <<agentVars, socketVars, toDaemon, link, faults, clientVars, held, seen, history>>

HandleSettled(q) ==
  /\ Hears(Settled(q))
  /\ cards' = cards \ {q}
  /\ UNCHANGED <<agentVars, socketVars, toDaemon, link, faults, clientVars, held, seen, history>>

ClientReads ==
  \/ \E s \in States : HandleHello(s) \/ HandleAgents(s)
  \/ \E n \in 1..UpdateBound : HandleUpdate(n)
  \/ \E q \in Questions : HandleApproval(q) \/ HandleSettled(q)

-----------------------------------------------------------------------------
(* The operator.                                                           *)

(* Opening the agent, or tapping it twice: with no watermark of its own    *)
(* the console asks for everything.                                        *)
SelectAgent ==
  /\ Calm
  /\ watching' = TRUE
  /\ watermark' = IF held THEN watermark ELSE 0
  /\ Send(<<Attach(watermark')>>)
  /\ UNCHANGED <<agentVars, socketVars, toClient, link, faults, conn, consoleVars, history>>

LeaveAgent ==
  /\ Calm /\ watching
  /\ watching' = FALSE
  /\ Send(<<Detach>>)
  /\ UNCHANGED <<agentVars, socketVars, toClient, link, faults, conn, watermark, consoleVars, history>>

(* The card goes as the operator taps it, whatever becomes of the frame.   *)
DecideCard(q) ==
  /\ watching /\ q \in cards
  /\ cards' = cards \ {q}
  /\ Send(<<Decide(q)>>)
  /\ UNCHANGED <<agentVars, socketVars, toClient, link, faults, clientVars, held, seen, history>>

(* Enough other agents were opened for this one's session to be dropped,   *)
(* which takes longer than a frame is under way.                           *)
PruneSession ==
  /\ ~watching /\ held /\ toClient = <<>> /\ toDaemon = <<>>
  /\ held' = FALSE /\ seen' = {} /\ cards' = {}
  /\ UNCHANGED <<agentVars, socketVars, toClient, toDaemon, link, faults, clientVars, history>>

-----------------------------------------------------------------------------
Next ==
  \/ Output \/ Prompt \/ TurnEnds \/ AgentEnds
  \/ \E q \in Questions : Ask(q) \/ SettledElsewhere(q)
  \/ DaemonReads
  \/ Break \/ LinkDies \/ PongMissed \/ OpenSocket \/ SocketOpens
  \/ ClientReads
  \/ SelectAgent \/ LeaveAgent \/ PruneSession
  \/ \E q \in Questions : DecideCard(q)

Spec == Init /\ [][Next]_vars

(* The event loops of both ends run, and the client's timers fire.         *)
FairSpec ==
  /\ Spec
  /\ WF_vars(DaemonReads) /\ WF_vars(ClientReads)
  /\ WF_vars(PongMissed) /\ WF_vars(OpenSocket) /\ WF_vars(SocketOpens)

-----------------------------------------------------------------------------
(* Whatever the order of replays, pushes, reattachments and lost sockets,  *)
(* the transcript has every update up to the watermark but those the page  *)
(* limit of a replay withheld and no later replay brought in time.         *)
HolesAreCut == held => seen \subseteq 1..watermark /\ 1..watermark \subseteq seen \cup cut

(* A watched agent's transcript catches up with the log by itself, through *)
(* any finite number of broken sockets.                                    *)
Behind == watching /\ ~(1..log \subseteq seen \cup cut)
CatchesUp == Behind ~> ~Behind

InTouch == watching /\ conn = "ready" /\ link = "open" /\ toClient = <<>> /\ toDaemon = <<>>

(* What waits for an answer is on the screen of a console in touch,        *)
(* however often its socket was lost on the way, unless a roster frame hid *)
(* it or its id was asked again on a socket that had shown it.             *)
OpenIsShown == InTouch => open \ eclipsed \subseteq cards

(* No run checks the statements below; the code breaks them (README).      *)

(* packages/core/src/store.ts:501 says that replaying the log makes a      *)
(* reattachment lossless.                                                  *)
ReplayIsLossless == held => 1..watermark \subseteq seen

(* packages/app/src/console/state.ts:1120 says that an agent that is not   *)
(* "waiting" waits for no approval, so that hiding the cards then loses    *)
(* none.                                                                   *)
EveryAskIsShown == InTouch => open \subseteq cards

(* packages/app/src/console/state.ts:1124 says that the cards of approvals *)
(* answered out of sight go.                                               *)
NoCardIsStale == InTouch => cards \subseteq open
=============================================================================
