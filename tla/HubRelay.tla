------------------------------ MODULE HubRelay ------------------------------
(***************************************************************************)
(* The relay: hub instances over one backplane (packages/hub/src), the     *)
(* tunnel end of one daemon (packages/tunnel/src/daemon.ts), and the       *)
(* clients that are joined to it.                                          *)
(*                                                                         *)
(* Every instance issues its commands to the backplane in order and goes   *)
(* on with other events until they are executed; a published envelope is   *)
(* handled by the instance it is for.  A frame on an open websocket        *)
(* arrives at once; one on a broken or closed websocket vanishes.          *)
(***************************************************************************)
EXTENDS Integers, Sequences, SequencesExt

CONSTANTS
  Hubs,         \* instances, each under its own instance id
  Sessions,     \* client links
  HomeOf,       \* the instance a link reaches
  None,
  LegBound,     \* dials of the daemon
  FrameBound,   \* frames of one session in one direction
  FaultBound    \* links broken, commands lost or refused, instances dead or cut off,
                \* tunnels stopped

Legs == 1..LegBound

ASSUME RelayAssumption ==
  /\ HomeOf \in [Sessions -> Hubs]
  /\ LegBound \in Nat /\ FrameBound \in Nat /\ FaultBound \in Nat
  /\ None \notin Hubs \cup Legs

VARIABLES
  dials,     \* how often the daemon has dialed
  live,      \* the leg its handlers speak for
  stopped,   \* the tunnel was stopped
  tun,       \* sessions the tunnel holds
  dTook,     \* frames of a session the tunnel took in
  dSent,     \* and sent
  at,        \* the instance a leg was dialed to
  ws,        \* a leg's websocket: none, open, dead (unnoticed) or closed
  stage,     \* the hub's end of it: none, lookup (of its daemon) or named
  ending,    \* its close handler: no, unnamed (nothing to do), releasing, tearing or done
  holds,     \* the leg an instance has on record
  joined,    \* its sessions
  renewing,  \* its tick awaits the renewal of the lease
  up,        \* instances that run
  out,       \* an instance's commands to the backplane
  lease,     \* the instance that is the daemon's address
  client,    \* a client: none, open or closed
  dest,      \* the daemon's instance, as located when it linked
  leg,       \* the leg of a client at its own: none, here or gone
  opening,   \* legs whose session waits for a lookup
  cTook, cSent,   \* frames it took in and sent
  got,            \* their numbers
  toC, toD,       \* frames its leg, and its session, were billed for
  faults,
  holed      \* sessions of which an envelope was lost, or was never sent because the
             \* handler that was to send it had failed

tunnelVars == <<dials, live, stopped, tun, dTook, dSent>>
legVars    == <<at, ws, stage, ending>>
hubVars    == <<holds, joined, renewing, up>>
planeVars  == <<out, lease>>
clientVars == <<client, dest, leg, opening>>
frameVars  == <<cTook, cSent, got, toC, toD>>
faultVars  == <<faults, holed>>
vars == <<tunnelVars, legVars, hubVars, planeVars, clientVars, frameVars, faultVars>>

Commands ==
  [k : {"claim", "release"}, l : Legs] \cup [k : {"renew"}] \cup
  [k : {"open", "close"}, to : Hubs, s : Sessions] \cup
  [k : {"to_daemon", "to_client"}, to : Hubs, s : Sessions, n : Nat]

TypeOK ==
  /\ dials \in 0..LegBound /\ live \in Legs \cup {None} /\ stopped \in BOOLEAN
  /\ tun \subseteq Sessions
  /\ dTook \in [Sessions -> Nat] /\ dSent \in [Sessions -> 0..FrameBound]
  /\ at \in [Legs -> Hubs \cup {None}]
  /\ ws \in [Legs -> {"none", "open", "dead", "closed"}]
  /\ stage \in [Legs -> {"none", "lookup", "named"}]
  /\ ending \in [Legs -> {"no", "unnamed", "releasing", "tearing", "done"}]
  /\ holds \in [Hubs -> Legs \cup {None}]
  /\ joined \in [Hubs -> SUBSET Sessions]
  /\ renewing \in [Hubs -> BOOLEAN] /\ up \subseteq Hubs
  /\ out \in [Hubs -> Seq(Commands)] /\ lease \in Hubs \cup {None}
  /\ client \in [Sessions -> {"none", "open", "closed"}]
  /\ dest \in [Sessions -> Hubs \cup {None}]
  /\ leg \in [Sessions -> {"none", "here", "gone"}]
  /\ opening \subseteq Sessions
  /\ cTook \in [Sessions -> Nat] /\ cSent \in [Sessions -> 0..FrameBound]
  /\ got \in [Sessions -> SUBSET (0..FrameBound)]
  /\ toC \in [Sessions -> Nat] /\ toD \in [Sessions -> Nat]
  /\ faults \in 0..FaultBound /\ holed \subseteq Sessions

Init ==
  /\ dials = 0 /\ live = None /\ stopped = FALSE /\ tun = {}
  /\ dTook = [s \in Sessions |-> 0] /\ dSent = [s \in Sessions |-> 0]
  /\ at = [l \in Legs |-> None] /\ ws = [l \in Legs |-> "none"]
  /\ stage = [l \in Legs |-> "none"] /\ ending = [l \in Legs |-> "no"]
  /\ holds = [h \in Hubs |-> None] /\ joined = [h \in Hubs |-> {}]
  /\ renewing = [h \in Hubs |-> FALSE] /\ up = Hubs
  /\ out = [h \in Hubs |-> <<>>] /\ lease = None
  /\ client = [s \in Sessions |-> "none"]
  /\ dest = [s \in Sessions |-> None]
  /\ leg = [s \in Sessions |-> "none"] /\ opening = {}
  /\ cTook = [s \in Sessions |-> 0] /\ cSent = [s \in Sessions |-> 0]
  /\ got = [s \in Sessions |-> {}]
  /\ toC = [s \in Sessions |-> 0] /\ toD = [s \in Sessions |-> 0]
  /\ faults = 0 /\ holed = {}

Fault == faults < FaultBound /\ faults' = faults + 1

(* Both ends of leg l still speak to each other, and the daemon listens.   *)
Heard(l) == l # None /\ ws[l] = "open" /\ live = l

(* The hub's websocket of a client carries frames.                         *)
Linked(s) == client[s] = "open" /\ leg[s] = "here" /\ s \notin opening

Issue(h, c) == out' = [out EXCEPT ![h] = Append(@, c)]
CloseTo(h, s) == [k |-> "close", to |-> h, s |-> s]

(* A client and its leg end.                                               *)
Ends(s) ==
  /\ client' = [client EXCEPT ![s] = "closed"]
  /\ leg' = [leg EXCEPT ![s] = "gone"]

-----------------------------------------------------------------------------
(***************************************************************************)
(* The tunnel of the daemon.                                               *)
(***************************************************************************)

(* #connect up to the hub's lookup of the daemon that registers.           *)
Dial(h) ==
  LET l == dials + 1
  IN  /\ ~stopped /\ live = None /\ dials < LegBound /\ h \in up
      /\ dials' = l /\ live' = l
      /\ at' = [at EXCEPT ![l] = h]
      /\ ws' = [ws EXCEPT ![l] = "open"]
      /\ stage' = [stage EXCEPT ![l] = "lookup"]
      /\ UNCHANGED <<stopped, tun, dTook, dSent, ending, hubVars, planeVars,
                     clientVars, frameVars, faultVars>>

LegLost == live' = None /\ tun' = {}

(* Defect: a handler does not ask which dial it belongs to.                *)
AnyLeg(l) == live # None

Current(l) == live = l

(* The close of a leg is heard, late perhaps.                              *)
HearsClose(l) ==
  /\ ws[l] = "closed" /\ Current(l) /\ LegLost
  /\ UNCHANGED <<dials, stopped, dTook, dSent, legVars, hubVars, planeVars, clientVars,
                 frameVars, faultVars>>

(* Defect: only a leg that waits for its registration is watched.          *)
SilentDial(l) == ws[l] = "open" /\ stage[l] = "lookup"

(* The hub pings the legs it has on record; one it says nothing to is      *)
(* broken, or waits too long for its registration.                         *)
Silent(l) == ws[l] = "dead" \/ (ws[l] = "open" /\ stage[l] = "lookup")

OnSilence(l) ==
  /\ live = l /\ Silent(l) /\ LegLost
  /\ ws' = [ws EXCEPT ![l] = IF @ = "open" THEN "closed" ELSE @]
  /\ UNCHANGED <<dials, stopped, dTook, dSent, at, stage, ending, hubVars, planeVars,
                 clientVars, frameVars, faultVars>>

Stop ==
  /\ ~stopped /\ stopped' = TRUE /\ LegLost /\ Fault
  /\ ws' = [l \in Legs |-> IF live = l /\ ws[l] = "open" THEN "closed" ELSE ws[l]]
  /\ UNCHANGED <<dials, dTook, dSent, at, stage, ending, hubVars, planeVars, clientVars,
                 frameVars, holed>>

-----------------------------------------------------------------------------
(***************************************************************************)
(* Daemon legs at their instance.                                          *)
(***************************************************************************)

(* Websocket l is closed by its instance.  A dead one tells the daemon     *)
(* nothing.                                                                *)
Shut(l) == ws' = [ws EXCEPT ![l] = IF @ = "open" THEN "closed" ELSE @]

(* #register after the lookup: the leg on record is replaced and the       *)
(* daemon's address claimed.  Nobody looks whether the leg is still there. *)
Registered(l) ==
  LET h == at[l]
  IN  /\ stage[l] = "lookup" /\ h \in up
      /\ stage' = [stage EXCEPT ![l] = "named"]
      /\ IF holds[h] = None THEN UNCHANGED ws ELSE Shut(holds[h])
      /\ holds' = [holds EXCEPT ![h] = l]
      /\ Issue(h, [k |-> "claim", l |-> l])
      /\ UNCHANGED <<tunnelVars, at, ending, joined, renewing, up, lease, clientVars,
                     frameVars, faultVars>>

(* The close handler: a leg without a name is forgotten, one on record is  *)
(* dropped and its lease released, and then its sessions are torn.         *)
Closed(l) ==
  LET h == at[l]
  IN  /\ ws[l] \in {"dead", "closed"} /\ ending[l] = "no" /\ h \in up
      /\ \/ /\ stage[l] = "lookup"
            /\ ending' = [ending EXCEPT ![l] = "unnamed"]
            /\ UNCHANGED <<holds, out>>
         \/ /\ stage[l] = "named" /\ holds[h] = l
            /\ ending' = [ending EXCEPT ![l] = "releasing"]
            /\ holds' = [holds EXCEPT ![h] = None]
            /\ Issue(h, [k |-> "release", l |-> l])
         \/ /\ stage[l] = "named" /\ holds[h] # l
            /\ ending' = [ending EXCEPT ![l] = "tearing"]
            /\ UNCHANGED <<holds, out>>
      /\ UNCHANGED <<tunnelVars, at, ws, stage, joined, renewing, up, lease, clientVars,
                     frameVars, faultVars>>

(* Defect: the sessions are forgotten and nobody is told.                  *)
TearUntold(l, s) ==
  /\ ending[l] = "tearing" /\ s \in joined[at[l]]
  /\ joined' = [joined EXCEPT ![at[l]] = @ \ {s}]
  /\ UNCHANGED <<tunnelVars, legVars, holds, renewing, up, planeVars, clientVars,
                 frameVars, faultVars>>

(* One session per await, those joined meanwhile included.                 *)
TearOne(l, s) ==
  LET h == at[l]
  IN  /\ ending[l] = "tearing" /\ s \in joined[h]
      /\ joined' = [joined EXCEPT ![h] = @ \ {s}]
      /\ Issue(h, CloseTo(HomeOf[s], s))
      /\ UNCHANGED <<tunnelVars, legVars, holds, renewing, up, lease, clientVars,
                     frameVars, faultVars>>

TearDone(l) ==
  /\ ending[l] = "tearing" /\ joined[at[l]] = {}
  /\ ending' = [ending EXCEPT ![l] = "done"]
  /\ UNCHANGED <<tunnelVars, at, ws, stage, hubVars, planeVars, clientVars, frameVars,
                 faultVars>>

(* #tick asks for the renewal of the lease.  A renewal that finds it held  *)
(* changes nothing and is no step here.                                    *)
Tick(h) ==
  /\ h \in up /\ holds[h] # None /\ ~renewing[h] /\ lease # h
  /\ renewing' = [renewing EXCEPT ![h] = TRUE]
  /\ Issue(h, [k |-> "renew"])
  /\ UNCHANGED <<tunnelVars, legVars, holds, joined, up, lease, clientVars, frameVars,
                 faultVars>>

-----------------------------------------------------------------------------
(***************************************************************************)
(* A close handler fails: the rejection of a command it awaits is logged,  *)
(* and what comes after is not done.                                       *)
(***************************************************************************)

(* A leg that closes, and whose handler will tear what it finds.           *)
Closing(l) ==
  stage[l] = "named" /\ ws[l] # "open" /\ ending[l] \in {"no", "releasing", "tearing"}

(* Sessions nobody else is going to tear when the handler of leg l fails.  *)
GivenUp(l) ==
  {s \in Sessions : /\ s \in joined[at[l]]
                    /\ ~\E k \in Legs \ {l} : at[k] = at[l] /\ Closing(k)}

Fails(l, torn) ==
  /\ Fault
  /\ ending' = [ending EXCEPT ![l] = "done"]
  /\ joined' = [joined EXCEPT ![at[l]] = @ \ torn]

(* The close of one session is rejected, whether or not it was published.  *)
TearFails(l, s) ==
  /\ ending[l] = "tearing" /\ s \in joined[at[l]]
  /\ Fails(l, {s})
  /\ \/ Issue(at[l], CloseTo(HomeOf[s], s)) /\ holed' = holed \cup (GivenUp(l) \ {s})
     \/ UNCHANGED out /\ holed' = holed \cup GivenUp(l) \cup {s}
  /\ UNCHANGED <<tunnelVars, at, ws, stage, holds, renewing, up, lease, clientVars, frameVars>>

-----------------------------------------------------------------------------
(***************************************************************************)
(* The backplane executes the oldest command of an instance.               *)
(***************************************************************************)

Oldest(h, kind) == out[h] # <<>> /\ Head(out[h]).k = kind
Drop(h) == [out EXCEPT ![h] = Tail(@)]
Answer(h, g, c) == [Drop(h) EXCEPT ![g] = Append(@, c)]

Claim(h) ==
  /\ Oldest(h, "claim")
  /\ lease' = h /\ out' = Drop(h)
  /\ UNCHANGED <<tunnelVars, legVars, hubVars, clientVars, frameVars, faultVars>>

(* Only the holder may release.                                            *)
Release(h) ==
  /\ Oldest(h, "release")
  /\ lease' = IF lease = h THEN None ELSE lease
  /\ ending' = [ending EXCEPT ![Head(out[h]).l] = "tearing"]
  /\ out' = Drop(h)
  /\ UNCHANGED <<tunnelVars, at, ws, stage, hubVars, clientVars, frameVars, faultVars>>

(* The release is rejected, whether or not it was executed: nothing is     *)
(* torn.                                                                   *)
ReleaseFails(h) ==
  LET l == Head(out[h]).l
  IN  /\ Oldest(h, "release")
      /\ Fails(l, {})
      /\ holed' = holed \cup GivenUp(l)
      /\ lease' \in {lease, IF lease = h THEN None ELSE lease}
      /\ out' = Drop(h)
      /\ UNCHANGED <<tunnelVars, at, ws, stage, holds, renewing, up, clientVars, frameVars>>

(* The claim is rejected: the leg stays on record.                         *)
ClaimFails(h) ==
  /\ Oldest(h, "claim") /\ Fault
  /\ out' = Drop(h)
  /\ UNCHANGED <<tunnelVars, legVars, hubVars, lease, clientVars, frameVars, holed>>

(* Defect: a lost lease is not acted on.                                   *)
LeftOnRecord(h) == UNCHANGED ws

(* The leg on record when the answer comes is closed.                      *)
LeaseLost(h) == IF holds[h] = None THEN UNCHANGED ws ELSE Shut(holds[h])

Renew(h) ==
  /\ Oldest(h, "renew")
  /\ IF lease = h THEN UNCHANGED ws ELSE LeaseLost(h)
  /\ renewing' = [renewing EXCEPT ![h] = FALSE]
  /\ out' = Drop(h)
  /\ UNCHANGED <<tunnelVars, at, stage, ending, holds, joined, up, lease, clientVars,
                 frameVars, faultVars>>

(* The renewal is rejected, which counts as not held.                      *)
RenewFails(h) ==
  /\ Oldest(h, "renew") /\ Fault
  /\ LeaseLost(h)
  /\ renewing' = [renewing EXCEPT ![h] = FALSE]
  /\ out' = Drop(h)
  /\ UNCHANGED <<tunnelVars, at, stage, ending, holds, joined, up, lease, clientVars,
                 frameVars, holed>>

Rejects(h) == ClaimFails(h) \/ ReleaseFails(h) \/ RenewFails(h)

(* A lease decays when nobody renews it.                                   *)
Expire ==
  /\ lease # None
  /\ lease \notin up \/ (holds[lease] = None /\ out[lease] = <<>>)
  /\ lease' = None
  /\ UNCHANGED <<tunnelVars, legVars, hubVars, out, clientVars, frameVars, faultVars>>

(* An envelope for instance g, published by h.                             *)
Publishes(h, g, kind) == Oldest(h, kind) /\ Head(out[h]).to = g

(* Defect: an instance without the daemon says nothing.                    *)
Mum(h, g, s) == Drop(h)

DaemonOffline(h, g, s) == Answer(h, g, CloseTo(h, s))

HandleOpen(h, g) ==
  LET s == Head(out[h]).s
  IN  /\ Publishes(h, g, "open") /\ g \in up
      /\ \/ /\ holds[g] = None
            /\ out' = DaemonOffline(h, g, s)
            /\ UNCHANGED <<tun, joined>>
         \/ /\ holds[g] # None
            /\ joined' = [joined EXCEPT ![g] = @ \cup {s}]
            /\ tun' = IF Heard(holds[g]) THEN tun \cup {s} ELSE tun
            /\ out' = Drop(h)
      /\ UNCHANGED <<dials, live, stopped, dTook, dSent, legVars, holds, renewing, up, lease,
                     clientVars, frameVars, faultVars>>

(* A frame for the daemon is billed and sent.  The tunnel ignores sessions *)
(* it does not hold, and refuses one whose frame is not the next.          *)
HandleToDaemon(h, g) ==
  LET c == Head(out[h])
      s == c.s
      Sent == s \in joined[g] /\ holds[g] # None
      Arrives == Sent /\ Heard(holds[g]) /\ s \in tun
  IN  /\ Publishes(h, g, "to_daemon") /\ g \in up
      /\ toD' = [toD EXCEPT ![s] = IF Sent THEN @ + 1 ELSE @]
      /\ \/ /\ Arrives /\ c.n = dTook[s]
            /\ dTook' = [dTook EXCEPT ![s] = @ + 1]
            /\ out' = Drop(h)
            /\ UNCHANGED <<tun, joined>>
         \/ /\ Arrives /\ c.n # dTook[s]
            /\ tun' = tun \ {s}
            /\ joined' = [joined EXCEPT ![g] = @ \ {s}]
            /\ out' = Answer(h, g, CloseTo(HomeOf[s], s))
            /\ UNCHANGED dTook
         \/ /\ ~Arrives
            /\ out' = Drop(h)
            /\ UNCHANGED <<tun, joined, dTook>>
      /\ UNCHANGED <<dials, live, stopped, dSent, legVars, holds, renewing, up, lease, clientVars,
                     cTook, cSent, got, toC, faultVars>>

(* Defect: the client takes whatever comes.                                *)
Whatever(s, n) == TRUE

Expected(s, n) == n = cTook[s]

(* A frame for a client is billed and sent; the client takes the next one, *)
(* and fails at any other.                                                 *)
HandleToClient(h, g) ==
  LET c == Head(out[h])
      s == c.s
      Sent == HomeOf[s] = g /\ leg[s] = "here"
      Arrives == Sent /\ client[s] = "open"
  IN  /\ Publishes(h, g, "to_client") /\ g \in up
      /\ toC' = [toC EXCEPT ![s] = IF Sent THEN @ + 1 ELSE @]
      /\ \/ /\ Arrives /\ Expected(s, c.n)
            /\ cTook' = [cTook EXCEPT ![s] = @ + 1]
            /\ got' = [got EXCEPT ![s] = @ \cup {c.n}]
            /\ out' = Drop(h)
            /\ UNCHANGED <<client, leg>>
         \/ /\ Arrives /\ ~Expected(s, c.n)
            /\ Ends(s)
            /\ out' = Answer(h, g, CloseTo(dest[s], s))
            /\ UNCHANGED <<cTook, got>>
         \/ /\ ~Arrives
            /\ out' = Drop(h)
            /\ UNCHANGED <<client, leg, cTook, got>>
      /\ UNCHANGED <<tunnelVars, legVars, hubVars, lease, dest, opening, cSent, toD, faultVars>>

(* Both ends that are here are closed.                                     *)
HandleClose(h, g) ==
  LET s == Head(out[h]).s
  IN  /\ Publishes(h, g, "close") /\ g \in up
      /\ IF HomeOf[s] = g /\ leg[s] = "here"
         THEN Ends(s) /\ out' = Answer(h, g, CloseTo(dest[s], s))
         ELSE UNCHANGED <<client, leg>> /\ out' = Drop(h)
      /\ tun' = IF s \in joined[g] /\ Heard(holds[g]) THEN tun \ {s} ELSE tun
      /\ joined' = [joined EXCEPT ![g] = @ \ {s}]
      /\ UNCHANGED <<dials, live, stopped, dTook, dSent, legVars, holds, renewing, up, lease,
                     dest, opening, frameVars, faultVars>>

Handle(h) ==
  \E g \in Hubs :
    HandleOpen(h, g) \/ HandleToDaemon(h, g) \/ HandleToClient(h, g) \/ HandleClose(h, g)

(* Nobody subscribes to the channel of a dead instance.                    *)
Unheard(h) ==
  /\ out[h] # <<>> /\ "to" \in DOMAIN Head(out[h]) /\ Head(out[h]).to \notin up
  /\ holed' = holed \cup {Head(out[h]).s}
  /\ out' = Drop(h)
  /\ UNCHANGED <<tunnelVars, legVars, hubVars, lease, clientVars, frameVars, faults>>

(* A publication fails, or is not received.                                *)
Lose(h) ==
  /\ out[h] # <<>> /\ "to" \in DOMAIN Head(out[h]) /\ Fault
  /\ holed' = holed \cup {Head(out[h]).s}
  /\ out' = Drop(h)
  /\ UNCHANGED <<tunnelVars, legVars, hubVars, lease, clientVars, frameVars>>

Executes(h) == Claim(h) \/ Release(h) \/ Renew(h) \/ Handle(h) \/ Unheard(h)

-----------------------------------------------------------------------------
(***************************************************************************)
(* Clients and their legs.                                                 *)
(***************************************************************************)

(* #upgradeClient: the daemon is located, and the leg is open.             *)
Link(s) ==
  /\ client[s] = "none" /\ HomeOf[s] \in up /\ lease # None
  /\ client' = [client EXCEPT ![s] = "open"]
  /\ dest' = [dest EXCEPT ![s] = lease]
  /\ leg' = [leg EXCEPT ![s] = "here"]
  /\ opening' = opening \cup {s}
  /\ UNCHANGED <<tunnelVars, legVars, hubVars, planeVars, frameVars, faultVars>>

(* #openSession after its lookup, whether or not the client is still there.*)
Open(s) ==
  /\ s \in opening /\ HomeOf[s] \in up
  /\ opening' = opening \ {s}
  /\ Issue(HomeOf[s], [k |-> "open", to |-> dest[s], s |-> s])
  /\ UNCHANGED <<tunnelVars, legVars, hubVars, lease, client, dest, leg, frameVars,
                 faultVars>>

ClientSends(s) ==
  /\ Linked(s) /\ cSent[s] < FrameBound
  /\ cSent' = [cSent EXCEPT ![s] = @ + 1]
  /\ Issue(HomeOf[s], [k |-> "to_daemon", to |-> dest[s], s |-> s, n |-> cSent[s]])
  /\ UNCHANGED <<tunnelVars, legVars, hubVars, lease, clientVars, cTook, got, toC, toD,
                 faultVars>>

(* The daemon answers once the client has said hello; its instance relays  *)
(* the frame if it has the session.                                        *)
DaemonSends(s) ==
  /\ s \in tun /\ dTook[s] > 0 /\ dSent[s] < FrameBound
  /\ dSent' = [dSent EXCEPT ![s] = @ + 1]
  /\ IF Heard(live) /\ s \in joined[at[live]]
     THEN Issue(at[live], [k |-> "to_client", to |-> HomeOf[s], s |-> s, n |-> dSent[s]])
     ELSE UNCHANGED out
  /\ UNCHANGED <<dials, live, stopped, tun, dTook, legVars, hubVars, lease, clientVars,
                 frameVars, faultVars>>

(* Session s is torn at instance h.                                        *)
Tear(h, s) ==
  /\ joined' = [joined EXCEPT ![h] = @ \ {s}]
  /\ Issue(h, CloseTo(HomeOf[s], s))

(* What serves a session ends it, or denies the client.                    *)
DaemonEnds(s) ==
  /\ s \in tun
  /\ tun' = tun \ {s}
  /\ IF Heard(live) /\ s \in joined[at[live]]
     THEN Tear(at[live], s)
     ELSE UNCHANGED <<joined, out>>
  /\ UNCHANGED <<dials, live, stopped, dTook, dSent, legVars, holds, renewing, up, lease,
                 clientVars, frameVars, faultVars>>

(* The client closes, and the close handler of its leg tells the daemon's  *)
(* instance.                                                               *)
ClientLeaves(s) ==
  /\ client[s] = "open" /\ Ends(s)
  /\ Issue(HomeOf[s], CloseTo(dest[s], s))
  /\ UNCHANGED <<tunnelVars, legVars, hubVars, lease, dest, opening, frameVars, faultVars>>

(* The network under it breaks, and the leg is closed for being idle.      *)
ClientVanishes(s) ==
  /\ client[s] = "open" /\ Fault
  /\ client' = [client EXCEPT ![s] = "closed"]
  /\ UNCHANGED <<tunnelVars, legVars, hubVars, planeVars, dest, leg, opening, frameVars, holed>>

LegGone(s) ==
  /\ client[s] = "closed" /\ leg[s] = "here" /\ Ends(s)
  /\ Issue(HomeOf[s], CloseTo(dest[s], s))
  /\ UNCHANGED <<tunnelVars, legVars, hubVars, lease, dest, opening, frameVars, faultVars>>

(* The rest of #tick: a session, or a client's leg, stays behind what it   *)
(* was billed for.                                                         *)
OverdueSession(h, s) ==
  /\ s \in joined[h] /\ dTook[s] < toD[s]
  /\ Tear(h, s)
  /\ tun' = IF Heard(holds[h]) THEN tun \ {s} ELSE tun
  /\ UNCHANGED <<dials, live, stopped, dTook, dSent, legVars, holds, renewing, up, lease,
                 clientVars, frameVars, faultVars>>

OverdueClient(s) ==
  /\ leg[s] = "here" /\ cTook[s] < toC[s] /\ Ends(s)
  /\ Issue(HomeOf[s], CloseTo(dest[s], s))
  /\ UNCHANGED <<tunnelVars, legVars, hubVars, lease, dest, opening, frameVars, faultVars>>

-----------------------------------------------------------------------------
(***************************************************************************)
(* What goes wrong.                                                        *)
(***************************************************************************)

(* The network under a leg breaks and nobody is told; or the instance      *)
(* closes it: rate limited, refused, its enrollment withdrawn, the renewal *)
(* of a lease it holds rejected.                                           *)
Break(l, how) ==
  /\ ws[l] = "open" /\ Fault
  /\ ws' = [ws EXCEPT ![l] = how]
  /\ UNCHANGED <<tunnelVars, at, stage, ending, hubVars, planeVars, clientVars, frameVars, holed>>

(* #onDisrupted: the instance has missed envelopes, and ends all it has.   *)
Disrupted(h) ==
  LET Mine == {s \in Sessions : HomeOf[s] = h /\ leg[s] = "here"}
  IN  /\ h \in up /\ joined[h] \cup Mine # {} /\ Fault
      /\ client' = [s \in Sessions |-> IF s \in Mine THEN "closed" ELSE client[s]]
      /\ leg' = [s \in Sessions |-> IF s \in Mine THEN "gone" ELSE leg[s]]
      /\ out' = [out EXCEPT ![h] = @ \o SetToSeq({CloseTo(dest[s], s) : s \in Mine})]
      /\ tun' = IF Heard(holds[h]) THEN tun \ joined[h] ELSE tun
      /\ joined' = [joined EXCEPT ![h] = {}]
      /\ holed' = holed \cup joined[h] \cup Mine
      /\ UNCHANGED <<dials, live, stopped, dTook, dSent, legVars, holds, renewing, up, lease,
                     dest, opening, frameVars>>

(* An instance is killed: no goodbye, and it comes back under a new id.    *)
HubDies(h) ==
  LET Mine == {s \in Sessions : HomeOf[s] = h /\ leg[s] # "gone"}
  IN  /\ h \in up /\ Fault
      /\ up' = up \ {h}
      /\ holds' = [holds EXCEPT ![h] = None]
      /\ joined' = [joined EXCEPT ![h] = {}]
      /\ renewing' = [renewing EXCEPT ![h] = FALSE]
      /\ out' = [out EXCEPT ![h] = <<>>]
      /\ ws' = [l \in Legs |-> IF at[l] = h /\ ws[l] = "open" THEN "closed" ELSE ws[l]]
      /\ ending' = [l \in Legs |-> IF at[l] = h /\ ending[l] # "unnamed" THEN "done" ELSE ending[l]]
      /\ client' = [s \in Sessions |-> IF s \in Mine THEN "closed" ELSE client[s]]
      /\ leg' = [s \in Sessions |-> IF s \in Mine THEN "gone" ELSE leg[s]]
      /\ opening' = opening \ Mine
      /\ holed' = holed \cup Mine \cup {s \in Sessions : dest[s] = h}
      /\ UNCHANGED <<tunnelVars, at, stage, lease, dest, frameVars>>

-----------------------------------------------------------------------------
Tunnel(l) == HearsClose(l) \/ OnSilence(l)
Leg(l) == Registered(l) \/ Closed(l) \/ TearDone(l) \/ \E s \in Sessions : TearOne(l, s)
Overdue(s) == OverdueClient(s) \/ \E h \in Hubs : OverdueSession(h, s)

Next ==
  \/ \E h \in Hubs :
       \/ Dial(h) \/ Tick(h) \/ Executes(h)
       \/ Lose(h) \/ Rejects(h) \/ Disrupted(h) \/ HubDies(h)
  \/ \E l \in Legs :
       \/ Tunnel(l) \/ Leg(l)
       \/ \E s \in Sessions : TearFails(l, s)
       \/ \E how \in {"dead", "closed"} : Break(l, how)
  \/ \E s \in Sessions :
       \/ Link(s) \/ Open(s) \/ ClientSends(s) \/ DaemonSends(s) \/ DaemonEnds(s)
       \/ ClientLeaves(s) \/ ClientVanishes(s) \/ LegGone(s) \/ Overdue(s)
  \/ Stop \/ Expire

Spec == Init /\ [][Next]_vars

(* Timers fire, handlers go on when what they await is there, the          *)
(* backplane executes what it is given, and a dial finds an instance.      *)
Fairness ==
  /\ WF_vars(\E h \in Hubs : Dial(h)) /\ WF_vars(Expire)
  /\ \A h \in Hubs : WF_vars(Tick(h)) /\ WF_vars(Executes(h))
  /\ \A l \in Legs :
       /\ WF_vars(Tunnel(l)) /\ WF_vars(Registered(l)) /\ WF_vars(Closed(l))
       /\ WF_vars(TearDone(l) \/ \E s \in Sessions : TearOne(l, s))
  /\ \A s \in Sessions : WF_vars(Open(s)) /\ WF_vars(LegGone(s)) /\ WF_vars(Overdue(s))

FairSpec == Spec /\ Fairness

-----------------------------------------------------------------------------
(***************************************************************************)
(* Properties.                                                             *)
(***************************************************************************)

(* What a client has taken in has no hole, whatever the backplane loses    *)
(* and however the legs are replaced meanwhile.                            *)
NoHole == \A s \in Sessions : \A n \in got[s] : \A m \in 0..n : m \in got[s]

(* A working leg is only let go of by stop, or by a hub that keeps it      *)
(* waiting: no late event of another leg speaks for it.                    *)
LiveLegStays ==
  [][\A l \in Legs : live = l /\ ws[l] = "open" /\ stage[l] = "named" /\ ~stopped' =>
       live' = l]_vars

(* A tunnel never stays on a leg that is gone.                             *)
LostLegIsNoticed == \A l \in Legs : live = l /\ ws[l] \in {"dead", "closed"} ~> live # l

(* A leg on record at an instance that is not the daemon's address either  *)
(* becomes it or is dropped; two instances do not go on serving one daemon.*)
Recorded(l) == at[l] # None /\ holds[at[l]] = l /\ ending[l] = "no"
LegSettles ==
  \A l \in Legs : Recorded(l) /\ lease # at[l] ~> lease = at[l] \/ ~Recorded(l)

(* A registration whose leg was closed during its lookup.                  *)
Ghosts == {l \in Legs : stage[l] = "named" /\ ending[l] = "unnamed"}

(* A linked client is served or is told that it is not, unless an envelope *)
(* of its session was lost, or the handler that was to tell it had failed: *)
(* nobody waits on a stream that has no source.                            *)
Served(s) == s \in tun /\ live # None /\ s \in joined[at[live]]
ClientHears ==
  \A s \in Sessions :
    Linked(s) /\ ~Served(s) ~>
      Served(s) \/ client[s] = "closed" \/ s \in holed \/ Ghosts # {}

(* "A lease that has to be renewed decays on its own" (backplane.ts:16).   *)
LeaseDecays == stopped ~> lease = None

(* A client that waits for a frame the daemon has sent gets it or is told  *)
(* that its session is over, unless an envelope was lost or never sent.    *)
Waits(s) == client[s] = "open" /\ cTook[s] < dSent[s]
FramesArrive == \A s \in Sessions : Waits(s) ~> ~Waits(s) \/ s \in holed

(* "This is what catches a frame the backplane lost with nothing behind    *)
(* it" (hub.ts:57): the same while the daemon serves the session, whatever *)
(* is lost.                                                                *)
TailIsCaught == \A s \in Sessions : Waits(s) /\ Served(s) ~> ~Waits(s) \/ ~Served(s)

(* "Every session this daemon was serving is over. Telling each client is  *)
(* what lets it reconnect and replay rather than wait on a dead stream"    *)
(* (hub.ts:998): the close handler of a leg leaves no session untold.      *)
EachClientIsTold ==
  [][\A l \in Legs :
       ending[l] \in {"releasing", "tearing"} /\ ending'[l] = "done" /\ at[l] \in up' =>
         joined'[at[l]] = {}]_vars

(* "A replaced leg closing after its successor registered would otherwise  *)
(* evict the live one" (hub.ts:985): it does not end a session of it.      *)
SuccessorKeepsSessions ==
  [][\A l \in Legs, s \in Sessions :
       live = l /\ Heard(l) /\ s \in tun /\ s \in joined[at[l]] /\ s \notin joined[at[l]]' =>
         \/ s \notin tun'
         \/ at[l] \notin up']_vars
=============================================================================
