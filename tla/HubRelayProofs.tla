--------------------------- MODULE HubRelayProofs ---------------------------
(***************************************************************************)
(* Proofs about HubRelay, for any instances, sessions, dials, frames and   *)
(* faults.                                                                 *)
(***************************************************************************)
EXTENDS HubRelay, FiniteSetTheorems, TLAPS

(* What a client has taken in is what it has counted.                      *)
Prefix ==
  /\ cTook \in [Sessions -> Nat] /\ DOMAIN got = Sessions
  /\ \A s \in Sessions : got[s] = 0..(cTook[s] - 1)

LEMMA PrefixHasNoHole == Prefix => NoHole
  BY SMT DEF Prefix, NoHole

(* The one step that hands a frame to a client.                            *)
LEMMA FrameKeepsPrefix ==
  ASSUME Prefix, NEW h \in Hubs, NEW g \in Hubs, HandleToClient(h, g)
  PROVE  Prefix'
<1> DEFINE c == Head(out[h])
           s == c.s
<1>1. CASE /\ Expected(s, c.n)
           /\ cTook' = [cTook EXCEPT ![s] = @ + 1]
           /\ got' = [got EXCEPT ![s] = @ \cup {c.n}]
  <2> HIDE DEF c
  <2>1. cTook' \in [Sessions -> Nat] /\ DOMAIN got' = Sessions
    <3>1. \A t \in Sessions : cTook[t] \in Nat /\ cTook[t] + 1 \in Nat
      BY DEF Prefix
    <3>2. DOMAIN cTook = Sessions /\ DOMAIN got = Sessions
      BY DEF Prefix
    <3>3. \A t \in Sessions : cTook'[t] \in Nat
      BY <1>1, <3>1, <3>2
    <3>4. QED
      BY <1>1, <3>2, <3>3
  <2>2. ASSUME NEW t \in Sessions, t # s
        PROVE  got'[t] = 0..(cTook'[t] - 1)
    BY <1>1, <2>2 DEF Prefix
  <2>3. ASSUME s \in Sessions
        PROVE  got'[s] = 0..(cTook'[s] - 1)
    <3>1. got'[s] = got[s] \cup {cTook[s]} /\ cTook'[s] = cTook[s] + 1
      BY <1>1, <2>3 DEF Prefix, Expected
    <3>2. got[s] = 0..(cTook[s] - 1) /\ cTook[s] \in Nat
      BY <2>3 DEF Prefix
    <3>3. QED
      BY <3>1, <3>2
  <2>4. QED
    BY <2>1, <2>2, <2>3 DEF Prefix
<1>2. CASE UNCHANGED <<cTook, got>>
  BY <1>2 DEF Prefix
<1>3. QED
  BY <1>1, <1>2 DEF HandleToClient

(* Nothing else touches what a client has taken.                           *)
LEMMA OthersTakeNothing ==
  ASSUME [Next]_vars
  PROVE  UNCHANGED <<cTook, got>> \/ \E h, g \in Hubs : HandleToClient(h, g)
<1>1. ASSUME NEW h \in Hubs, Dial(h) \/ Tick(h) \/ Lose(h) \/ Disrupted(h) \/ HubDies(h)
      PROVE  UNCHANGED <<cTook, got>>
  BY <1>1, Zenon DEF Dial, Tick, Lose, Disrupted, HubDies, frameVars
<1>2. ASSUME NEW h \in Hubs, Claim(h) \/ Release(h) \/ Renew(h) \/ Unheard(h) \/ Rejects(h)
      PROVE  UNCHANGED <<cTook, got>>
  BY <1>2, Zenon DEF Claim, Release, Renew, Unheard, Rejects, ClaimFails, ReleaseFails,
                     RenewFails, frameVars
<1>3. ASSUME NEW h \in Hubs, NEW g \in Hubs,
             HandleOpen(h, g) \/ HandleToDaemon(h, g) \/ HandleClose(h, g)
      PROVE  UNCHANGED <<cTook, got>>
  BY <1>3, Zenon DEF HandleOpen, HandleToDaemon, HandleClose, frameVars
<1>4. ASSUME NEW l \in Legs,
             \/ Tunnel(l) \/ Leg(l) \/ (\E s \in Sessions : TearFails(l, s))
             \/ \E how \in {"dead", "closed"} : Break(l, how)
      PROVE  UNCHANGED <<cTook, got>>
  BY <1>4, Zenon DEF Tunnel, HearsClose, OnSilence, Leg, Registered, Closed, TearDone, TearOne,
                     TearFails, Break, frameVars
<1>5. ASSUME NEW s \in Sessions,
             \/ Link(s) \/ Open(s) \/ ClientSends(s) \/ DaemonSends(s) \/ DaemonEnds(s)
             \/ ClientLeaves(s) \/ ClientVanishes(s) \/ LegGone(s) \/ Overdue(s)
      PROVE  UNCHANGED <<cTook, got>>
  BY <1>5, Zenon DEF Link, Open, ClientSends, DaemonSends, DaemonEnds, ClientLeaves,
                     ClientVanishes, LegGone, Overdue, OverdueClient, OverdueSession, frameVars
<1>6. ASSUME Stop \/ Expire \/ UNCHANGED vars
      PROVE  UNCHANGED <<cTook, got>>
  BY <1>6, Zenon DEF Stop, Expire, vars, frameVars
<1>7. QED
  BY <1>1, <1>2, <1>3, <1>4, <1>5, <1>6, Zenon DEF Next, Executes, Handle

(* Whatever the backplane loses, reorders across instances or repeats, and *)
(* however legs are replaced: what a client took in has no hole.           *)
THEOREM NoHoles == Spec => []NoHole
<1>1. Init => Prefix
  BY DEF Init, Prefix
<1>2. Prefix /\ [Next]_vars => Prefix'
  <2> SUFFICES ASSUME Prefix, [Next]_vars PROVE Prefix'
    OBVIOUS
  <2>1. CASE UNCHANGED <<cTook, got>>
    BY <2>1 DEF Prefix
  <2>2. CASE \E h, g \in Hubs : HandleToClient(h, g)
    BY <2>2, FrameKeepsPrefix
  <2>3. QED
    BY <2>1, <2>2, OthersTakeNothing
<1>3. QED
  BY <1>1, <1>2, PrefixHasNoHole, PTL DEF Spec

-----------------------------------------------------------------------------
(* The steps that change the leg a tunnel speaks for.                      *)
LEMMA OthersKeepTheLeg ==
  ASSUME [Next]_vars
  PROVE  \/ UNCHANGED live
         \/ \E h \in Hubs : Dial(h)
         \/ \E l \in Legs : HearsClose(l) \/ OnSilence(l)
         \/ Stop
<1>1. ASSUME NEW h \in Hubs, Tick(h) \/ Lose(h) \/ Disrupted(h) \/ HubDies(h)
      PROVE  UNCHANGED live
  BY <1>1, Zenon DEF Tick, Lose, Disrupted, HubDies, tunnelVars
<1>2. ASSUME NEW h \in Hubs, Executes(h) \/ Rejects(h)
      PROVE  UNCHANGED live
  BY <1>2, Zenon DEF Executes, Claim, Release, Renew, Unheard, Handle, HandleOpen,
                     HandleToDaemon, HandleToClient, HandleClose, Rejects, ClaimFails,
                     ReleaseFails, RenewFails, tunnelVars
<1>3. ASSUME NEW l \in Legs,
             \/ Leg(l) \/ (\E s \in Sessions : TearFails(l, s))
             \/ \E how \in {"dead", "closed"} : Break(l, how)
      PROVE  UNCHANGED live
  BY <1>3, Zenon DEF Leg, Registered, Closed, TearDone, TearOne, TearFails, Break, tunnelVars
<1>4. ASSUME NEW s \in Sessions,
             \/ Link(s) \/ Open(s) \/ ClientSends(s) \/ DaemonSends(s) \/ DaemonEnds(s)
             \/ ClientLeaves(s) \/ ClientVanishes(s) \/ LegGone(s) \/ Overdue(s)
      PROVE  UNCHANGED live
  BY <1>4, Zenon DEF Link, Open, ClientSends, DaemonSends, DaemonEnds, ClientLeaves,
                     ClientVanishes, LegGone, Overdue, OverdueClient, OverdueSession, tunnelVars
<1>5. ASSUME Expire \/ UNCHANGED vars
      PROVE  UNCHANGED live
  BY <1>5, Zenon DEF Expire, vars, tunnelVars
<1>6. QED
  BY <1>1, <1>2, <1>3, <1>4, <1>5, Zenon DEF Next, Tunnel

LEMMA LiveLegStep ==
  ASSUME [Next]_vars, NEW l \in Legs,
         live = l, ws[l] = "open", stage[l] = "named", ~stopped'
  PROVE  live' = l
<1>1. CASE \E h \in Hubs : Dial(h)
  BY <1>1, RelayAssumption DEF Dial, RelayAssumption
<1>2. ASSUME NEW k \in Legs, HearsClose(k)
      PROVE  FALSE
  BY <1>2 DEF HearsClose, Current
<1>3. ASSUME NEW k \in Legs, OnSilence(k)
      PROVE  FALSE
  BY <1>3 DEF OnSilence, Silent
<1>4. CASE Stop
  BY <1>4 DEF Stop
<1>5. QED
  BY <1>1, <1>2, <1>3, <1>4, OthersKeepTheLeg

(* A leg that works and is registered is not let go of because of what     *)
(* happens to another, nor dialed over.                                    *)
THEOREM LiveLegsStay == Spec => LiveLegStays
<1>1. [Next]_vars =>
        [\A l \in Legs :
           live = l /\ ws[l] = "open" /\ stage[l] = "named" /\ ~stopped' => live' = l]_vars
  BY LiveLegStep
<1>2. QED
  BY <1>1, PTL DEF Spec, LiveLegStays

-----------------------------------------------------------------------------
(***************************************************************************)
(* Types, and what they rest on: the queue of an instance holds frames     *)
(* that were sent, and the instance that is told of the end of a session   *)
(* is known, because nobody is linked before the daemon was located.       *)
(***************************************************************************)

(* What the close handler of a registered leg says it has done.            *)
Past == {"releasing", "tearing", "done"}

(* A frame under way has been sent by the other end, and an address is     *)
(* given up by a leg that closes.                                          *)
Genuine(c) ==
  /\ c.k = "to_client" => c.n < dSent[c.s]
  /\ c.k = "to_daemon" => c.n < cSent[c.s]
  /\ c.k = "release" => ending[c.l] \in Past

Issued == {c \in Commands : Genuine(c)}

(* Neither end takes in what the other has not sent: no frame is invented  *)
(* or taken from another session (HandleToDaemon, HandleToClient).         *)
TakenWasSent ==
  \A s \in Sessions : cTook[s] <= dSent[s] /\ dTook[s] <= cSent[s]

(* The leg an instance has on record is its own, it has registered, and    *)
(* its close handler has not dropped it: a leg that was dropped never      *)
(* comes back, whatever is executed late (Registered, Closed).  One that   *)
(* closed during its lookup was dropped by nobody and may still come.      *)
RecordIsOwn ==
  \A h \in Hubs : holds[h] # None =>
     LET l == holds[h]
     IN  at[l] = h /\ stage[l] = "named" /\ ending[l] \notin Past

(* Clients whose leg is up.  Only a link adds to them: they are finite.    *)
Here == {s \in Sessions : leg[s] = "here"}

TunnelOK ==
  /\ dials \in 0..LegBound /\ live \in Legs \cup {None} /\ stopped \in BOOLEAN
  /\ tun \subseteq Sessions
LegsOK ==
  /\ at \in [Legs -> Hubs \cup {None}]
  /\ ws \in [Legs -> {"none", "open", "dead", "closed"}]
  /\ stage \in [Legs -> {"none", "lookup", "named"}]
  /\ ending \in [Legs -> {"no", "unnamed", "releasing", "tearing", "done"}]
HubsOK ==
  /\ holds \in [Hubs -> Legs \cup {None}]
  /\ joined \in [Hubs -> SUBSET Sessions]
  /\ renewing \in [Hubs -> BOOLEAN] /\ up \subseteq Hubs
  /\ lease \in Hubs \cup {None}
RecordsOK ==
  /\ RecordIsOwn
  /\ \A l \in Legs : l > dials => at[l] = None /\ stage[l] = "none" /\ ending[l] = "no"
  /\ \A l \in Legs : stage[l] = "lookup" /\ at[l] \in up => ending[l] \notin Past
QueuesOK == out \in [Hubs -> Seq(Issued)]
ClientsOK ==
  /\ client \in [Sessions -> {"none", "open", "closed"}]
  /\ dest \in [Sessions -> Hubs \cup {None}]
  /\ leg \in [Sessions -> {"none", "here", "gone"}]
  /\ opening \subseteq Sessions
  /\ \A s \in Sessions :
       client[s] = "open" \/ leg[s] = "here" \/ s \in opening => dest[s] \in Hubs
  /\ IsFiniteSet(Here)
FramesOK ==
  /\ dTook \in [Sessions -> Nat] /\ dSent \in [Sessions -> 0..FrameBound]
  /\ cTook \in [Sessions -> Nat] /\ cSent \in [Sessions -> 0..FrameBound]
  /\ got \in [Sessions -> SUBSET (0..FrameBound)]
  /\ toC \in [Sessions -> Nat] /\ toD \in [Sessions -> Nat]
  /\ TakenWasSent
FaultsOK == faults \in 0..FaultBound /\ holed \subseteq Sessions

RelayInv ==
  TunnelOK /\ LegsOK /\ HubsOK /\ RecordsOK /\ QueuesOK /\ ClientsOK /\ FramesOK /\ FaultsOK

-----------------------------------------------------------------------------
(* Queues of commands.                                                     *)
LEMMA AppendQueue ==
  ASSUME NEW S, NEW q \in [Hubs -> Seq(S)], NEW h, NEW c \in S
  PROVE  [q EXCEPT ![h] = Append(@, c)] \in [Hubs -> Seq(S)]
<1>1. ASSUME NEW k \in Hubs PROVE Append(q[k], c) \in Seq(S)
  OBVIOUS
<1> QED BY <1>1

LEMMA DropQueue ==
  ASSUME NEW S, NEW q \in [Hubs -> Seq(S)], NEW h \in Hubs, q[h] # <<>>
  PROVE  [q EXCEPT ![h] = Tail(@)] \in [Hubs -> Seq(S)] /\ Head(q[h]) \in S
<1>1. q[h] \in Seq(S)
  OBVIOUS
<1>2. Tail(q[h]) \in Seq(S) /\ Head(q[h]) \in S
  BY <1>1
<1> QED BY <1>2

LEMMA WiderSeq ==
  ASSUME NEW S, NEW T, S \subseteq T, NEW q \in Seq(S) PROVE q \in Seq(T)
<1>1. q = [i \in 1..Len(q) |-> q[i]] /\ Len(q) \in Nat /\ \A i \in 1..Len(q) : q[i] \in T
  OBVIOUS
<1> QED BY <1>1

LEMMA WiderQueue ==
  ASSUME NEW S, NEW T, S \subseteq T, NEW q \in [Hubs -> Seq(S)]
  PROVE  q \in [Hubs -> Seq(T)]
  BY WiderSeq

(* What a command of each kind carries.                                    *)
LEMMA CommandType ==
  ASSUME NEW c \in Commands
  PROVE  /\ c.k \in {"open", "close", "to_daemon", "to_client"} =>
              c.to \in Hubs /\ c.s \in Sessions
         /\ c.k \in {"to_daemon", "to_client"} => c.n \in Nat
         /\ c.k \in {"claim", "release"} => c.l \in Legs
         /\ "to" \in DOMAIN c => c.to \in Hubs /\ c.s \in Sessions
  BY DEF Commands

LEMMA CloseIssued ==
  ASSUME NEW h \in Hubs, NEW s \in Sessions PROVE CloseTo(h, s) \in Issued
  BY DEF CloseTo, Issued, Genuine, Commands

LEMMA PlainIssued ==
  /\ \A l \in Legs : [k |-> "claim", l |-> l] \in Issued
  /\ [k |-> "renew"] \in Issued
  /\ \A h \in Hubs, s \in Sessions : [k |-> "open", to |-> h, s |-> s] \in Issued
  BY DEF Issued, Genuine, Commands

(* A queue stays what it was when frames are only sent and legs only close.*)
LEMMA SentGrows ==
  ASSUME FramesOK, FramesOK',
         \A s \in Sessions : dSent[s] <= dSent'[s] /\ cSent[s] <= cSent'[s],
         \A l \in Legs : ending[l] \in Past => ending'[l] \in Past
  PROVE  Issued \subseteq Issued'
<1> SUFFICES ASSUME NEW c \in Issued PROVE c \in Issued'
  OBVIOUS
<1>1. c \in Commands
  BY DEF Issued
<1>2. CASE c.k = "to_client"
  BY <1>1, <1>2, CommandType DEF Issued, Genuine, FramesOK
<1>3. CASE c.k = "to_daemon"
  BY <1>1, <1>3, CommandType DEF Issued, Genuine, FramesOK
<1>4. CASE c.k = "release"
  BY <1>1, <1>4, CommandType DEF Issued, Genuine
<1> QED BY <1>1, <1>2, <1>3, <1>4 DEF Issued, Genuine

LEMMA ExecutedType ==
  ASSUME QueuesOK, NEW h \in Hubs, out[h] # <<>>
  PROVE  Drop(h) \in [Hubs -> Seq(Issued)] /\ Head(out[h]) \in Issued
         /\ Head(out[h]) \in Commands
  BY DropQueue DEF QueuesOK, Drop, Issued

LEMMA AnsweredType ==
  ASSUME QueuesOK, NEW h \in Hubs, out[h] # <<>>, NEW g, NEW c \in Issued
  PROVE  Answer(h, g, c) \in [Hubs -> Seq(Issued)]
  BY ExecutedType, AppendQueue DEF Answer

LEMMA IssuedType ==
  ASSUME QueuesOK, NEW h, NEW c \in Issued, Issue(h, c)
  PROVE  out' \in [Hubs -> Seq(Issued)]
  BY AppendQueue DEF QueuesOK, Issue

(* SetToSeq lists the elements of a finite set.                            *)
LEMMA ListType ==
  ASSUME NEW S, IsFiniteSet(S) PROVE SetToSeq(S) \in Seq(S)
<1>1. Cardinality(S) \in Nat /\ ExistsBijection(1..Cardinality(S), S)
  BY FS_CardinalityType
<1>2. \E f \in [1..Cardinality(S) -> S] : IsInjective(f)
  BY <1>1 DEF ExistsBijection, Bijection, Injection
<1>3. SetToSeq(S) \in [1..Cardinality(S) -> S]
  BY <1>2 DEF SetToSeq
<1> QED BY <1>1, <1>3

(* Legs of clients only go.                                                *)
LEMMA HereShrinks ==
  ASSUME ClientsOK, Here' \subseteq Here PROVE IsFiniteSet(Here')
  BY FS_Subset DEF ClientsOK

(* The tables of clients after one of them ends.                           *)
LEMMA EndsType ==
  ASSUME ClientsOK, NEW s \in Sessions, Ends(s), UNCHANGED <<dest, opening>>
  PROVE  ClientsOK'
<1>1. Here' \subseteq Here
  BY DEF Ends, Here, ClientsOK
<1> QED BY <1>1, HereShrinks DEF Ends, ClientsOK

-----------------------------------------------------------------------------
(* What is left alone stays well typed.                                    *)
LEMMA KeepTunnel == ASSUME TunnelOK, UNCHANGED <<dials, live, stopped, tun>> PROVE TunnelOK'
  BY DEF TunnelOK

LEMMA KeepLegs == ASSUME LegsOK, UNCHANGED legVars PROVE LegsOK'
  BY DEF LegsOK, legVars

LEMMA KeepHubs == ASSUME HubsOK, UNCHANGED <<hubVars, lease>> PROVE HubsOK'
  BY DEF HubsOK, hubVars

LEMMA KeepRecords ==
  ASSUME RecordsOK, UNCHANGED <<dials, at, stage, ending, holds, up>> PROVE RecordsOK'
  BY DEF RecordsOK, RecordIsOwn

LEMMA KeepClients == ASSUME ClientsOK, UNCHANGED clientVars PROVE ClientsOK'
  BY DEF ClientsOK, clientVars, Here

LEMMA KeepFrames == ASSUME FramesOK, UNCHANGED <<dTook, dSent, frameVars>> PROVE FramesOK'
  BY DEF FramesOK, frameVars, TakenWasSent

LEMMA KeepFaults == ASSUME FaultsOK, UNCHANGED faultVars PROVE FaultsOK'
  BY DEF FaultsOK, faultVars

LEMMA KeepIssued == ASSUME UNCHANGED <<dSent, cSent, ending>> PROVE Issued' = Issued
  BY DEF Issued, Genuine

LEMMA KeepQueues == ASSUME QueuesOK, UNCHANGED <<dSent, cSent, ending, out>> PROVE QueuesOK'
  BY KeepIssued DEF QueuesOK

(* A fault is counted.                                                     *)
LEMMA FaultType == ASSUME FaultsOK, Fault PROVE faults' \in 0..FaultBound
  BY RelayAssumption DEF FaultsOK, Fault, RelayAssumption

LEMMA DialType ==
  ASSUME RelayInv, NEW h \in Hubs, Dial(h) PROVE RelayInv'
<1> USE DEF RelayInv
<1>1. HubsOK' /\ QueuesOK' /\ ClientsOK' /\ FramesOK' /\ FaultsOK'
  BY KeepHubs, KeepQueues, KeepClients, KeepFrames, KeepFaults
     DEF Dial, hubVars, planeVars, legVars, tunnelVars, frameVars, clientVars, faultVars
<1>2. TunnelOK'
  BY RelayAssumption DEF Dial, TunnelOK, RelayAssumption, Legs
<1>3. LegsOK'
  BY DEF Dial, LegsOK
<1>4. RecordsOK'
  <2> DEFINE d == dials + 1
  <2>1. d \in Legs /\ d > dials /\ stage[d] = "none" /\ ending[d] = "no"
    BY RelayAssumption DEF Dial, RecordsOK, TunnelOK, Legs, RelayAssumption
  <2>2. /\ at' = [at EXCEPT ![d] = h] /\ stage' = [stage EXCEPT ![d] = "lookup"]
        /\ dials' = d /\ UNCHANGED <<ending, holds, up>>
    BY DEF Dial, hubVars
  <2> HIDE DEF d
  <2>3. RecordIsOwn'
    <3> SUFFICES ASSUME NEW k \in Hubs, holds[k] # None
                 PROVE  /\ at'[holds[k]] = k /\ stage'[holds[k]] = "named"
                        /\ ending[holds[k]] \notin Past
      BY <2>2 DEF RecordIsOwn, Past
    <3>1. at[holds[k]] = k /\ stage[holds[k]] = "named" /\ ending[holds[k]] \notin Past
      BY DEF RecordsOK, RecordIsOwn
    <3>2. holds[k] # d /\ holds[k] \in Legs
      BY <2>1, <3>1 DEF HubsOK
    <3> QED BY <2>2, <3>1, <3>2 DEF LegsOK
  <2>4. \A l \in Legs : l > d => at'[l] = None /\ stage'[l] = "none" /\ ending[l] = "no"
    BY <2>1, <2>2 DEF RecordsOK, LegsOK, Legs, TunnelOK
  <2>5. \A l \in Legs : stage'[l] = "lookup" /\ at'[l] \in up => ending[l] \notin Past
    BY <2>1, <2>2 DEF RecordsOK, LegsOK, Past
  <2> QED BY <2>2, <2>3, <2>4, <2>5 DEF RecordsOK, Past
<1> QED BY <1>1, <1>2, <1>3, <1>4

LEMMA HearsCloseType ==
  ASSUME RelayInv, NEW l \in Legs, HearsClose(l) PROVE RelayInv'
<1> USE DEF RelayInv
<1>1. LegsOK' /\ HubsOK' /\ RecordsOK' /\ QueuesOK' /\ ClientsOK' /\ FramesOK' /\ FaultsOK'
  BY KeepLegs, KeepHubs, KeepRecords, KeepQueues, KeepClients, KeepFrames, KeepFaults
     DEF HearsClose, legVars, hubVars, planeVars, tunnelVars, frameVars, clientVars, faultVars
<1>2. TunnelOK'
  BY DEF HearsClose, LegLost, TunnelOK
<1> QED BY <1>1, <1>2

LEMMA OnSilenceType ==
  ASSUME RelayInv, NEW l \in Legs, OnSilence(l) PROVE RelayInv'
<1> USE DEF RelayInv
<1>1. HubsOK' /\ RecordsOK' /\ QueuesOK' /\ ClientsOK' /\ FramesOK' /\ FaultsOK'
  BY KeepHubs, KeepRecords, KeepQueues, KeepClients, KeepFrames, KeepFaults
     DEF OnSilence, hubVars, planeVars, tunnelVars, legVars, frameVars, clientVars, faultVars
<1>2. TunnelOK'
  BY DEF OnSilence, LegLost, TunnelOK
<1>3. LegsOK'
  BY DEF OnSilence, LegsOK
<1> QED BY <1>1, <1>2, <1>3

LEMMA StopType ==
  ASSUME RelayInv, Stop PROVE RelayInv'
<1> USE DEF RelayInv
<1>1. HubsOK' /\ RecordsOK' /\ QueuesOK' /\ ClientsOK' /\ FramesOK'
  BY KeepHubs, KeepRecords, KeepQueues, KeepClients, KeepFrames
     DEF Stop, hubVars, planeVars, tunnelVars, legVars, frameVars, clientVars
<1>2. TunnelOK'
  BY DEF Stop, LegLost, TunnelOK
<1>3. LegsOK'
  BY DEF Stop, LegsOK
<1>4. FaultsOK'
  BY FaultType DEF Stop, FaultsOK
<1> QED BY <1>1, <1>2, <1>3, <1>4

LEMMA RegisteredType ==
  ASSUME RelayInv, NEW l \in Legs, Registered(l) PROVE RelayInv'
<1> USE DEF RelayInv
<1>1. TunnelOK' /\ ClientsOK' /\ FramesOK' /\ FaultsOK'
  BY KeepTunnel, KeepClients, KeepFrames, KeepFaults
     DEF Registered, tunnelVars, clientVars, frameVars, faultVars
<1>2. LegsOK'
  BY DEF Registered, Shut, LegsOK
<1>3. HubsOK'
  BY DEF Registered, HubsOK
<1>4. RecordsOK'
  BY DEF Registered, RecordsOK, RecordIsOwn, HubsOK, LegsOK, tunnelVars
<1>5. QueuesOK'
  BY IssuedType, KeepIssued, PlainIssued DEF Registered, QueuesOK, frameVars, tunnelVars, legVars
<1> QED BY <1>1, <1>2, <1>3, <1>4, <1>5

LEMMA ClosedType ==
  ASSUME RelayInv, NEW l \in Legs, Closed(l) PROVE RelayInv'
<1> USE DEF RelayInv
<1>1. TunnelOK' /\ ClientsOK' /\ FramesOK' /\ FaultsOK'
  BY KeepTunnel, KeepClients, KeepFrames, KeepFaults
     DEF Closed, tunnelVars, clientVars, frameVars, faultVars
<1>2. LegsOK'
  BY DEF Closed, LegsOK
<1>3. HubsOK'
  BY DEF Closed, HubsOK
<1>4. RecordsOK'
  BY DEF Closed, RecordsOK, RecordIsOwn, Past, HubsOK, LegsOK, tunnelVars
<1>5. QueuesOK'
  <2>1. \A k \in Legs : ending[k] \in Past => ending'[k] \in Past
    BY DEF Closed, Past, LegsOK
  <2>2. UNCHANGED <<dSent, cSent>> /\ FramesOK'
    BY <1>1 DEF Closed, frameVars, tunnelVars
  <2>3. Issued \subseteq Issued'
    BY <2>1, <2>2, SentGrows DEF FramesOK
  <2>4. out \in [Hubs -> Seq(Issued')]
    BY <2>3, WiderQueue DEF QueuesOK
  <2>5. CASE UNCHANGED out
    BY <2>4, <2>5 DEF QueuesOK
  <2>6. CASE /\ ending' = [ending EXCEPT ![l] = "releasing"]
             /\ Issue(at[l], [k |-> "release", l |-> l])
    <3>1. [k |-> "release", l |-> l] \in Issued'
      BY <2>6 DEF Issued, Genuine, Commands, Past, LegsOK
    <3> QED BY <2>4, <2>6, <3>1, AppendQueue DEF Issue, QueuesOK
  <2> QED BY <2>5, <2>6 DEF Closed
<1> QED BY <1>1, <1>2, <1>3, <1>4, <1>5

LEMMA TearOneType ==
  ASSUME RelayInv, NEW l \in Legs, NEW s \in Sessions, TearOne(l, s) PROVE RelayInv'
<1> USE DEF RelayInv
<1>1. TunnelOK' /\ LegsOK' /\ RecordsOK' /\ ClientsOK' /\ FramesOK' /\ FaultsOK'
  BY KeepTunnel, KeepLegs, KeepRecords, KeepClients, KeepFrames, KeepFaults
     DEF TearOne, tunnelVars, legVars, hubVars, clientVars, frameVars, faultVars
<1>2. HubsOK'
  BY DEF TearOne, HubsOK
<1>3. QueuesOK'
  BY RelayAssumption, IssuedType, KeepIssued, CloseIssued
     DEF TearOne, RelayAssumption, QueuesOK, frameVars, tunnelVars, legVars
<1> QED BY <1>1, <1>2, <1>3

LEMMA TearDoneType ==
  ASSUME RelayInv, NEW l \in Legs, TearDone(l) PROVE RelayInv'
<1> USE DEF RelayInv
<1>1. TunnelOK' /\ HubsOK' /\ ClientsOK' /\ FramesOK' /\ FaultsOK'
  BY KeepTunnel, KeepHubs, KeepClients, KeepFrames, KeepFaults
     DEF TearDone, tunnelVars, hubVars, planeVars, clientVars, frameVars, faultVars
<1>2. LegsOK'
  BY DEF TearDone, LegsOK
<1>3. RecordsOK'
  BY DEF TearDone, RecordsOK, RecordIsOwn, Past, HubsOK, LegsOK, tunnelVars, hubVars
<1>4. QueuesOK'
  <2>1. \A k \in Legs : ending[k] \in Past => ending'[k] \in Past
    BY DEF TearDone, Past, LegsOK
  <2>2. UNCHANGED <<dSent, cSent>> /\ FramesOK'
    BY <1>1 DEF TearDone, frameVars, tunnelVars
  <2>3. Issued \subseteq Issued'
    BY <2>1, <2>2, SentGrows DEF FramesOK
  <2>4. out \in [Hubs -> Seq(Issued')]
    BY <2>3, WiderQueue DEF QueuesOK
  <2> QED BY <2>4 DEF TearDone, QueuesOK, planeVars
<1> QED BY <1>1, <1>2, <1>3, <1>4

(* A close handler that fails is through.                                  *)
LEMMA FailsType ==
  ASSUME RelayInv, NEW l \in Legs, ending[l] \in Past, NEW T, Fails(l, T),
         UNCHANGED <<tunnelVars, at, ws, stage, holds, renewing, up, clientVars, frameVars>>,
         lease' \in Hubs \cup {None}, holed' \subseteq Sessions
  PROVE  /\ TunnelOK' /\ LegsOK' /\ HubsOK' /\ RecordsOK' /\ ClientsOK' /\ FramesOK' /\ FaultsOK'
         /\ Issued \subseteq Issued'
<1> USE DEF RelayInv
<1>1. TunnelOK' /\ ClientsOK' /\ FramesOK'
  BY KeepTunnel, KeepClients, KeepFrames DEF tunnelVars, frameVars
<1>2. FaultsOK'
  BY FaultType DEF Fails, FaultsOK
<1>3. LegsOK'
  BY DEF Fails, LegsOK
<1>4. HubsOK'
  <2>1. joined' \in [Hubs -> SUBSET Sessions]
    BY DEF Fails, HubsOK
  <2> QED BY <2>1 DEF HubsOK
<1>5. RecordsOK'
  BY DEF Fails, RecordsOK, RecordIsOwn, Past, HubsOK, LegsOK, tunnelVars
<1>6. Issued \subseteq Issued'
  <2>1. \A k \in Legs : ending[k] \in Past => ending'[k] \in Past
    BY DEF Fails, Past, LegsOK
  <2>2. UNCHANGED <<dSent, cSent>>
    BY DEF frameVars, tunnelVars
  <2> QED BY <1>1, <2>1, <2>2, SentGrows DEF FramesOK
<1> QED BY <1>1, <1>2, <1>3, <1>4, <1>5, <1>6

LEMMA TearFailsType ==
  ASSUME RelayInv, NEW l \in Legs, NEW s \in Sessions, TearFails(l, s) PROVE RelayInv'
<1> USE DEF RelayInv
<1>1. /\ ending[l] \in Past /\ Fails(l, {s})
      /\ lease' \in Hubs \cup {None} /\ holed' \subseteq Sessions
  BY DEF TearFails, Past, HubsOK, FaultsOK, GivenUp
<1>2. /\ TunnelOK' /\ LegsOK' /\ HubsOK' /\ RecordsOK' /\ ClientsOK' /\ FramesOK' /\ FaultsOK'
      /\ Issued \subseteq Issued'
  BY <1>1, FailsType DEF TearFails
<1>3. out' \in [Hubs -> Seq(Issued)]
  BY RelayAssumption, IssuedType, CloseIssued DEF TearFails, RelayAssumption, QueuesOK
<1>4. QueuesOK'
  BY <1>2, <1>3, WiderQueue DEF QueuesOK
<1> QED BY <1>2, <1>4

LEMMA TickType ==
  ASSUME RelayInv, NEW h \in Hubs, Tick(h) PROVE RelayInv'
<1> USE DEF RelayInv
<1>1. TunnelOK' /\ LegsOK' /\ RecordsOK' /\ ClientsOK' /\ FramesOK' /\ FaultsOK'
  BY KeepTunnel, KeepLegs, KeepRecords, KeepClients, KeepFrames, KeepFaults
     DEF Tick, tunnelVars, legVars, hubVars, clientVars, frameVars, faultVars
<1>2. HubsOK'
  BY DEF Tick, HubsOK
<1>3. QueuesOK'
  BY IssuedType, KeepIssued, PlainIssued DEF Tick, QueuesOK, frameVars, tunnelVars, legVars
<1> QED BY <1>1, <1>2, <1>3

-----------------------------------------------------------------------------
(* The backplane.                                                          *)
LEMMA ClaimType ==
  ASSUME RelayInv, NEW h \in Hubs, Claim(h) PROVE RelayInv'
<1> USE DEF RelayInv
<1>1. TunnelOK' /\ LegsOK' /\ RecordsOK' /\ ClientsOK' /\ FramesOK' /\ FaultsOK'
  BY KeepTunnel, KeepLegs, KeepRecords, KeepClients, KeepFrames, KeepFaults
     DEF Claim, tunnelVars, legVars, hubVars, clientVars, frameVars, faultVars
<1>2. HubsOK'
  BY DEF Claim, HubsOK, hubVars
<1>3. QueuesOK'
  BY ExecutedType, KeepIssued DEF Claim, Oldest, QueuesOK, frameVars, tunnelVars, legVars
<1> QED BY <1>1, <1>2, <1>3

LEMMA ReleaseType ==
  ASSUME RelayInv, NEW h \in Hubs, Release(h) PROVE RelayInv'
<1> USE DEF RelayInv
<1>1. TunnelOK' /\ ClientsOK' /\ FramesOK' /\ FaultsOK'
  BY KeepTunnel, KeepClients, KeepFrames, KeepFaults
     DEF Release, tunnelVars, clientVars, frameVars, faultVars
<1>2. LegsOK'
  BY DEF Release, LegsOK
<1>3. HubsOK'
  BY DEF Release, HubsOK, hubVars
<1>4. RecordsOK'
  <2>1. Head(out[h]).l \in Legs /\ ending[Head(out[h]).l] \in Past
    BY ExecutedType, CommandType DEF Release, Oldest, Issued, Genuine
  <2> QED BY <2>1 DEF Release, RecordsOK, RecordIsOwn, Past, HubsOK, LegsOK, tunnelVars, hubVars
<1>5. QueuesOK'
  <2>1. \A k \in Legs : ending[k] \in Past => ending'[k] \in Past
    BY DEF Release, Past, LegsOK
  <2>2. UNCHANGED <<dSent, cSent>> /\ FramesOK'
    BY <1>1 DEF Release, frameVars, tunnelVars
  <2>3. Issued \subseteq Issued'
    BY <2>1, <2>2, SentGrows DEF FramesOK
  <2>4. out \in [Hubs -> Seq(Issued')]
    BY <2>3, WiderQueue DEF QueuesOK
  <2>5. Drop(h) \in [Hubs -> Seq(Issued')]
    BY <2>3, ExecutedType, WiderQueue DEF Release, Oldest
  <2> QED BY <2>5 DEF Release, QueuesOK
<1> QED BY <1>1, <1>2, <1>3, <1>4, <1>5

LEMMA ReleaseFailsType ==
  ASSUME RelayInv, NEW h \in Hubs, ReleaseFails(h) PROVE RelayInv'
<1> USE DEF RelayInv
<1>1. PICK l \in Legs : l = Head(out[h]).l /\ ending[l] \in Past
  BY ExecutedType, CommandType DEF ReleaseFails, Oldest, Issued, Genuine
<1>2. /\ Fails(l, {}) /\ lease' \in Hubs \cup {None} /\ holed' \subseteq Sessions
  BY <1>1 DEF ReleaseFails, HubsOK, FaultsOK, GivenUp
<1>3. /\ TunnelOK' /\ LegsOK' /\ HubsOK' /\ RecordsOK' /\ ClientsOK' /\ FramesOK' /\ FaultsOK'
      /\ Issued \subseteq Issued'
  BY <1>1, <1>2, FailsType DEF ReleaseFails
<1>4. out' \in [Hubs -> Seq(Issued)]
  BY ExecutedType DEF ReleaseFails, Oldest
<1>5. QueuesOK'
  BY <1>3, <1>4, WiderQueue DEF QueuesOK
<1> QED BY <1>3, <1>5

LEMMA ClaimFailsType ==
  ASSUME RelayInv, NEW h \in Hubs, ClaimFails(h) PROVE RelayInv'
<1> USE DEF RelayInv
<1>1. TunnelOK' /\ LegsOK' /\ HubsOK' /\ RecordsOK' /\ ClientsOK' /\ FramesOK'
  BY KeepTunnel, KeepLegs, KeepHubs, KeepRecords, KeepClients, KeepFrames
     DEF ClaimFails, tunnelVars, legVars, hubVars, clientVars, frameVars
<1>2. FaultsOK'
  BY FaultType DEF ClaimFails, FaultsOK
<1>3. QueuesOK'
  BY ExecutedType, KeepIssued DEF ClaimFails, Oldest, QueuesOK, frameVars, tunnelVars, legVars
<1> QED BY <1>1, <1>2, <1>3

LEMMA RenewFailsType ==
  ASSUME RelayInv, NEW h \in Hubs, RenewFails(h) PROVE RelayInv'
<1> USE DEF RelayInv
<1>1. TunnelOK' /\ RecordsOK' /\ ClientsOK' /\ FramesOK'
  BY KeepTunnel, KeepRecords, KeepClients, KeepFrames
     DEF RenewFails, tunnelVars, legVars, hubVars, clientVars, frameVars
<1>2. LegsOK' /\ FaultsOK'
  BY FaultType DEF RenewFails, LeaseLost, Shut, LegsOK, FaultsOK
<1>3. HubsOK'
  BY DEF RenewFails, HubsOK
<1>4. QueuesOK'
  BY ExecutedType, KeepIssued DEF RenewFails, Oldest, QueuesOK, frameVars, tunnelVars, legVars
<1> QED BY <1>1, <1>2, <1>3, <1>4

LEMMA RenewType ==
  ASSUME RelayInv, NEW h \in Hubs, Renew(h) PROVE RelayInv'
<1> USE DEF RelayInv
<1>1. TunnelOK' /\ RecordsOK' /\ ClientsOK' /\ FramesOK' /\ FaultsOK'
  BY KeepTunnel, KeepRecords, KeepClients, KeepFrames, KeepFaults
     DEF Renew, tunnelVars, legVars, hubVars, clientVars, frameVars, faultVars
<1>2. LegsOK'
  BY DEF Renew, LeaseLost, Shut, LegsOK
<1>3. HubsOK'
  BY DEF Renew, HubsOK
<1>4. QueuesOK'
  BY ExecutedType, KeepIssued DEF Renew, Oldest, QueuesOK, frameVars, tunnelVars, legVars
<1> QED BY <1>1, <1>2, <1>3, <1>4

LEMMA ExpireType ==
  ASSUME RelayInv, Expire PROVE RelayInv'
<1> USE DEF RelayInv
<1>1. TunnelOK' /\ LegsOK' /\ RecordsOK' /\ QueuesOK' /\ ClientsOK' /\ FramesOK' /\ FaultsOK'
  BY KeepTunnel, KeepLegs, KeepRecords, KeepQueues, KeepClients, KeepFrames, KeepFaults
     DEF Expire, tunnelVars, legVars, hubVars, planeVars, frameVars, clientVars, faultVars
<1>2. HubsOK'
  BY DEF Expire, HubsOK, hubVars
<1> QED BY <1>1, <1>2

(* What a published envelope carries.                                      *)
LEMMA EnvelopeType ==
  ASSUME QueuesOK, NEW h \in Hubs, NEW g, Publishes(h, g, Head(out[h]).k),
         Head(out[h]).k \in {"open", "close", "to_daemon", "to_client"}
  PROVE  /\ out[h] # <<>> /\ Head(out[h]) \in Issued /\ Head(out[h]).s \in Sessions
         /\ Head(out[h]).k \in {"to_daemon", "to_client"} => Head(out[h]).n \in Nat
  BY ExecutedType, CommandType DEF Publishes, Oldest

LEMMA HandleOpenType ==
  ASSUME RelayInv, NEW h \in Hubs, NEW g \in Hubs, HandleOpen(h, g) PROVE RelayInv'
<1> USE DEF RelayInv
<1>1. LegsOK' /\ RecordsOK' /\ ClientsOK' /\ FramesOK' /\ FaultsOK'
  BY KeepLegs, KeepRecords, KeepClients, KeepFrames, KeepFaults
     DEF HandleOpen, legVars, tunnelVars, hubVars, clientVars, frameVars, faultVars
<1>2. TunnelOK'
  BY EnvelopeType DEF HandleOpen, TunnelOK, Publishes, Oldest
<1>3. HubsOK'
  BY EnvelopeType DEF HandleOpen, HubsOK, Publishes, Oldest
<1>4. QueuesOK'
  <2>1. out[h] # <<>> /\ CloseTo(h, Head(out[h]).s) \in Issued
    BY EnvelopeType, CloseIssued DEF HandleOpen, Publishes, Oldest
  <2>2. out' \in [Hubs -> Seq(Issued)]
    BY <2>1, ExecutedType, AnsweredType DEF HandleOpen, DaemonOffline
  <2> QED BY <2>2, KeepIssued DEF HandleOpen, QueuesOK, frameVars, legVars
<1> QED BY <1>1, <1>2, <1>3, <1>4

LEMMA HandleToDaemonType ==
  ASSUME RelayInv, NEW h \in Hubs, NEW g \in Hubs, HandleToDaemon(h, g) PROVE RelayInv'
<1> USE DEF RelayInv
<1>1. LegsOK' /\ RecordsOK' /\ ClientsOK' /\ FaultsOK'
  BY KeepLegs, KeepRecords, KeepClients, KeepFaults
     DEF HandleToDaemon, legVars, tunnelVars, hubVars, clientVars, faultVars
<1>2. TunnelOK'
  BY EnvelopeType DEF HandleToDaemon, TunnelOK, Publishes, Oldest
<1>3. HubsOK'
  BY EnvelopeType DEF HandleToDaemon, HubsOK, Publishes, Oldest
<1>4. QueuesOK'
  <2>1. out[h] # <<>> /\ CloseTo(HomeOf[Head(out[h]).s], Head(out[h]).s) \in Issued
    BY EnvelopeType, CloseIssued, RelayAssumption
       DEF HandleToDaemon, Publishes, Oldest, RelayAssumption
  <2>2. out' \in [Hubs -> Seq(Issued)]
    BY <2>1, ExecutedType, AnsweredType DEF HandleToDaemon
  <2> QED BY <2>2, KeepIssued DEF HandleToDaemon, QueuesOK, legVars
<1>5. FramesOK'
  <2> DEFINE s == Head(out[h]).s
             n == Head(out[h]).n
  <2>1. s \in Sessions /\ n \in Nat /\ n < cSent[s]
    BY EnvelopeType DEF HandleToDaemon, Publishes, Oldest, Issued, Genuine
  <2>2. toD' = [toD EXCEPT ![s] = @ + 1] \/ toD' = toD
    BY DEF HandleToDaemon, FramesOK
  <2>3. dTook' = dTook \/ (n = dTook[s] /\ dTook' = [dTook EXCEPT ![s] = @ + 1])
    BY DEF HandleToDaemon
  <2>4. UNCHANGED <<dSent, cTook, cSent, got, toC>>
    BY DEF HandleToDaemon
  <2> HIDE DEF s, n
  <2>5. dTook' \in [Sessions -> Nat] /\ \A t \in Sessions : dTook'[t] <= cSent[t]
    BY <2>1, <2>3 DEF FramesOK, TakenWasSent
  <2>6. toD' \in [Sessions -> Nat]
    BY <2>1, <2>2 DEF FramesOK
  <2> QED BY <2>4, <2>5, <2>6 DEF FramesOK, TakenWasSent
<1> QED BY <1>1, <1>2, <1>3, <1>4, <1>5

LEMMA HandleToClientType ==
  ASSUME RelayInv, NEW h \in Hubs, NEW g \in Hubs, HandleToClient(h, g) PROVE RelayInv'
<1> USE DEF RelayInv
<1>1. TunnelOK' /\ LegsOK' /\ HubsOK' /\ RecordsOK' /\ FaultsOK'
  BY KeepTunnel, KeepLegs, KeepHubs, KeepRecords, KeepFaults
     DEF HandleToClient, tunnelVars, legVars, hubVars, planeVars, faultVars
<1>2. QueuesOK'
  <2>1. out[h] # <<>> /\ Head(out[h]).s \in Sessions
    BY EnvelopeType DEF HandleToClient, Publishes, Oldest
  <2>2. ASSUME leg[Head(out[h]).s] = "here"
        PROVE  CloseTo(dest[Head(out[h]).s], Head(out[h]).s) \in Issued
    BY <2>1, <2>2, CloseIssued DEF ClientsOK
  <2>3. out' \in [Hubs -> Seq(Issued)]
    BY <2>1, <2>2, ExecutedType, AnsweredType DEF HandleToClient
  <2> QED BY <2>3, KeepIssued DEF HandleToClient, QueuesOK, tunnelVars, legVars
<1>3. ClientsOK'
  <2>1. Head(out[h]).s \in Sessions
    BY EnvelopeType DEF HandleToClient, Publishes, Oldest
  <2>2. CASE Ends(Head(out[h]).s)
    BY <2>1, <2>2, EndsType DEF HandleToClient
  <2>3. CASE UNCHANGED <<client, leg>>
    BY <2>3, KeepClients DEF HandleToClient, clientVars
  <2> QED BY <2>2, <2>3 DEF HandleToClient
<1>4. FramesOK'
  <2> DEFINE s == Head(out[h]).s
             n == Head(out[h]).n
  <2>1. s \in Sessions /\ n \in Nat /\ n < dSent[s]
    BY EnvelopeType DEF HandleToClient, Publishes, Oldest, Issued, Genuine
  <2>2. toC' = [toC EXCEPT ![s] = @ + 1] \/ toC' = toC
    BY DEF HandleToClient, FramesOK
  <2>3. \/ UNCHANGED <<cTook, got>>
        \/ /\ n = cTook[s] /\ cTook' = [cTook EXCEPT ![s] = @ + 1]
           /\ got' = [got EXCEPT ![s] = @ \cup {n}]
    BY DEF HandleToClient, Expected
  <2>4. UNCHANGED <<dSent, dTook, cSent, toD>>
    BY DEF HandleToClient, tunnelVars
  <2> HIDE DEF s, n
  <2>5. cTook' \in [Sessions -> Nat] /\ \A t \in Sessions : cTook'[t] <= dSent[t]
    BY <2>1, <2>3 DEF FramesOK, TakenWasSent
  <2>6. got' \in [Sessions -> SUBSET (0..FrameBound)]
    <3>1. n \in 0..FrameBound
      BY <2>1, RelayAssumption DEF FramesOK, RelayAssumption
    <3> QED BY <2>1, <2>3, <3>1 DEF FramesOK
  <2>7. toC' \in [Sessions -> Nat]
    BY <2>1, <2>2 DEF FramesOK
  <2> QED BY <2>4, <2>5, <2>6, <2>7 DEF FramesOK, TakenWasSent
<1> QED BY <1>1, <1>2, <1>3, <1>4

LEMMA HandleCloseType ==
  ASSUME RelayInv, NEW h \in Hubs, NEW g \in Hubs, HandleClose(h, g) PROVE RelayInv'
<1> USE DEF RelayInv
<1>1. LegsOK' /\ RecordsOK' /\ FramesOK' /\ FaultsOK'
  BY KeepLegs, KeepRecords, KeepFrames, KeepFaults
     DEF HandleClose, legVars, tunnelVars, hubVars, frameVars, faultVars
<1>2. TunnelOK'
  BY EnvelopeType DEF HandleClose, TunnelOK, Publishes, Oldest
<1>3. HubsOK'
  BY EnvelopeType DEF HandleClose, HubsOK, Publishes, Oldest
<1>4. QueuesOK'
  <2>1. out[h] # <<>> /\ Head(out[h]).s \in Sessions
    BY EnvelopeType DEF HandleClose, Publishes, Oldest
  <2>2. ASSUME leg[Head(out[h]).s] = "here"
        PROVE  CloseTo(dest[Head(out[h]).s], Head(out[h]).s) \in Issued
    BY <2>1, <2>2, CloseIssued DEF ClientsOK
  <2>3. out' \in [Hubs -> Seq(Issued)]
    BY <2>1, <2>2, ExecutedType, AnsweredType DEF HandleClose
  <2> QED BY <2>3, KeepIssued DEF HandleClose, QueuesOK, frameVars, legVars
<1>5. ClientsOK'
  <2>1. Head(out[h]).s \in Sessions
    BY EnvelopeType DEF HandleClose, Publishes, Oldest
  <2>2. CASE Ends(Head(out[h]).s)
    BY <2>1, <2>2, EndsType DEF HandleClose
  <2>3. CASE UNCHANGED <<client, leg>>
    BY <2>3, KeepClients DEF HandleClose, clientVars
  <2> QED BY <2>2, <2>3 DEF HandleClose
<1> QED BY <1>1, <1>2, <1>3, <1>4, <1>5

LEMMA UnheardType ==
  ASSUME RelayInv, NEW h \in Hubs, Unheard(h) PROVE RelayInv'
<1> USE DEF RelayInv
<1>1. TunnelOK' /\ LegsOK' /\ HubsOK' /\ RecordsOK' /\ ClientsOK' /\ FramesOK'
  BY KeepTunnel, KeepLegs, KeepHubs, KeepRecords, KeepClients, KeepFrames
     DEF Unheard, tunnelVars, legVars, hubVars, planeVars, clientVars, frameVars
<1>2. QueuesOK'
  BY ExecutedType, KeepIssued DEF Unheard, QueuesOK, frameVars, tunnelVars, legVars
<1>3. FaultsOK'
  BY ExecutedType, CommandType, FaultType DEF Unheard, FaultsOK
<1> QED BY <1>1, <1>2, <1>3

LEMMA LoseType ==
  ASSUME RelayInv, NEW h \in Hubs, Lose(h) PROVE RelayInv'
<1> USE DEF RelayInv
<1>1. TunnelOK' /\ LegsOK' /\ HubsOK' /\ RecordsOK' /\ ClientsOK' /\ FramesOK'
  BY KeepTunnel, KeepLegs, KeepHubs, KeepRecords, KeepClients, KeepFrames
     DEF Lose, tunnelVars, legVars, hubVars, planeVars, clientVars, frameVars
<1>2. QueuesOK'
  BY ExecutedType, KeepIssued DEF Lose, QueuesOK, frameVars, tunnelVars, legVars
<1>3. FaultsOK'
  BY ExecutedType, CommandType, FaultType DEF Lose, FaultsOK
<1> QED BY <1>1, <1>2, <1>3

-----------------------------------------------------------------------------
(* Clients and their legs.                                                 *)
LEMMA LinkType ==
  ASSUME RelayInv, NEW s \in Sessions, Link(s) PROVE RelayInv'
<1> USE DEF RelayInv
<1>1. TunnelOK' /\ LegsOK' /\ HubsOK' /\ RecordsOK' /\ QueuesOK' /\ FramesOK' /\ FaultsOK'
  BY KeepTunnel, KeepLegs, KeepHubs, KeepRecords, KeepQueues, KeepFrames, KeepFaults
     DEF Link, tunnelVars, legVars, hubVars, planeVars, frameVars, faultVars
<1>2. ClientsOK'
  <2>1. lease \in Hubs
    BY RelayAssumption DEF Link, HubsOK, RelayAssumption
  <2>2. Here' \subseteq Here \cup {s} /\ IsFiniteSet(Here \cup {s})
    BY FS_AddElement DEF Link, Here, ClientsOK
  <2>3. IsFiniteSet(Here')
    BY <2>2, FS_Subset
  <2> QED BY <2>1, <2>3 DEF Link, ClientsOK
<1> QED BY <1>1, <1>2

LEMMA OpenType ==
  ASSUME RelayInv, NEW s \in Sessions, Open(s) PROVE RelayInv'
<1> USE DEF RelayInv
<1>1. TunnelOK' /\ LegsOK' /\ HubsOK' /\ RecordsOK' /\ FramesOK' /\ FaultsOK'
  BY KeepTunnel, KeepLegs, KeepHubs, KeepRecords, KeepFrames, KeepFaults
     DEF Open, tunnelVars, legVars, hubVars, planeVars, frameVars, faultVars
<1>2. QueuesOK'
  <2>1. [k |-> "open", to |-> dest[s], s |-> s] \in Issued
    BY PlainIssued DEF Open, ClientsOK
  <2> QED BY <2>1, IssuedType, KeepIssued DEF Open, QueuesOK, frameVars, tunnelVars, legVars
<1>3. ClientsOK'
  BY DEF Open, ClientsOK, Here
<1> QED BY <1>1, <1>2, <1>3

LEMMA ClientSendsType ==
  ASSUME RelayInv, NEW s \in Sessions, ClientSends(s) PROVE RelayInv'
<1> USE DEF RelayInv
<1>1. TunnelOK' /\ LegsOK' /\ HubsOK' /\ RecordsOK' /\ ClientsOK' /\ FaultsOK'
  BY KeepTunnel, KeepLegs, KeepHubs, KeepRecords, KeepClients, KeepFaults
     DEF ClientSends, tunnelVars, legVars, hubVars, planeVars, clientVars, faultVars
<1>2. FramesOK'
  BY RelayAssumption DEF ClientSends, FramesOK, TakenWasSent, RelayAssumption, tunnelVars
<1>3. QueuesOK'
  <2> DEFINE c == [k |-> "to_daemon", to |-> dest[s], s |-> s, n |-> cSent[s]]
  <2>1. c \in Issued'
    <3>1. dest[s] \in Hubs /\ cSent[s] \in Nat
      BY RelayAssumption DEF ClientSends, Linked, ClientsOK, FramesOK, RelayAssumption
    <3>2. c \in Commands
      BY <3>1 DEF Commands
    <3>3. cSent[s] < cSent'[s]
      BY <3>1 DEF ClientSends, FramesOK
    <3> QED BY <3>2, <3>3 DEF Issued, Genuine
  <2>2. /\ \A t \in Sessions : dSent[t] <= dSent'[t] /\ cSent[t] <= cSent'[t]
        /\ UNCHANGED ending
    BY RelayAssumption DEF ClientSends, FramesOK, RelayAssumption, tunnelVars, legVars
  <2>3. out \in [Hubs -> Seq(Issued')]
    BY <1>2, <2>2, SentGrows, WiderQueue DEF QueuesOK
  <2> HIDE DEF c
  <2>4. out' = [out EXCEPT ![HomeOf[s]] = Append(@, c)]
    BY DEF ClientSends, Issue, c
  <2>5. out' \in [Hubs -> Seq(Issued')]
    BY <2>1, <2>3, <2>4, AppendQueue
  <2> QED BY <2>5 DEF QueuesOK
<1> QED BY <1>1, <1>2, <1>3

LEMMA DaemonSendsType ==
  ASSUME RelayInv, NEW s \in Sessions, DaemonSends(s) PROVE RelayInv'
<1> USE DEF RelayInv
<1>1. TunnelOK' /\ LegsOK' /\ HubsOK' /\ RecordsOK' /\ ClientsOK' /\ FaultsOK'
  BY KeepTunnel, KeepLegs, KeepHubs, KeepRecords, KeepClients, KeepFaults
     DEF DaemonSends, tunnelVars, legVars, hubVars, planeVars, clientVars, faultVars
<1>2. FramesOK'
  BY RelayAssumption DEF DaemonSends, FramesOK, TakenWasSent, RelayAssumption, frameVars
<1>3. QueuesOK'
  <2> DEFINE c == [k |-> "to_client", to |-> HomeOf[s], s |-> s, n |-> dSent[s]]
  <2>1. c \in Issued'
    <3>1. HomeOf[s] \in Hubs /\ dSent[s] \in Nat
      BY RelayAssumption DEF FramesOK, RelayAssumption
    <3>2. c \in Commands
      BY <3>1 DEF Commands
    <3>3. dSent[s] < dSent'[s]
      BY <3>1 DEF DaemonSends, FramesOK
    <3> QED BY <3>2, <3>3 DEF Issued, Genuine
  <2>2. /\ \A t \in Sessions : dSent[t] <= dSent'[t] /\ cSent[t] <= cSent'[t]
        /\ UNCHANGED ending
    BY RelayAssumption DEF DaemonSends, FramesOK, RelayAssumption, frameVars, legVars
  <2>3. out \in [Hubs -> Seq(Issued')]
    BY <1>2, <2>2, SentGrows, WiderQueue DEF QueuesOK
  <2> HIDE DEF c
  <2>4. [out EXCEPT ![at[live]] = Append(@, c)] \in [Hubs -> Seq(Issued')]
    BY <2>1, <2>3, AppendQueue
  <2>5. out' \in [Hubs -> Seq(Issued')]
    BY <2>3, <2>4 DEF DaemonSends, Issue, c
  <2> QED BY <2>5 DEF QueuesOK
<1> QED BY <1>1, <1>2, <1>3

LEMMA DaemonEndsType ==
  ASSUME RelayInv, NEW s \in Sessions, DaemonEnds(s) PROVE RelayInv'
<1> USE DEF RelayInv
<1>1. LegsOK' /\ RecordsOK' /\ ClientsOK' /\ FramesOK' /\ FaultsOK'
  BY KeepLegs, KeepRecords, KeepClients, KeepFrames, KeepFaults
     DEF DaemonEnds, legVars, tunnelVars, hubVars, clientVars, frameVars, faultVars
<1>2. TunnelOK'
  BY DEF DaemonEnds, TunnelOK
<1>3. HubsOK'
  BY DEF DaemonEnds, Tear, HubsOK
<1>4. QueuesOK'
  <2>1. UNCHANGED out \/ Issue(at[live], CloseTo(HomeOf[s], s))
    BY DEF DaemonEnds, Tear
  <2>2. CloseTo(HomeOf[s], s) \in Issued
    BY RelayAssumption, CloseIssued DEF RelayAssumption
  <2>3. out' \in [Hubs -> Seq(Issued)]
    BY <2>1, <2>2, IssuedType DEF QueuesOK
  <2> QED BY <2>3, KeepIssued DEF DaemonEnds, QueuesOK, frameVars, legVars
<1> QED BY <1>1, <1>2, <1>3, <1>4

LEMMA ClientLeavesType ==
  ASSUME RelayInv, NEW s \in Sessions, ClientLeaves(s) PROVE RelayInv'
<1> USE DEF RelayInv
<1>1. TunnelOK' /\ LegsOK' /\ HubsOK' /\ RecordsOK' /\ FramesOK' /\ FaultsOK'
  BY KeepTunnel, KeepLegs, KeepHubs, KeepRecords, KeepFrames, KeepFaults
     DEF ClientLeaves, tunnelVars, legVars, hubVars, planeVars, frameVars, faultVars
<1>2. QueuesOK'
  <2>1. CloseTo(dest[s], s) \in Issued
    BY CloseIssued DEF ClientLeaves, ClientsOK
  <2> QED BY <2>1, IssuedType, KeepIssued DEF ClientLeaves, QueuesOK, frameVars, tunnelVars, legVars
<1>3. ClientsOK'
  BY EndsType DEF ClientLeaves
<1> QED BY <1>1, <1>2, <1>3

LEMMA LegGoneType ==
  ASSUME RelayInv, NEW s \in Sessions, LegGone(s) PROVE RelayInv'
<1> USE DEF RelayInv
<1>1. TunnelOK' /\ LegsOK' /\ HubsOK' /\ RecordsOK' /\ FramesOK' /\ FaultsOK'
  BY KeepTunnel, KeepLegs, KeepHubs, KeepRecords, KeepFrames, KeepFaults
     DEF LegGone, tunnelVars, legVars, hubVars, planeVars, frameVars, faultVars
<1>2. QueuesOK'
  <2>1. CloseTo(dest[s], s) \in Issued
    BY CloseIssued DEF LegGone, ClientsOK
  <2> QED BY <2>1, IssuedType, KeepIssued DEF LegGone, QueuesOK, frameVars, tunnelVars, legVars
<1>3. ClientsOK'
  BY EndsType DEF LegGone
<1> QED BY <1>1, <1>2, <1>3

LEMMA OverdueClientType ==
  ASSUME RelayInv, NEW s \in Sessions, OverdueClient(s) PROVE RelayInv'
<1> USE DEF RelayInv
<1>1. TunnelOK' /\ LegsOK' /\ HubsOK' /\ RecordsOK' /\ FramesOK' /\ FaultsOK'
  BY KeepTunnel, KeepLegs, KeepHubs, KeepRecords, KeepFrames, KeepFaults
     DEF OverdueClient, tunnelVars, legVars, hubVars, planeVars, frameVars, faultVars
<1>2. QueuesOK'
  <2>1. CloseTo(dest[s], s) \in Issued
    BY CloseIssued DEF OverdueClient, ClientsOK
  <2> QED BY <2>1, IssuedType, KeepIssued
          DEF OverdueClient, QueuesOK, frameVars, tunnelVars, legVars
<1>3. ClientsOK'
  BY EndsType DEF OverdueClient
<1> QED BY <1>1, <1>2, <1>3

LEMMA ClientVanishesType ==
  ASSUME RelayInv, NEW s \in Sessions, ClientVanishes(s) PROVE RelayInv'
<1> USE DEF RelayInv
<1>1. TunnelOK' /\ LegsOK' /\ HubsOK' /\ RecordsOK' /\ QueuesOK' /\ FramesOK'
  BY KeepTunnel, KeepLegs, KeepHubs, KeepRecords, KeepQueues, KeepFrames
     DEF ClientVanishes, tunnelVars, legVars, hubVars, planeVars, frameVars
<1>2. ClientsOK'
  BY DEF ClientVanishes, ClientsOK, Here
<1>3. FaultsOK'
  BY FaultType DEF ClientVanishes, FaultsOK
<1> QED BY <1>1, <1>2, <1>3

LEMMA OverdueSessionType ==
  ASSUME RelayInv, NEW h \in Hubs, NEW s \in Sessions, OverdueSession(h, s) PROVE RelayInv'
<1> USE DEF RelayInv
<1>1. LegsOK' /\ RecordsOK' /\ ClientsOK' /\ FramesOK' /\ FaultsOK'
  BY KeepLegs, KeepRecords, KeepClients, KeepFrames, KeepFaults
     DEF OverdueSession, legVars, tunnelVars, hubVars, clientVars, frameVars, faultVars
<1>2. TunnelOK'
  BY DEF OverdueSession, TunnelOK
<1>3. HubsOK'
  BY DEF OverdueSession, Tear, HubsOK
<1>4. QueuesOK'
  <2>1. UNCHANGED out \/ Issue(h, CloseTo(HomeOf[s], s))
    BY DEF OverdueSession, Tear
  <2>2. CloseTo(HomeOf[s], s) \in Issued
    BY RelayAssumption, CloseIssued DEF RelayAssumption
  <2>3. out' \in [Hubs -> Seq(Issued)]
    BY <2>1, <2>2, IssuedType DEF QueuesOK
  <2> QED BY <2>3, KeepIssued DEF OverdueSession, QueuesOK, frameVars, legVars
<1> QED BY <1>1, <1>2, <1>3, <1>4

-----------------------------------------------------------------------------
(* What goes wrong.                                                        *)
LEMMA BreakType ==
  ASSUME RelayInv, NEW l \in Legs, NEW how \in {"dead", "closed"}, Break(l, how) PROVE RelayInv'
<1> USE DEF RelayInv
<1>1. TunnelOK' /\ HubsOK' /\ RecordsOK' /\ QueuesOK' /\ ClientsOK' /\ FramesOK'
  BY KeepTunnel, KeepHubs, KeepRecords, KeepQueues, KeepClients, KeepFrames
     DEF Break, tunnelVars, hubVars, planeVars, legVars, frameVars, clientVars
<1>2. LegsOK'
  BY DEF Break, LegsOK
<1>3. FaultsOK'
  BY FaultType DEF Break, FaultsOK
<1> QED BY <1>1, <1>2, <1>3

(* What an instance that missed envelopes has to say.                      *)
HereAt(h) == {s \in Sessions : HomeOf[s] = h /\ leg[s] = "here"}
ClosesAt(h) == {CloseTo(dest[s], s) : s \in HereAt(h)}

LEMMA ClosesListed ==
  ASSUME ClientsOK, NEW h \in Hubs
  PROVE  SetToSeq(ClosesAt(h)) \in Seq(ClosesAt(h)) /\ SetToSeq(ClosesAt(h)) \in Seq(Issued)
<1> DEFINE tell == [s \in HereAt(h) |-> CloseTo(dest[s], s)]
<1>1. IsFiniteSet(HereAt(h))
  BY FS_Subset DEF ClientsOK, Here, HereAt
<1>2. tell \in Surjection(HereAt(h), ClosesAt(h))
  BY DEF Surjection, ClosesAt
<1>3. IsFiniteSet(ClosesAt(h))
  BY <1>1, <1>2, FS_Surjection
<1>4. ClosesAt(h) \subseteq Issued
  BY CloseIssued DEF ClientsOK, ClosesAt, HereAt
<1>5. SetToSeq(ClosesAt(h)) \in Seq(ClosesAt(h))
  BY <1>3, ListType
<1> QED BY <1>4, <1>5, WiderSeq

LEMMA DisruptedType ==
  ASSUME RelayInv, NEW h \in Hubs, Disrupted(h) PROVE RelayInv'
<1> USE DEF RelayInv
<1>1. LegsOK' /\ RecordsOK' /\ FramesOK'
  BY KeepLegs, KeepRecords, KeepFrames
     DEF Disrupted, legVars, tunnelVars, hubVars, frameVars
<1>2. TunnelOK'
  BY DEF Disrupted, TunnelOK
<1>3. HubsOK'
  BY DEF Disrupted, HubsOK
<1>4. QueuesOK'
  <2>1. out' = [out EXCEPT ![h] = @ \o SetToSeq(ClosesAt(h))]
    BY DEF Disrupted, ClosesAt, HereAt
  <2>2. out[h] \o SetToSeq(ClosesAt(h)) \in Seq(Issued)
    BY ClosesListed DEF QueuesOK
  <2>3. out' \in [Hubs -> Seq(Issued)]
    BY <2>1, <2>2 DEF QueuesOK
  <2> QED BY <2>3, KeepIssued DEF Disrupted, QueuesOK, frameVars, legVars
<1>5. ClientsOK'
  <2>1. Here' \subseteq Here
    BY DEF Disrupted, Here, ClientsOK
  <2> QED BY <2>1, HereShrinks DEF Disrupted, ClientsOK
<1>6. FaultsOK'
  BY FaultType DEF Disrupted, FaultsOK, HubsOK
<1> QED BY <1>1, <1>2, <1>3, <1>4, <1>5, <1>6

LEMMA HubDiesType ==
  ASSUME RelayInv, NEW h \in Hubs, HubDies(h) PROVE RelayInv'
<1> USE DEF RelayInv
<1>1. TunnelOK' /\ FramesOK'
  BY KeepTunnel, KeepFrames
     DEF HubDies, tunnelVars, frameVars
<1>2. LegsOK'
  BY DEF HubDies, LegsOK
<1>3. HubsOK'
  BY DEF HubDies, HubsOK
<1>4. RecordsOK'
  <2>1. \A l \in Legs : at[l] # h => ending'[l] = ending[l]
    BY DEF HubDies, LegsOK
  <2>2. UNCHANGED <<dials, at, stage>> /\ up' = up \ {h} /\ holds' = [holds EXCEPT ![h] = None]
    BY DEF HubDies, tunnelVars
  <2>3. RecordIsOwn'
    <3> SUFFICES ASSUME NEW k \in Hubs, holds'[k] # None
                 PROVE  /\ at[holds'[k]] = k /\ stage[holds'[k]] = "named"
                        /\ ending'[holds'[k]] \notin Past
      BY <2>2 DEF RecordIsOwn, Past
    <3>1. k # h /\ holds'[k] = holds[k] /\ holds[k] \in Legs
      BY <2>2 DEF HubsOK
    <3> QED BY <2>1, <3>1 DEF RecordsOK, RecordIsOwn
  <2>4. \A l \in Legs : l > dials => at[l] # h
    BY RelayAssumption DEF RecordsOK, RelayAssumption
  <2>5. \A l \in Legs : stage[l] = "lookup" /\ at[l] \in up' => ending'[l] \notin Past
    BY <2>1, <2>2 DEF RecordsOK
  <2> QED BY <2>1, <2>2, <2>3, <2>4, <2>5 DEF RecordsOK, Past
<1>5. QueuesOK'
  <2>1. \A k \in Legs : ending[k] \in Past => ending'[k] \in Past
    BY DEF HubDies, Past, LegsOK
  <2>2. UNCHANGED <<dSent, cSent>> /\ FramesOK'
    BY <1>1 DEF HubDies, frameVars, tunnelVars
  <2>3. Issued \subseteq Issued'
    BY <2>1, <2>2, SentGrows DEF FramesOK
  <2>4. out \in [Hubs -> Seq(Issued')]
    BY <2>3, WiderQueue DEF QueuesOK
  <2>5. <<>> \in Seq(Issued')
    OBVIOUS
  <2> QED BY <2>4, <2>5 DEF HubDies, QueuesOK
<1>6. ClientsOK'
  <2>1. Here' \subseteq Here
    BY DEF HubDies, Here, ClientsOK
  <2> QED BY <2>1, HereShrinks DEF HubDies, ClientsOK
<1>7. FaultsOK'
  BY FaultType DEF HubDies, FaultsOK
<1> QED BY <1>1, <1>2, <1>3, <1>4, <1>5, <1>6, <1>7

-----------------------------------------------------------------------------
LEMMA RelayInit == ASSUME Init PROVE RelayInv
<1>1. Here = {} /\ IsFiniteSet(Here)
  BY FS_EmptySet DEF Init, Here
<1>2. 0 \in 0..LegBound /\ 0 \in 0..FaultBound
  BY RelayAssumption DEF RelayAssumption
<1>3. TunnelOK /\ FaultsOK
  BY <1>2, Zenon DEF Init, TunnelOK, FaultsOK
<1>4. LegsOK /\ RecordsOK
  BY DEF Init, LegsOK, RecordsOK, RecordIsOwn, Past
<1>5. HubsOK /\ QueuesOK
  BY DEF Init, HubsOK, QueuesOK
<1>6. ClientsOK
  BY <1>1 DEF Init, ClientsOK
<1>7. FramesOK
  BY RelayAssumption DEF Init, FramesOK, TakenWasSent, RelayAssumption
<1> QED BY <1>3, <1>4, <1>5, <1>6, <1>7 DEF RelayInv

LEMMA RelayStep == ASSUME RelayInv, [Next]_vars PROVE RelayInv'
<1>1. ASSUME NEW h \in Hubs,
             \/ Dial(h) \/ Tick(h) \/ Executes(h)
             \/ Lose(h) \/ Rejects(h) \/ Disrupted(h) \/ HubDies(h)
      PROVE  RelayInv'
  BY <1>1, DialType, TickType, ClaimType, ReleaseType, RenewType, HandleOpenType,
     HandleToDaemonType, HandleToClientType, HandleCloseType, UnheardType, LoseType,
     ClaimFailsType, ReleaseFailsType, RenewFailsType, DisruptedType, HubDiesType
     DEF Executes, Handle, Rejects
<1>2. ASSUME NEW l \in Legs,
             \/ Tunnel(l) \/ Leg(l) \/ (\E s \in Sessions : TearFails(l, s))
             \/ \E how \in {"dead", "closed"} : Break(l, how)
      PROVE  RelayInv'
  BY <1>2, HearsCloseType, OnSilenceType, RegisteredType, ClosedType, TearDoneType,
     TearOneType, TearFailsType, BreakType DEF Tunnel, Leg
<1>3. ASSUME NEW s \in Sessions,
             \/ Link(s) \/ Open(s) \/ ClientSends(s) \/ DaemonSends(s) \/ DaemonEnds(s)
             \/ ClientLeaves(s) \/ ClientVanishes(s) \/ LegGone(s) \/ Overdue(s)
      PROVE  RelayInv'
  BY <1>3, LinkType, OpenType, ClientSendsType, DaemonSendsType, DaemonEndsType,
     ClientLeavesType, ClientVanishesType, LegGoneType, OverdueClientType,
     OverdueSessionType DEF Overdue
<1>4. CASE Stop \/ Expire
  BY <1>4, StopType, ExpireType
<1>5. CASE UNCHANGED vars
  BY <1>5, KeepTunnel, KeepLegs, KeepHubs, KeepRecords, KeepQueues, KeepClients, KeepFrames,
     KeepFaults
     DEF vars, RelayInv, tunnelVars, legVars, hubVars, planeVars, frameVars
<1> QED BY <1>1, <1>2, <1>3, <1>4, <1>5 DEF Next

(* Every reachable state of the relay is well typed; so is what instances  *)
(* say to each other, whoever the daemon and the clients are by then.      *)
THEOREM TypeCorrect == Spec => []TypeOK
<1>1. ASSUME RelayInv PROVE TypeOK
  <2>1. Issued \subseteq Commands
    BY DEF Issued
  <2>2. out \in [Hubs -> Seq(Commands)]
    BY <1>1, <2>1, WiderQueue DEF RelayInv, QueuesOK
  <2> QED BY <1>1, <2>2 DEF TypeOK, RelayInv, TunnelOK, LegsOK, HubsOK, ClientsOK, FramesOK,
                            FaultsOK
<1> QED BY <1>1, RelayInit, RelayStep, PTL DEF Spec

(* Neither end takes in a frame the other has not sent.                    *)
THEOREM FramesAreGenuine == Spec => []TakenWasSent
<1>1. RelayInv => TakenWasSent
  BY DEF RelayInv, FramesOK
<1> QED BY <1>1, RelayInit, RelayStep, PTL DEF Spec

(* A leg that its instance has dropped is never on record again.           *)
THEOREM RecordsAreOwn == Spec => []RecordIsOwn
<1>1. RelayInv => RecordIsOwn
  BY DEF RelayInv, RecordsOK
<1> QED BY <1>1, RelayInit, RelayStep, PTL DEF Spec

-----------------------------------------------------------------------------
(***************************************************************************)
(* Nobody waits on a dead stream.  What makes it an invariant is where the *)
(* end of a session can come from: an instance has a session only while a  *)
(* leg that will tear it is not through with its close handler.            *)
(***************************************************************************)
Mail(h) == Range(out[h])
OpenTo(h, s) == [k |-> "open", to |-> h, s |-> s]

(* A registered leg that still has its sessions to tear; a ghost is one of *)
(* these for ever.                                                         *)
Serving(l) == stage[l] = "named" /\ ending[l] # "done"
Leaving(l) == Serving(l) /\ ws[l] # "open"

(* What a client can hope for: its open is under way, and the daemon has   *)
(* said nothing; or its close is; or it is served, and every frame it has  *)
(* not taken in is under way; or the leg that served it is about to tear   *)
(* it.                                                                     *)
FrameTo(s, n) == [k |-> "to_client", to |-> HomeOf[s], s |-> s, n |-> n]

ToOpen(s)  == OpenTo(dest[s], s) \in Mail(HomeOf[s]) /\ s \notin tun /\ dSent[s] = 0
ToClose(s) == CloseTo(HomeOf[s], s) \in Mail(dest[s])
Streams(s) ==
  /\ s \in joined[dest[s]] /\ s \in tun
  /\ \A n \in cTook[s]..(dSent[s] - 1) : FrameTo(s, n) \in Mail(dest[s])
ToTear(s)  == s \in joined[dest[s]] /\ \E l \in Legs : at[l] = dest[s] /\ Leaving(l)

Promised(s) == ToOpen(s) \/ ToClose(s) \/ Streams(s) \/ ToTear(s)

(* A client whose leg is open is served or will hear of it, unless an      *)
(* envelope of its session was lost or was never sent, because the handler *)
(* that was to send it failed at a command before: "Telling each client is *)
(* what lets it reconnect and replay rather than wait on a dead stream"    *)
(* (hub.ts:998).                                                           *)
NobodyForgotten == \A s \in Sessions : Linked(s) /\ s \notin holed => Promised(s)

(* The frame a client waits for is under way, or so is its end.            *)
FrameOwed ==
  \A s \in Sessions : Linked(s) /\ s \notin holed /\ cTook[s] < dSent[s] =>
     FrameTo(s, cTook[s]) \in Mail(dest[s]) \/ ToClose(s) \/ ToTear(s)

(* A websocket that works is the tunnel's own; a leg was dialed somewhere. *)
DialsInv ==
  /\ \A l \in Legs : ws[l] = "open" => live = l
  /\ \A l \in Legs : l <= dials => at[l] \in Hubs
  /\ live # None => live <= dials

(* Sessions are where their client's open went.                            *)
JoinedInv ==
  /\ \A h \in Hubs : \A s \in joined[h] : dest[s] = h
  /\ \A s \in Sessions : client[s] = "none" =>
        leg[s] # "gone" /\ s \notin opening /\ s \notin tun /\ \A h \in Hubs : s \notin joined[h]

(* Nothing is said in a session before it is opened.                       *)
Fresh(s) == client[s] = "none" \/ s \in opening
FreshInv == \A s \in Sessions : Fresh(s) => s \notin tun /\ dSent[s] = 0
TunInv == \A s \in tun : live # None /\ at[live] = dest[s]
ServedInv ==
  \A h \in Hubs : joined[h] \ holed # {} => \E l \in Legs : at[l] = h /\ Serving(l)

(* An open is from the client's instance to the daemon's, a close is for   *)
(* the client or from one that is gone, a frame is for the client's.       *)
Addressed(x, c) ==
  /\ c.k = "open" => x = HomeOf[c.s] /\ c.to = dest[c.s] /\ ~Fresh(c.s)
  /\ c.k = "to_client" => c.to = HomeOf[c.s]
  /\ c.k = "close" => c.to = HomeOf[c.s] \/ leg[c.s] = "gone"
MailInv == \A x \in Hubs : \A c \in Mail(x) : Addressed(x, c)

WaitInv ==
  DialsInv /\ JoinedInv /\ FreshInv /\ TunInv /\ ServedInv /\ MailInv /\ NobodyForgotten

-----------------------------------------------------------------------------
(* What is in a queue after a command is issued or executed.               *)
LEMMA MailAppend ==
  ASSUME NEW S, NEW q \in Seq(S), NEW c \in S PROVE Range(Append(q, c)) = Range(q) \cup {c}
<1>1. DOMAIN q = 1..Len(q) /\ DOMAIN Append(q, c) = 1..(Len(q) + 1) /\ Len(q) \in Nat
  OBVIOUS
<1>2. /\ \A i \in 1..Len(q) : Append(q, c)[i] = q[i]
      /\ Append(q, c)[Len(q) + 1] = c
  OBVIOUS
<1> QED BY <1>1, <1>2 DEF Range

LEMMA MailTail ==
  ASSUME NEW S, NEW q \in Seq(S), q # <<>>
  PROVE  Range(Tail(q)) \subseteq Range(q) /\ Range(q) \subseteq Range(Tail(q)) \cup {Head(q)}
<1>1. DOMAIN q = 1..Len(q) /\ DOMAIN Tail(q) = 1..(Len(q) - 1) /\ Len(q) \in Nat \ {0}
  OBVIOUS
<1>2. /\ \A i \in 1..(Len(q) - 1) : Tail(q)[i] = q[i + 1]
      /\ Head(q) = q[1]
  OBVIOUS
<1>3. ASSUME NEW i \in 1..Len(q), i # 1 PROVE q[i] \in Range(Tail(q))
  <2>1. i - 1 \in 1..(Len(q) - 1) /\ q[i] = Tail(q)[i - 1]
    BY <1>1, <1>2, <1>3
  <2> QED BY <1>1, <2>1 DEF Range
<1> QED BY <1>1, <1>2, <1>3 DEF Range

LEMMA MailJoin ==
  ASSUME NEW S, NEW q \in Seq(S), NEW r \in Seq(S)
  PROVE  Range(q \o r) = Range(q) \cup Range(r)
<1>1. /\ DOMAIN q = 1..Len(q) /\ DOMAIN r = 1..Len(r) /\ Len(q) \in Nat /\ Len(r) \in Nat
      /\ DOMAIN (q \o r) = 1..(Len(q) + Len(r))
  OBVIOUS
<1>2. /\ \A i \in 1..Len(q) : (q \o r)[i] = q[i]
      /\ \A i \in 1..Len(r) : (q \o r)[Len(q) + i] = r[i]
  OBVIOUS
<1>3. Range(q \o r) \subseteq Range(q) \cup Range(r)
  <2> SUFFICES ASSUME NEW i \in 1..(Len(q) + Len(r)) PROVE (q \o r)[i] \in Range(q) \cup Range(r)
    BY <1>1 DEF Range
  <2>1. CASE i <= Len(q)
    BY <1>1, <1>2, <2>1 DEF Range
  <2>2. CASE i > Len(q)
    <3>1. i - Len(q) \in 1..Len(r) /\ (q \o r)[i] = r[i - Len(q)]
      BY <1>1, <1>2, <2>2
    <3> QED BY <1>1, <3>1 DEF Range
  <2> QED BY <1>1, <2>1, <2>2
<1>4. Range(q) \subseteq Range(q \o r)
  BY <1>1, <1>2 DEF Range
<1>5. Range(r) \subseteq Range(q \o r)
  <2> SUFFICES ASSUME NEW i \in 1..Len(r) PROVE r[i] \in Range(q \o r)
    BY <1>1 DEF Range
  <2>1. Len(q) + i \in 1..(Len(q) + Len(r)) /\ (q \o r)[Len(q) + i] = r[i]
    BY <1>1, <1>2
  <2> QED BY <1>1, <2>1 DEF Range
<1> QED BY <1>3, <1>4, <1>5

LEMMA MailType == ASSUME QueuesOK, NEW h \in Hubs PROVE Mail(h) \subseteq Issued
<1>1. out[h] \in Seq(Issued)
  BY DEF QueuesOK
<1> QED BY <1>1 DEF Mail, Range

LEMMA MailIssued ==
  ASSUME QueuesOK, NEW h \in Hubs, NEW c, Issue(h, c), NEW x \in Hubs
  PROVE  Mail(x)' = Mail(x) \cup (IF x = h THEN {c} ELSE {})
<1>1. out[h] \in Seq(Issued \cup {c}) /\ out'[h] = Append(out[h], c) /\ (x # h => out'[x] = out[x])
  BY WiderSeq DEF QueuesOK, Issue
<1>2. Range(Append(out[h], c)) = Range(out[h]) \cup {c}
  BY <1>1, MailAppend
<1> QED BY <1>1, <1>2 DEF Mail

LEMMA MailDropped ==
  ASSUME QueuesOK, NEW h \in Hubs, out[h] # <<>>, out' = Drop(h), NEW x \in Hubs
  PROVE  /\ Mail(x)' \subseteq Mail(x)
         /\ Mail(x) \subseteq Mail(x)' \cup (IF x = h THEN {Head(out[h])} ELSE {})
<1>1. out[h] \in Seq(Issued) /\ out'[h] = Tail(out[h]) /\ (x # h => out'[x] = out[x])
  BY DEF QueuesOK, Drop
<1>2. /\ Range(Tail(out[h])) \subseteq Range(out[h])
      /\ Range(out[h]) \subseteq Range(Tail(out[h])) \cup {Head(out[h])}
  BY <1>1, MailTail
<1> QED BY <1>1, <1>2 DEF Mail

LEMMA MailAnswered ==
  ASSUME QueuesOK, NEW h \in Hubs, out[h] # <<>>, NEW g \in Hubs, NEW c, out' = Answer(h, g, c),
         NEW x \in Hubs
  PROVE  /\ Mail(x)' \subseteq Mail(x) \cup (IF x = g THEN {c} ELSE {})
         /\ Mail(x) \subseteq Mail(x)' \cup (IF x = h THEN {Head(out[h])} ELSE {})
         /\ c \in Mail(g)'
<1> DEFINE d == Drop(h)
<1>1. d \in [Hubs -> Seq(Issued)] /\ out' = [d EXCEPT ![g] = Append(@, c)]
  BY ExecutedType DEF Answer
<1>2. d[h] = Tail(out[h]) /\ \A y \in Hubs : y # h => d[y] = out[y]
  BY DEF Drop, QueuesOK
<1>3. /\ Range(Tail(out[h])) \subseteq Range(out[h])
      /\ Range(out[h]) \subseteq Range(Tail(out[h])) \cup {Head(out[h])}
  <2>1. out[h] \in Seq(Issued)
    BY DEF QueuesOK
  <2> QED BY <2>1, MailTail
<1> HIDE DEF d
<1>4. d[g] \in Seq(Issued \cup {c})
  BY <1>1, WiderSeq
<1>5. Range(Append(d[g], c)) = Range(d[g]) \cup {c}
  BY <1>4, MailAppend
<1>6. out'[g] = Append(d[g], c) /\ \A y \in Hubs : y # g => out'[y] = d[y]
  BY <1>1
<1> QED BY <1>2, <1>3, <1>5, <1>6 DEF Mail

-----------------------------------------------------------------------------
(* What all steps have in common, and the steps that end nothing.          *)

(* A link happens once, and a client that has none has not ended.          *)
Progress ==
  \A s \in Sessions :
    /\ client[s] # "none" => client'[s] # "none" /\ dest'[s] = dest[s]
    /\ client'[s] = "none" => leg'[s] = leg[s]
    /\ leg[s] = "gone" => leg'[s] = "gone"
    /\ s \in opening' => Fresh(s)

LegsGoOn ==
  \A l \in Legs : Serving(l) =>
     Serving(l)' /\ at'[l] = at[l] /\ (ws[l] # "open" => ws'[l] # "open")

(* What is said of session s stays said.                                   *)
Words == {"open", "close", "to_client"}
MailKept(s) ==
  \A x \in {HomeOf[s], dest[s]} :
     \A c \in Mail(x) : c.k \in Words /\ c.s = s => c \in Mail(x)'

(* The step takes nothing from session s.                                  *)
Untouched(s) ==
  /\ Linked(s) /\ s \notin holed
  /\ s \in tun <=> s \in tun'
  /\ s \in joined[dest[s]] => s \in joined'[dest[s]]
  /\ UNCHANGED <<cTook[s], dSent[s]>> /\ MailKept(s)

LEMMA DestType ==
  ASSUME RelayInv, NEW s \in Sessions, Linked(s)
  PROVE  dest[s] \in Hubs /\ HomeOf[s] \in Hubs /\ client[s] # "none"
  BY RelayAssumption DEF RelayInv, ClientsOK, Linked, RelayAssumption

LEMMA OpenKept ==
  ASSUME NEW s, ToOpen(s), MailKept(s), s \notin tun', UNCHANGED <<dest[s], dSent[s]>>
  PROVE  ToOpen(s)'
<1>1. OpenTo(dest[s], s).k \in Words /\ OpenTo(dest[s], s).s = s
  BY DEF OpenTo, Words
<1>2. OpenTo(dest[s], s) \in Mail(HomeOf[s])'
  BY <1>1 DEF ToOpen, MailKept
<1> QED BY <1>2 DEF ToOpen, OpenTo

LEMMA CloseKept ==
  ASSUME NEW s, ToClose(s), MailKept(s), UNCHANGED dest[s] PROVE ToClose(s)'
<1>1. CloseTo(HomeOf[s], s).k \in Words /\ CloseTo(HomeOf[s], s).s = s
  BY DEF CloseTo, Words
<1>2. \A d : d = dest[s] => CloseTo(HomeOf[s], s) \in Mail(d)'
  BY <1>1 DEF ToClose, MailKept
<1> QED BY <1>2 DEF ToClose, CloseTo, Mail

LEMMA StreamKept ==
  ASSUME NEW s, Streams(s), MailKept(s), s \in joined'[dest[s]], s \in tun',
         UNCHANGED <<dest[s], dSent[s], cTook[s]>>
  PROVE  Streams(s)'
<1>1. ASSUME NEW n \in cTook[s]..(dSent[s] - 1)
      PROVE  \A d : d = dest[s] => FrameTo(s, n) \in Mail(d)'
  <2>1. FrameTo(s, n).k \in Words /\ FrameTo(s, n).s = s
    BY DEF FrameTo, Words
  <2> QED BY <2>1 DEF Streams, MailKept
<1> QED BY <1>1 DEF Streams, FrameTo, Mail

LEMMA TearKept ==
  ASSUME NEW s, ToTear(s), LegsGoOn, s \in joined'[dest[s]], UNCHANGED dest[s] PROVE ToTear(s)'
<1>1. PICK l \in Legs : at[l] = dest[s] /\ Leaving(l)
  BY DEF ToTear
<1>2. at'[l] = dest'[s] /\ Leaving(l)'
  BY <1>1 DEF LegsGoOn, Leaving
<1> QED BY <1>2 DEF ToTear

LEMMA UntouchedKept ==
  ASSUME RelayInv, NobodyForgotten, Progress, LegsGoOn, NEW s \in Sessions, Untouched(s)
  PROVE  Promised(s)'
<1>1. UNCHANGED dest[s] /\ Promised(s)
  BY DestType DEF Untouched, Progress, NobodyForgotten
<1>2. CASE ToOpen(s)
  BY <1>1, <1>2, OpenKept DEF Untouched, ToOpen, Promised
<1>3. CASE ToClose(s)
  BY <1>1, <1>3, CloseKept DEF Untouched, Promised
<1>4. CASE Streams(s)
  BY <1>1, <1>4, StreamKept DEF Untouched, Streams, Promised
<1>5. CASE ToTear(s)
  BY <1>1, <1>5, TearKept DEF Untouched, ToTear, Promised
<1> QED BY <1>1, <1>2, <1>3, <1>4, <1>5 DEF Promised

LEMMA KeepMail ==
  ASSUME RelayInv, MailInv, Progress,
         \A x \in Hubs : \A c \in Mail(x)' : c \in Mail(x) \/ Addressed(x, c)'
  PROVE  MailInv'
<1> SUFFICES ASSUME NEW x \in Hubs, NEW c \in Mail(x)', c \in Mail(x) PROVE Addressed(x, c)'
  BY DEF MailInv
<1>1. Addressed(x, c) /\ c \in Commands
  BY MailType DEF MailInv, RelayInv, Issued
<1>2. c.k \in {"open", "close", "to_client"} => c.s \in Sessions
  BY <1>1, CommandType
<1> QED BY <1>1, <1>2 DEF Addressed, Progress, Fresh

LEMMA KeepJoined ==
  ASSUME RelayInv, JoinedInv, Progress, opening' \subseteq opening, tun' \subseteq tun,
         \A h \in Hubs : joined'[h] \subseteq joined[h]
  PROVE  JoinedInv'
<1>1. \A h \in Hubs : joined[h] \subseteq Sessions
  BY DEF RelayInv, HubsOK
<1> QED BY <1>1 DEF JoinedInv, Progress

LEMMA KeepFresh ==
  ASSUME FreshInv, Progress, tun' \subseteq tun, \A s \in Sessions : Fresh(s) => UNCHANGED dSent[s]
  PROVE  FreshInv'
  BY DEF FreshInv, Fresh, Progress

LEMMA KeepTun ==
  ASSUME RelayInv, JoinedInv, TunInv, Progress, tun' \subseteq tun, UNCHANGED <<live, at>>
  PROVE  TunInv'
<1>1. tun \subseteq Sessions
  BY DEF RelayInv, TunnelOK
<1> QED BY <1>1 DEF JoinedInv, TunInv, Progress

LEMMA KeepServed ==
  ASSUME ServedInv, LegsGoOn, holed \subseteq holed',
         \A h \in Hubs : joined'[h] \subseteq joined[h]
  PROVE  ServedInv'
<1> SUFFICES ASSUME NEW h \in Hubs, joined'[h] \ holed' # {}
             PROVE  \E l \in Legs : at'[l] = h /\ Serving(l)'
  BY DEF ServedInv
<1>1. PICK l \in Legs : at[l] = h /\ Serving(l)
  BY DEF ServedInv
<1> QED BY <1>1 DEF LegsGoOn

LEMMA KeepDials ==
  ASSUME DialsInv, UNCHANGED <<dials, live, at>>, \A l \in Legs : ws'[l] = "open" => ws[l] = "open"
  PROVE  DialsInv'
  BY DEF DialsInv

(* The steps of most actions.                                              *)
LEMMA Ordinary ==
  ASSUME RelayInv, WaitInv, Progress, LegsGoOn, UNCHANGED <<dials, live, at>>,
         \A l \in Legs : ws'[l] = "open" => ws[l] = "open",
         opening' \subseteq opening, tun' \subseteq tun, holed \subseteq holed',
         \A h \in Hubs : joined'[h] \subseteq joined[h],
         \A s \in Sessions : Fresh(s) => UNCHANGED dSent[s],
         \A x \in Hubs : \A c \in Mail(x)' : c \in Mail(x) \/ Addressed(x, c)',
         \A s \in Sessions : Linked(s)' /\ s \notin holed' => Untouched(s) \/ Promised(s)'
  PROVE  WaitInv'
<1>1. NobodyForgotten'
  BY UntouchedKept DEF NobodyForgotten, WaitInv
<1> QED BY <1>1, KeepMail, KeepJoined, KeepFresh, KeepTun, KeepServed, KeepDials DEF WaitInv

(* Tables that stay what they are.                                         *)
LEMMA SameClients == ASSUME UNCHANGED clientVars PROVE Progress /\ opening' \subseteq opening
  BY DEF clientVars, Progress, Fresh
LEMMA SameLegs == ASSUME UNCHANGED <<at, ws, stage, ending>> PROVE LegsGoOn
  BY DEF LegsGoOn, Serving
LEMMA SameMail == ASSUME UNCHANGED out, NEW x PROVE Mail(x)' = Mail(x)
  BY DEF Mail

LEMMA EndsProgress ==
  ASSUME RelayInv, NEW s \in Sessions, Ends(s), UNCHANGED <<dest, opening>>
  PROVE  /\ Progress /\ ~Linked(s)' /\ leg'[s] = "gone"
         /\ \A t \in Sessions : t # s => (Linked(t)' <=> Linked(t))
  BY DEF Ends, Progress, Fresh, Linked, RelayInv, ClientsOK

-----------------------------------------------------------------------------
(* Steps that end no session and touch no client.                          *)
LEMMA Still ==
  ASSUME RelayInv, WaitInv, LegsGoOn,
         UNCHANGED <<dials, live, at, tun, joined, clientVars, cTook, dSent>>,
         \A l \in Legs : ws'[l] = "open" => ws[l] = "open",
         holed \subseteq holed',
         \A x \in Hubs : \A c \in Mail(x)' : c \in Mail(x) \/ c.k \notin Words,
         \A x \in Hubs : \A c \in Mail(x) :
            c \in Mail(x)' \/ c.k \notin Words \/ c.s \in holed'
  PROVE  WaitInv'
<1>1. Progress /\ opening' \subseteq opening
  BY SameClients
<1>2. \A x \in Hubs : \A c \in Mail(x)' : c \in Mail(x) \/ Addressed(x, c)'
  BY DEF Addressed, Words
<1>3. ASSUME NEW s \in Sessions, Linked(s)', s \notin holed' PROVE Untouched(s)
  <2>1. Linked(s)
    BY <1>3 DEF Linked, clientVars
  <2>2. MailKept(s)
    BY <1>3, <2>1, DestType DEF MailKept
  <2> QED BY <1>3, <2>1, <2>2 DEF Untouched
<1> QED BY <1>1, <1>2, <1>3, Ordinary

(* The command an instance issues is no word about a session.              *)
LEMMA StillIssues ==
  ASSUME RelayInv, NEW h \in Hubs, NEW c, Issue(h, c), c.k \notin Words
  PROVE  /\ \A x \in Hubs : \A d \in Mail(x)' : d \in Mail(x) \/ d.k \notin Words
         /\ \A x \in Hubs : Mail(x) \subseteq Mail(x)'
  BY MailIssued DEF RelayInv

LEMMA StillDrops ==
  ASSUME RelayInv, NEW h \in Hubs, out[h] # <<>>, out' = Drop(h)
  PROVE  /\ \A x \in Hubs : Mail(x)' \subseteq Mail(x)
         /\ \A x \in Hubs : \A c \in Mail(x) : c \in Mail(x)' \/ c = Head(out[h])
  BY MailDropped DEF RelayInv

LEMMA RegisteredWaits == ASSUME RelayInv, WaitInv, NEW l \in Legs, Registered(l) PROVE WaitInv'
<1> DEFINE c == [k |-> "claim", l |-> l]
<1>1. at[l] \in Hubs /\ Issue(at[l], c) /\ c.k \notin Words
  BY DEF Registered, RelayInv, HubsOK, Words
<1>2. /\ LegsGoOn /\ \A k \in Legs : ws'[k] = "open" => ws[k] = "open"
  BY DEF Registered, Shut, LegsGoOn, Serving, RelayInv, LegsOK
<1>3. UNCHANGED <<dials, live, at, tun, joined, clientVars, holed,
                cTook, dSent>>
  BY DEF Registered, tunnelVars, faultVars, frameVars
<1> HIDE DEF c
<1> QED BY <1>1, <1>2, <1>3, StillIssues, Still

LEMMA ClosedWaits == ASSUME RelayInv, WaitInv, NEW l \in Legs, Closed(l) PROVE WaitInv'
<1> DEFINE c == [k |-> "release", l |-> l]
<1>1. at[l] \in Hubs /\ c.k \notin Words /\ (UNCHANGED out \/ Issue(at[l], c))
  BY DEF Closed, RelayInv, HubsOK, Words
<1>2. /\ LegsGoOn /\ \A k \in Legs : ws'[k] = "open" => ws[k] = "open"
  BY DEF Closed, LegsGoOn, Serving, RelayInv, LegsOK
<1>3. UNCHANGED <<dials, live, at, tun, joined, clientVars, holed,
                cTook, dSent>>
  BY DEF Closed, tunnelVars, faultVars, frameVars
<1> HIDE DEF c
<1>4. CASE UNCHANGED out
  BY <1>2, <1>3, <1>4, SameMail, Still
<1>5. CASE Issue(at[l], c)
  BY <1>1, <1>2, <1>3, <1>5, StillIssues, Still
<1> QED BY <1>1, <1>4, <1>5

LEMMA TickWaits == ASSUME RelayInv, WaitInv, NEW h \in Hubs, Tick(h) PROVE WaitInv'
<1> DEFINE c == [k |-> "renew"]
<1>1. Issue(h, c) /\ c.k \notin Words
  BY DEF Tick, Words
<1>2. UNCHANGED <<dials, live, at, ws, stage, ending, tun, joined, clientVars, holed,
                cTook, dSent>>
  BY DEF Tick, tunnelVars, legVars, faultVars, frameVars
<1> HIDE DEF c
<1> QED BY <1>1, <1>2, SameLegs, StillIssues, Still

LEMMA ClaimWaits == ASSUME RelayInv, WaitInv, NEW h \in Hubs, Claim(h) PROVE WaitInv'
<1>1. out[h] # <<>> /\ out' = Drop(h) /\ Head(out[h]).k = "claim"
  BY DEF Claim, Oldest
<1>2. UNCHANGED <<dials, live, at, ws, stage, ending, tun, joined, clientVars, holed,
                cTook, dSent>>
  BY DEF Claim, tunnelVars, legVars, hubVars, faultVars, frameVars
<1> QED BY <1>1, <1>2, SameLegs, StillDrops, Still DEF Words

LEMMA ReleaseWaits == ASSUME RelayInv, WaitInv, NEW h \in Hubs, Release(h) PROVE WaitInv'
<1>1. out[h] # <<>> /\ out' = Drop(h) /\ Head(out[h]).k = "release"
  BY DEF Release, Oldest
<1>2. LegsGoOn
  BY DEF Release, LegsGoOn, Serving, RelayInv, LegsOK
<1>3. UNCHANGED <<dials, live, at, ws, tun, joined, clientVars, holed,
                cTook, dSent>>
  BY DEF Release, tunnelVars, hubVars, faultVars, frameVars
<1> QED BY <1>1, <1>2, <1>3, StillDrops, Still DEF Words

LEMMA ClaimFailsWaits ==
  ASSUME RelayInv, WaitInv, NEW h \in Hubs, ClaimFails(h) PROVE WaitInv'
<1>1. out[h] # <<>> /\ out' = Drop(h) /\ Head(out[h]).k = "claim"
  BY DEF ClaimFails, Oldest
<1>2. UNCHANGED <<dials, live, at, ws, stage, ending, tun, joined, clientVars, holed,
                cTook, dSent>>
  BY DEF ClaimFails, tunnelVars, legVars, hubVars, frameVars
<1> QED BY <1>1, <1>2, SameLegs, StillDrops, Still DEF Words

LEMMA RenewFailsWaits ==
  ASSUME RelayInv, WaitInv, NEW h \in Hubs, RenewFails(h) PROVE WaitInv'
<1>1. out[h] # <<>> /\ out' = Drop(h) /\ Head(out[h]).k = "renew"
  BY DEF RenewFails, Oldest
<1>2. /\ LegsGoOn /\ \A k \in Legs : ws'[k] = "open" => ws[k] = "open"
  BY DEF RenewFails, LeaseLost, Shut, LegsGoOn, Serving, RelayInv, LegsOK
<1>3. UNCHANGED <<dials, live, at, tun, joined, clientVars, holed,
                cTook, dSent>>
  BY DEF RenewFails, tunnelVars, frameVars
<1> QED BY <1>1, <1>2, <1>3, StillDrops, Still DEF Words

LEMMA RenewWaits == ASSUME RelayInv, WaitInv, NEW h \in Hubs, Renew(h) PROVE WaitInv'
<1>1. out[h] # <<>> /\ out' = Drop(h) /\ Head(out[h]).k = "renew"
  BY DEF Renew, Oldest
<1>2. /\ LegsGoOn /\ \A k \in Legs : ws'[k] = "open" => ws[k] = "open"
  BY DEF Renew, LeaseLost, Shut, LegsGoOn, Serving, RelayInv, LegsOK
<1>3. UNCHANGED <<dials, live, at, tun, joined, clientVars, holed,
                cTook, dSent>>
  BY DEF Renew, tunnelVars, faultVars, frameVars
<1> QED BY <1>1, <1>2, <1>3, StillDrops, Still DEF Words

LEMMA ExpireWaits == ASSUME RelayInv, WaitInv, Expire PROVE WaitInv'
<1>1. UNCHANGED <<dials, live, at, ws, stage, ending, tun, joined, out, clientVars, holed,
                cTook, dSent>>
  BY DEF Expire, tunnelVars, legVars, hubVars, faultVars, frameVars
<1> QED BY <1>1, SameLegs, SameMail, Still

LEMMA LostWaits == ASSUME RelayInv, WaitInv, NEW h \in Hubs, Unheard(h) \/ Lose(h) PROVE WaitInv'
<1>1. out[h] # <<>> /\ out' = Drop(h) /\ holed' = holed \cup {Head(out[h]).s}
  BY DEF Unheard, Lose
<1>2. UNCHANGED <<dials, live, at, ws, stage, ending, tun, joined, clientVars,
                cTook, dSent>>
  BY DEF Unheard, Lose, tunnelVars, legVars, hubVars, frameVars
<1> QED BY <1>1, <1>2, SameLegs, StillDrops, Still DEF Words

LEMMA ClientSendsWaits ==
  ASSUME RelayInv, WaitInv, NEW s \in Sessions, ClientSends(s) PROVE WaitInv'
<1> DEFINE c == [k |-> "to_daemon", to |-> dest[s], s |-> s, n |-> cSent[s]]
<1>1. HomeOf[s] \in Hubs /\ Issue(HomeOf[s], c) /\ c.k \notin Words
  BY RelayAssumption DEF ClientSends, RelayAssumption, Words
<1>2. UNCHANGED <<dials, live, at, ws, stage, ending, tun, joined, clientVars, holed,
                cTook, dSent>>
  BY DEF ClientSends, tunnelVars, legVars, hubVars, faultVars, frameVars
<1> HIDE DEF c
<1> QED BY <1>1, <1>2, SameLegs, StillIssues, Still

LEMMA BreakWaits ==
  ASSUME RelayInv, WaitInv, NEW l \in Legs, NEW how \in {"dead", "closed"}, Break(l, how)
  PROVE  WaitInv'
<1>1. /\ LegsGoOn /\ \A k \in Legs : ws'[k] = "open" => ws[k] = "open"
  BY DEF Break, LegsGoOn, Serving, RelayInv, LegsOK
<1>2. UNCHANGED <<dials, live, at, tun, joined, out, clientVars, holed,
                cTook, dSent>>
  BY DEF Break, tunnelVars, hubVars, planeVars, frameVars
<1> QED BY <1>1, <1>2, SameMail, Still

-----------------------------------------------------------------------------
(* Steps that end a session.                                               *)

(* An instance tears a session it has: the close is under way.             *)
LEMMA Torn ==
  ASSUME RelayInv, WaitInv, NEW h \in Hubs, NEW s \in Sessions, s \in joined[h], LegsGoOn,
         UNCHANGED <<dials, live, at, ws, clientVars, holed, cTook, dSent>>,
         joined' = [joined EXCEPT ![h] = @ \ {s}], tun' \subseteq tun, tun \ {s} \subseteq tun',
         CloseTo(HomeOf[s], s) \in Mail(h)',
         \A x \in Hubs : \A c \in Mail(x)' : c \in Mail(x) \/ c = CloseTo(HomeOf[s], s),
         \A x \in Hubs : \A c \in Mail(x) : c \in Mail(x)' \/ c.k \notin Words
  PROVE  WaitInv'
<1>1. Progress /\ opening' \subseteq opening
  BY SameClients
<1>2. dest[s] = h /\ UNCHANGED <<dest, client, leg, opening>>
  BY DEF WaitInv, JoinedInv, clientVars
<1>3. Promised(s)'
  BY <1>2 DEF Promised, ToClose, Mail, CloseTo
<1>4. \A x \in Hubs : Addressed(x, CloseTo(HomeOf[s], s))'
  BY DEF Addressed, CloseTo
<1>5. \A x \in Hubs : joined'[x] \subseteq joined[x] /\ joined[x] \ {s} \subseteq joined'[x]
  BY DEF RelayInv, HubsOK
<1>6. ASSUME NEW t \in Sessions, Linked(t)', t \notin holed' PROVE Untouched(t) \/ Promised(t)'
  <2>1. CASE t = s
    BY <1>3, <2>1
  <2>2. CASE t # s
    <3>1. Linked(t)
      BY <1>2, <1>6 DEF Linked
    <3>2. MailKept(t) /\ dest[t] \in Hubs
      BY <2>2, <3>1, DestType DEF MailKept
    <3> QED BY <1>5, <1>6, <2>2, <3>1, <3>2 DEF Untouched
  <2> QED BY <2>1, <2>2
<1>7. \A x \in Hubs : \A c \in Mail(x)' : c \in Mail(x) \/ Addressed(x, c)'
  BY <1>4
<1>8. \A l \in Legs : ws'[l] = "open" => ws[l] = "open"
  OBVIOUS
<1> HIDE DEF Linked
<1> QED BY <1>1, <1>5, <1>6, <1>7, <1>8, Ordinary

(* A client ends; what its instance says of it goes to the daemon's.       *)
LEMMA Ended ==
  ASSUME RelayInv, WaitInv, NEW s \in Sessions, Ends(s),
         UNCHANGED <<dest, opening, dials, live, at, ws, stage, ending, holed, cTook, dSent>>,
         tun' \subseteq tun, tun \ {s} \subseteq tun',
         \A h \in Hubs : joined'[h] \subseteq joined[h] /\ joined[h] \ {s} \subseteq joined'[h],
         \A x \in Hubs : \A c \in Mail(x)' : c \in Mail(x) \/ c = CloseTo(dest[s], s),
         \A x \in Hubs : \A c \in Mail(x) :
            c \in Mail(x)' \/ c.k \notin Words \/ c.s = s
  PROVE  WaitInv'
<1>1. /\ Progress /\ ~Linked(s)' /\ leg'[s] = "gone"
      /\ \A t \in Sessions : t # s => (Linked(t)' <=> Linked(t))
  BY EndsProgress
<1>2. \A x \in Hubs : Addressed(x, CloseTo(dest[s], s))'
  BY <1>1 DEF Addressed, CloseTo
<1>3. ASSUME NEW t \in Sessions, Linked(t)', t \notin holed' PROVE Untouched(t)
  <2>1. t # s /\ Linked(t)
    BY <1>1, <1>3
  <2>2. MailKept(t) /\ dest[t] \in Hubs
    BY <2>1, DestType DEF MailKept
  <2> QED BY <1>3, <2>1, <2>2 DEF Untouched
<1>4. \A x \in Hubs : \A c \in Mail(x)' : c \in Mail(x) \/ Addressed(x, c)'
  BY <1>2
<1>5. opening' \subseteq opening /\ \A l \in Legs : ws'[l] = "open" => ws[l] = "open"
  OBVIOUS
<1>6. \A h \in Hubs : joined'[h] \subseteq joined[h]
  OBVIOUS
<1> QED BY <1>1, <1>3, <1>4, <1>5, <1>6, SameLegs, Ordinary

LEMMA TearOneWaits ==
  ASSUME RelayInv, WaitInv, NEW l \in Legs, NEW s \in Sessions, TearOne(l, s) PROVE WaitInv'
<1>1. at[l] \in Hubs
  <2>1. l <= dials
    BY DEF TearOne, RelayInv, RecordsOK, TunnelOK, Legs
  <2> QED BY <2>1 DEF WaitInv, DialsInv
<1>2. /\ s \in joined[at[l]] /\ joined' = [joined EXCEPT ![at[l]] = @ \ {s}]
      /\ Issue(at[l], CloseTo(HomeOf[s], s))
      /\ UNCHANGED <<dials, live, at, ws, stage, ending, tun, clientVars, holed, cTook, dSent>>
  BY DEF TearOne, tunnelVars, legVars, faultVars, frameVars
<1>3. \A x \in Hubs :
        Mail(x)' = Mail(x) \cup (IF x = at[l] THEN {CloseTo(HomeOf[s], s)} ELSE {})
  BY <1>1, <1>2, MailIssued DEF RelayInv
<1> QED BY <1>1, <1>2, <1>3, SameLegs, Torn

LEMMA OverdueSessionWaits ==
  ASSUME RelayInv, WaitInv, NEW h \in Hubs, NEW s \in Sessions, OverdueSession(h, s)
  PROVE  WaitInv'
<1>1. /\ s \in joined[h] /\ joined' = [joined EXCEPT ![h] = @ \ {s}]
      /\ Issue(h, CloseTo(HomeOf[s], s)) /\ tun' \subseteq tun /\ tun \ {s} \subseteq tun'
      /\ UNCHANGED <<dials, live, at, ws, stage, ending, clientVars, holed, cTook, dSent>>
  BY DEF OverdueSession, Tear, legVars, faultVars, frameVars
<1>2. \A x \in Hubs :
        Mail(x)' = Mail(x) \cup (IF x = h THEN {CloseTo(HomeOf[s], s)} ELSE {})
  BY <1>1, MailIssued DEF RelayInv
<1> QED BY <1>1, <1>2, SameLegs, Torn

LEMMA HandleToDaemonWaits ==
  ASSUME RelayInv, WaitInv, NEW h \in Hubs, NEW g \in Hubs, HandleToDaemon(h, g) PROVE WaitInv'
<1> DEFINE s == Head(out[h]).s
<1>1. out[h] # <<>> /\ s \in Sessions /\ Head(out[h]).k = "to_daemon"
  BY EnvelopeType DEF HandleToDaemon, Publishes, Oldest, RelayInv
<1>2. UNCHANGED <<dials, live, at, ws, stage, ending, clientVars, holed, cTook, dSent>>
  BY DEF HandleToDaemon, legVars, faultVars
<1>3. CASE out' = Drop(h) /\ UNCHANGED <<tun, joined>>
  BY <1>1, <1>2, <1>3, SameLegs, StillDrops, Still DEF Words
<1>4. CASE /\ s \in joined[g] /\ tun' = tun \ {s} /\ joined' = [joined EXCEPT ![g] = @ \ {s}]
           /\ out' = Answer(h, g, CloseTo(HomeOf[s], s))
  <2> HIDE DEF s
  <2>1. /\ CloseTo(HomeOf[s], s) \in Mail(g)'
        /\ \A x \in Hubs : \A c \in Mail(x)' : c \in Mail(x) \/ c = CloseTo(HomeOf[s], s)
        /\ \A x \in Hubs : \A c \in Mail(x) : c \in Mail(x)' \/ c = Head(out[h])
    BY <1>1, <1>4, MailAnswered DEF RelayInv
  <2> QED BY <1>1, <1>2, <1>4, <2>1, SameLegs, Torn DEF Words
<1> QED BY <1>3, <1>4 DEF HandleToDaemon

LEMMA HandleCloseWaits ==
  ASSUME RelayInv, WaitInv, NEW h \in Hubs, NEW g \in Hubs, HandleClose(h, g) PROVE WaitInv'
<1> DEFINE s == Head(out[h]).s
<1>1. /\ out[h] # <<>> /\ s \in Sessions /\ Head(out[h]) \in Mail(h)
      /\ Head(out[h]).k = "close" /\ Head(out[h]).to = g
  <2>1. out[h] \in Seq(Issued) /\ out[h] # <<>>
    BY DEF HandleClose, Publishes, Oldest, RelayInv, QueuesOK
  <2>2. Head(out[h]) \in Mail(h)
    BY <2>1 DEF Mail, Range
  <2> QED BY <2>2, EnvelopeType DEF HandleClose, Publishes, Oldest, RelayInv
<1>2. UNCHANGED <<dials, live, at, ws, stage, ending, dest, opening, holed, cTook, dSent>>
  BY DEF HandleClose, legVars, faultVars, frameVars
<1>3. /\ tun' \subseteq tun /\ tun \ {s} \subseteq tun'
      /\ \A x \in Hubs : joined'[x] \subseteq joined[x] /\ joined[x] \ {s} \subseteq joined'[x]
  BY DEF HandleClose, RelayInv, HubsOK
<1>4. CASE Ends(s) /\ out' = Answer(h, g, CloseTo(dest[s], s))
  <2> HIDE DEF s
  <2>1. /\ \A x \in Hubs : \A c \in Mail(x)' : c \in Mail(x) \/ c = CloseTo(dest[s], s)
        /\ \A x \in Hubs : \A c \in Mail(x) : c \in Mail(x)' \/ c = Head(out[h])
    BY <1>1, <1>4, MailAnswered DEF RelayInv
  <2>2. \A x \in Hubs : \A c \in Mail(x) : c \in Mail(x)' \/ c.s = s
    BY <2>1 DEF s
  <2> QED BY <1>1, <1>2, <1>3, <1>4, <2>1, <2>2, Ended
<1>5. CASE ~(HomeOf[s] = g /\ leg[s] = "here") /\ UNCHANGED <<client, leg>> /\ out' = Drop(h)
  <2>1. ~Linked(s)
    BY <1>1, <1>5 DEF WaitInv, MailInv, Addressed, Linked
  <2>2. Progress /\ opening' \subseteq opening /\ LegsGoOn
    BY <1>2, <1>5, SameClients, SameLegs DEF clientVars
  <2>3. /\ \A x \in Hubs : Mail(x)' \subseteq Mail(x)
        /\ \A x \in Hubs : \A c \in Mail(x) : c \in Mail(x)' \/ c = Head(out[h])
    BY <1>1, <1>5, StillDrops
  <2>4. ASSUME NEW t \in Sessions, Linked(t)', t \notin holed' PROVE Untouched(t)
    <3>1. Linked(t)
      BY <1>2, <1>5, <2>4 DEF Linked
    <3>2. t # s
      BY <2>1, <3>1
    <3>3. MailKept(t) /\ dest[t] \in Hubs
      BY <2>3, <3>1, <3>2, DestType DEF MailKept
    <3> QED BY <1>2, <1>3, <2>4, <3>1, <3>2, <3>3 DEF Untouched
  <2>5. \A l \in Legs : ws'[l] = "open" => ws[l] = "open"
    BY <1>2
  <2> HIDE DEF s
  <2> QED BY <1>2, <1>3, <2>2, <2>3, <2>4, <2>5, Ordinary
<1> QED BY <1>4, <1>5 DEF HandleClose

LEMMA EndToldWaits ==
  ASSUME RelayInv, WaitInv, NEW s \in Sessions, Ends(s), Issue(HomeOf[s], CloseTo(dest[s], s)),
         UNCHANGED <<dest, opening, dials, live, at, ws, stage, ending, tun, joined, holed,
                     cTook, dSent>>
  PROVE  WaitInv'
<1>1. HomeOf[s] \in Hubs
  BY RelayAssumption DEF RelayAssumption
<1>2. \A x \in Hubs :
        Mail(x)' = Mail(x) \cup (IF x = HomeOf[s] THEN {CloseTo(dest[s], s)} ELSE {})
  BY <1>1, MailIssued DEF RelayInv
<1> QED BY <1>2, Ended

LEMMA ClientLeavesWaits ==
  ASSUME RelayInv, WaitInv, NEW s \in Sessions, ClientLeaves(s) PROVE WaitInv'
  BY EndToldWaits DEF ClientLeaves, tunnelVars, legVars, hubVars, faultVars, frameVars

LEMMA LegGoneWaits ==
  ASSUME RelayInv, WaitInv, NEW s \in Sessions, LegGone(s) PROVE WaitInv'
  BY EndToldWaits DEF LegGone, tunnelVars, legVars, hubVars, faultVars, frameVars

LEMMA OverdueClientWaits ==
  ASSUME RelayInv, WaitInv, NEW s \in Sessions, OverdueClient(s) PROVE WaitInv'
  BY EndToldWaits DEF OverdueClient, tunnelVars, legVars, hubVars, faultVars, frameVars

LEMMA ClientVanishesWaits ==
  ASSUME RelayInv, WaitInv, NEW s \in Sessions, ClientVanishes(s) PROVE WaitInv'
<1>1. /\ client[s] = "open" /\ client' = [client EXCEPT ![s] = "closed"]
      /\ UNCHANGED <<dials, live, at, ws, stage, ending, tun, joined, out, dest, leg, opening,
                     holed, cTook, dSent>>
  BY DEF ClientVanishes, tunnelVars, legVars, hubVars, planeVars, frameVars
<1>2. Progress
  BY <1>1 DEF Progress, Fresh, RelayInv, ClientsOK
<1>3. \A t \in Sessions : Linked(t)' => Linked(t)
  BY <1>1 DEF Linked, RelayInv, ClientsOK
<1>4. \A x \in Hubs : Mail(x)' = Mail(x)
  BY <1>1, SameMail
<1>5. ASSUME NEW t \in Sessions, Linked(t)', t \notin holed' PROVE Untouched(t)
  BY <1>1, <1>3, <1>4, <1>5, DestType DEF Untouched, MailKept
<1> QED BY <1>1, <1>2, <1>4, <1>5, SameLegs, Ordinary

(* The open of a session is the first that is said of it.                  *)
LEMMA OpenWaits ==
  ASSUME RelayInv, WaitInv, NEW s \in Sessions, Open(s) PROVE WaitInv'
<1> DEFINE h == HomeOf[s]
           c == OpenTo(dest[s], s)
<1>1. h \in Hubs /\ Issue(h, c) /\ s \in opening /\ opening' = opening \ {s}
  BY RelayAssumption DEF Open, RelayAssumption, OpenTo
<1>2. UNCHANGED <<dials, live, at, ws, stage, ending, tun, joined, client, dest, leg, holed,
                  cTook, dSent>>
  BY DEF Open, tunnelVars, legVars, hubVars, faultVars, frameVars
<1>3. Progress
  BY <1>1, <1>2 DEF Progress, Fresh
<1>4. \A x \in Hubs : Mail(x)' = Mail(x) \cup (IF x = h THEN {c} ELSE {})
  BY <1>1, MailIssued DEF RelayInv
<1>5. client[s] # "none" /\ s \notin tun /\ dSent[s] = 0
  BY <1>1 DEF WaitInv, JoinedInv, FreshInv, Fresh
<1>6. \A x, d : x = h /\ d = c => Addressed(x, d)'
  BY <1>1, <1>2, <1>5 DEF Addressed, OpenTo, Fresh
<1>7. Promised(s)'
  BY <1>1, <1>2, <1>4, <1>5 DEF Promised, ToOpen, Mail, OpenTo
<1>8. ASSUME NEW t \in Sessions, t # s, Linked(t)', t \notin holed' PROVE Untouched(t)
  <2>1. Linked(t)
    BY <1>1, <1>2, <1>8 DEF Linked
  <2>2. MailKept(t) /\ dest[t] \in Hubs
    BY <1>4, <2>1, DestType DEF MailKept
  <2> QED BY <1>2, <1>8, <2>1, <2>2 DEF Untouched
<1> HIDE DEF c, h
<1>9. \A x \in Hubs : \A d \in Mail(x)' : d \in Mail(x) \/ Addressed(x, d)'
  BY <1>4, <1>6
<1> QED BY <1>1, <1>2, <1>3, <1>7, <1>8, <1>9, SameLegs, Ordinary

-----------------------------------------------------------------------------
(* A leg is lost.  Who it served is torn when the instance notices.        *)
LEMMA LegLeaves ==
  ASSUME WaitInv, LegsGoOn, NEW h \in Hubs, joined[h] \ holed # {},
         \A l \in Legs : ws'[l] # "open"
  PROVE  \E l \in Legs : at'[l] = h /\ Leaving(l)'
<1>1. PICK l \in Legs : at[l] = h /\ Serving(l)
  BY DEF WaitInv, ServedInv
<1> QED BY <1>1 DEF LegsGoOn, Leaving

LEMMA LegLostWaits ==
  ASSUME RelayInv, WaitInv, LegsGoOn, LegLost, \A l \in Legs : ws'[l] # "open",
         UNCHANGED <<dials, at, joined, out, clientVars, holed, cTook, dSent>>
  PROVE  WaitInv'
<1>1. /\ Progress /\ UNCHANGED <<client, dest, leg, opening>>
      /\ \A x \in Hubs : Mail(x)' = Mail(x)
  BY SameClients, SameMail DEF clientVars
<1>2. live' = None /\ tun' = {}
  BY DEF LegLost
<1>3. DialsInv' /\ TunInv'
  BY <1>2 DEF WaitInv, DialsInv, TunInv
<1>4. JoinedInv' /\ FreshInv' /\ MailInv'
  BY <1>1, <1>2, KeepMail, KeepJoined, KeepFresh DEF WaitInv
<1>5. ServedInv'
  BY KeepServed DEF WaitInv
<1>6. ASSUME NEW s \in Sessions, Linked(s)', s \notin holed' PROVE Promised(s)'
  <2>1. Linked(s) /\ s \notin holed
    BY <1>1, <1>6 DEF Linked
  <2>2. Promised(s) /\ dest[s] \in Hubs
    BY <2>1, DestType DEF WaitInv, NobodyForgotten
  <2>3. MailKept(s) /\ UNCHANGED dest[s]
    BY <1>1, <2>1, DestType DEF MailKept
  <2>4. CASE s \in joined[dest[s]]
    <3>1. \E l \in Legs : at'[l] = dest[s] /\ Leaving(l)'
      BY <2>1, <2>2, <2>4, LegLeaves
    <3> QED BY <2>3, <2>4, <3>1 DEF Promised, ToTear
  <2>5. CASE ToOpen(s) \/ ToClose(s)
    BY <1>2, <2>3, <2>5, OpenKept, CloseKept DEF Promised
  <2> QED BY <2>2, <2>4, <2>5 DEF Promised, Streams, ToTear
<1> QED BY <1>3, <1>4, <1>5, <1>6 DEF WaitInv, NobodyForgotten

LEMMA HearsCloseWaits ==
  ASSUME RelayInv, WaitInv, NEW l \in Legs, HearsClose(l) PROVE WaitInv'
<1>1. /\ ws[l] = "closed" /\ live = l /\ LegLost
      /\ UNCHANGED <<dials, at, ws, stage, ending, joined, out, clientVars, holed,
                     cTook, dSent>>
  BY DEF HearsClose, Current, legVars, hubVars, planeVars, faultVars, frameVars
<1>2. \A k \in Legs : ws'[k] # "open"
  BY <1>1 DEF WaitInv, DialsInv
<1> QED BY <1>1, <1>2, SameLegs, LegLostWaits

LEMMA OnSilenceWaits ==
  ASSUME RelayInv, WaitInv, NEW l \in Legs, OnSilence(l) PROVE WaitInv'
<1>1. /\ live = l /\ LegLost /\ ws' = [ws EXCEPT ![l] = IF @ = "open" THEN "closed" ELSE @]
      /\ UNCHANGED <<dials, at, stage, ending, joined, out, clientVars, holed,
                     cTook, dSent>>
  BY DEF OnSilence, hubVars, planeVars, faultVars, frameVars
<1>2. LegsGoOn /\ \A k \in Legs : ws'[k] # "open"
  BY <1>1 DEF WaitInv, DialsInv, LegsGoOn, Serving, RelayInv, LegsOK
<1> QED BY <1>1, <1>2, LegLostWaits

LEMMA StopWaits == ASSUME RelayInv, WaitInv, Stop PROVE WaitInv'
<1>1. /\ LegLost /\ ws' = [l \in Legs |-> IF live = l /\ ws[l] = "open" THEN "closed" ELSE ws[l]]
      /\ UNCHANGED <<dials, at, stage, ending, joined, out, clientVars, holed,
                     cTook, dSent>>
  BY DEF Stop, hubVars, planeVars, frameVars
<1>2. LegsGoOn /\ \A k \in Legs : ws'[k] # "open"
  BY <1>1 DEF WaitInv, DialsInv, LegsGoOn, Serving, RelayInv, LegsOK
<1> QED BY <1>1, <1>2, LegLostWaits

(* The daemon says that a session is over while a leg carries it, or that  *)
(* leg is going.                                                           *)
LEMMA DaemonEndsWaits ==
  ASSUME RelayInv, WaitInv, NEW s \in Sessions, DaemonEnds(s) PROVE WaitInv'
<1>1. /\ s \in tun /\ tun' = tun \ {s}
      /\ UNCHANGED <<dials, live, at, ws, stage, ending, client, dest, leg, opening, holed,
                     cTook, dSent>>
  BY DEF DaemonEnds, legVars, clientVars, faultVars, frameVars
<1>2. live \in Legs /\ at[live] \in Hubs /\ at[live] = dest[s]
  BY <1>1, RelayAssumption
     DEF WaitInv, TunInv, DialsInv, RelayInv, TunnelOK
<1>3. CASE Heard(live) /\ s \in joined[at[live]] /\ Tear(at[live], s)
  <2> DEFINE h == at[live]
  <2>1. /\ h \in Hubs /\ s \in joined[h] /\ joined' = [joined EXCEPT ![h] = @ \ {s}]
        /\ Issue(h, CloseTo(HomeOf[s], s))
    BY <1>2, <1>3 DEF Tear
  <2>2. UNCHANGED clientVars
    BY <1>1 DEF clientVars
  <2> HIDE DEF h
  <2>3. \A x \in Hubs :
          Mail(x)' = Mail(x) \cup (IF x = h THEN {CloseTo(HomeOf[s], s)} ELSE {})
    BY <2>1, MailIssued DEF RelayInv
  <2> QED BY <1>1, <2>1, <2>2, <2>3, SameLegs, Torn
<1>4. CASE ~(Heard(live) /\ s \in joined[at[live]]) /\ UNCHANGED <<joined, out>>
  <2>1. LegsGoOn /\ Progress /\ \A x \in Hubs : Mail(x)' = Mail(x)
    BY <1>1, <1>4, SameLegs, SameClients, SameMail DEF clientVars
  <2>2. ASSUME Linked(s)', s \notin holed' PROVE Promised(s)'
    <3>1. Promised(s) /\ Linked(s)
      BY <1>1, <2>2 DEF Linked, WaitInv, NobodyForgotten
    <3>2. MailKept(s)
      BY <2>1, <3>1, DestType DEF MailKept
    <3>3. CASE s \in joined[dest[s]]
      <4>1. \A l \in Legs : ws'[l] # "open"
        BY <1>1, <1>2, <1>4, <3>3, RelayAssumption
           DEF Heard, WaitInv, DialsInv, RelayAssumption
      <4>2. \E l \in Legs : at'[l] = dest[s] /\ Leaving(l)'
        BY <1>1, <1>2, <2>1, <2>2, <3>3, <4>1, LegLeaves
      <4> QED BY <1>1, <1>4, <3>3, <4>2 DEF Promised, ToTear
    <3>4. CASE ToClose(s)
      BY <1>1, <3>2, <3>4, CloseKept DEF Promised
    <3> QED BY <1>1, <3>1, <3>3, <3>4 DEF Promised, Streams, ToTear, ToOpen
  <2>3. ASSUME NEW t \in Sessions, t # s, Linked(t)', t \notin holed' PROVE Untouched(t)
    <3>1. Linked(t)
      BY <1>1, <2>3 DEF Linked
    <3>2. MailKept(t)
      BY <2>1, <3>1, DestType DEF MailKept
    <3> QED BY <1>1, <1>4, <2>3, <3>1, <3>2 DEF Untouched
  <2> QED BY <1>1, <1>4, <2>1, <2>2, <2>3, Ordinary
<1> QED BY <1>3, <1>4 DEF DaemonEnds

(* The daemon's frame is under way, or the leg that would carry it is      *)
(* going.                                                                  *)
LEMMA DaemonSendsWaits ==
  ASSUME RelayInv, WaitInv, NEW s \in Sessions, DaemonSends(s) PROVE WaitInv'
<1>1. /\ s \in tun /\ dSent' = [dSent EXCEPT ![s] = @ + 1]
      /\ UNCHANGED <<dials, live, at, ws, stage, ending, tun, joined, client, dest, leg, opening,
                     holed, cTook>>
  BY DEF DaemonSends, legVars, hubVars, clientVars, faultVars, frameVars
<1>2. live \in Legs /\ at[live] \in Hubs /\ at[live] = dest[s]
  BY <1>1, RelayAssumption DEF WaitInv, TunInv, DialsInv, RelayInv, TunnelOK
<1>3. LegsGoOn /\ Progress
  BY <1>1, SameLegs, SameClients DEF clientVars
<1>4. ~Fresh(s) /\ \A t \in Sessions : t # s => UNCHANGED dSent[t]
  BY <1>1 DEF WaitInv, FreshInv, RelayInv, FramesOK
<1>5. \A x \in Hubs : Mail(x) \subseteq Mail(x)'
                      /\ \A c \in Mail(x)' : c \in Mail(x) \/ Addressed(x, c)'
  <2> DEFINE c == FrameTo(s, dSent[s])
  <2>1. UNCHANGED out \/ Issue(at[live], c)
    BY DEF DaemonSends, FrameTo
  <2>2. \A x, d : d = c => Addressed(x, d)'
    BY DEF Addressed, FrameTo
  <2> HIDE DEF c
  <2>3. CASE UNCHANGED out
    BY <2>3, SameMail
  <2>4. CASE Issue(at[live], c)
    BY <1>2, <2>2, <2>4, MailIssued DEF RelayInv
  <2> QED BY <2>1, <2>3, <2>4
<1>6. ASSUME NEW t \in Sessions, Linked(t)', t \notin holed' PROVE Linked(t) /\ MailKept(t)
  <2>1. Linked(t)
    BY <1>1, <1>6 DEF Linked
  <2> QED BY <1>5, <2>1, DestType DEF MailKept
<1>7. ASSUME Linked(s)', s \notin holed' PROVE Promised(s)'
  <2>1. Promised(s) /\ MailKept(s) /\ Linked(s)
    BY <1>1, <1>6, <1>7 DEF WaitInv, NobodyForgotten
  <2>2. CASE ToClose(s)
    BY <1>1, <2>1, <2>2, CloseKept DEF Promised
  <2>3. CASE ToTear(s)
    BY <1>1, <1>3, <2>3, TearKept DEF Promised, ToTear
  <2>4. CASE Streams(s) /\ Heard(live)
    <3>1. Issue(dest[s], FrameTo(s, dSent[s]))
      BY <1>2, <2>4 DEF DaemonSends, Streams, FrameTo
    <3>2. Mail(dest[s])' = Mail(dest[s]) \cup {FrameTo(s, dSent[s])}
      <4> DEFINE c == FrameTo(s, dSent[s])
                 h == dest[s]
      <4>1. h \in Hubs /\ Issue(h, c)
        BY <1>2, <3>1
      <4> HIDE DEF c, h
      <4>2. \A x \in Hubs : Mail(x)' = Mail(x) \cup (IF x = h THEN {c} ELSE {})
        BY <4>1, MailIssued DEF RelayInv
      <4>3. \A x : x = h => Mail(x)' = Mail(x) \cup {c}
        BY <4>1, <4>2
      <4> QED BY <1>1, <4>3 DEF c, h, Mail
    <3>3. ASSUME NEW n \in cTook[s]..dSent[s] PROVE FrameTo(s, n) \in Mail(dest[s])'
      <4>1. CASE n = dSent[s]
        BY <3>2, <4>1
      <4>2. CASE n # dSent[s]
        <5>1. n \in cTook[s]..(dSent[s] - 1)
          BY <4>2 DEF RelayInv, FramesOK
        <5> QED BY <2>4, <3>2, <5>1 DEF Streams
      <4> QED BY <4>1, <4>2
    <3>4. cTook'[s] = cTook[s] /\ dSent'[s] - 1 = dSent[s]
      BY <1>1 DEF RelayInv, FramesOK
    <3> QED BY <1>1, <2>4, <3>3, <3>4 DEF Streams, Promised, FrameTo, Mail
  <2>5. CASE Streams(s) /\ ~Heard(live)
    <3>1. \A l \in Legs : ws'[l] # "open"
      BY <1>1, <1>2, <2>5, RelayAssumption DEF Heard, WaitInv, DialsInv, RelayAssumption
    <3>2. \E l \in Legs : at'[l] = dest[s] /\ Leaving(l)'
      BY <1>1, <1>2, <1>3, <1>7, <2>5, <3>1, LegLeaves DEF Streams
    <3> QED BY <1>1, <2>5, <3>2 DEF Promised, ToTear, Streams
  <2> QED BY <1>1, <2>1, <2>2, <2>3, <2>4, <2>5 DEF Promised, ToOpen
<1>8. ASSUME NEW t \in Sessions, t # s, Linked(t)', t \notin holed' PROVE Untouched(t)
  BY <1>1, <1>4, <1>6, <1>8 DEF Untouched
<1>9. \A x \in Hubs : \A c \in Mail(x)' : c \in Mail(x) \/ Addressed(x, c)'
  BY <1>5
<1>10. \A t \in Sessions : Fresh(t) => UNCHANGED dSent[t]
  BY <1>4
<1>11. /\ opening' \subseteq opening /\ tun' \subseteq tun
       /\ \A h \in Hubs : joined'[h] \subseteq joined[h]
       /\ \A l \in Legs : ws'[l] = "open" => ws[l] = "open"
       /\ holed \subseteq holed'
       /\ UNCHANGED <<dials, live, at>>
  BY <1>1
<1> QED BY <1>3, <1>7, <1>8, <1>9, <1>10, <1>11, Ordinary

(* A client takes the frame that came, and the rest stays under way.       *)
LEMMA HandleToClientWaits ==
  ASSUME RelayInv, WaitInv, NEW h \in Hubs, NEW g \in Hubs, HandleToClient(h, g) PROVE WaitInv'
<1>1. PICK s \in Sessions :
         /\ s = Head(out[h]).s /\ out[h] # <<>> /\ Head(out[h]) \in Mail(h)
         /\ Head(out[h]).k = "to_client" /\ Head(out[h]).to = g /\ g = HomeOf[s]
  <2>1. out[h] \in Seq(Issued) /\ out[h] # <<>>
    BY DEF HandleToClient, Publishes, Oldest, RelayInv, QueuesOK
  <2>2. Head(out[h]) \in Mail(h)
    BY <2>1 DEF Mail, Range
  <2> QED BY <2>2, EnvelopeType
          DEF HandleToClient, Publishes, Oldest, RelayInv, WaitInv, MailInv, Addressed
<1>2. UNCHANGED <<dials, live, at, ws, stage, ending, tun, joined, dest, opening, holed, dSent>>
  BY DEF HandleToClient, tunnelVars, legVars, hubVars, faultVars
<1>3. CASE /\ Ends(s) /\ leg[s] = "here" /\ out' = Answer(h, g, CloseTo(dest[s], s))
           /\ UNCHANGED cTook
  <2>1. /\ \A x \in Hubs : \A c \in Mail(x)' : c \in Mail(x) \/ c = CloseTo(dest[s], s)
        /\ \A x \in Hubs : \A c \in Mail(x) : c \in Mail(x)' \/ c = Head(out[h])
    BY <1>1, <1>3, MailAnswered DEF RelayInv
  <2>2. \A x \in Hubs : \A c \in Mail(x) : c \in Mail(x)' \/ c.s = s
    BY <1>1, <2>1
  <2> QED BY <1>1, <1>2, <1>3, <2>1, <2>2, Ended
<1>4. CASE /\ out' = Drop(h) /\ UNCHANGED <<client, leg>>
           /\ \/ ~Linked(s) /\ UNCHANGED cTook
              \/ Head(out[h]).n = cTook[s] /\ cTook' = [cTook EXCEPT ![s] = @ + 1]
  <2>1. Progress /\ LegsGoOn
    BY <1>2, <1>4, SameClients, SameLegs DEF clientVars
  <2>2. /\ \A x \in Hubs : Mail(x)' \subseteq Mail(x)
        /\ \A x \in Hubs : \A c \in Mail(x) : c \in Mail(x)' \/ c = Head(out[h])
    BY <1>1, <1>4, StillDrops
  <2>3. ASSUME NEW t \in Sessions, t # s, Linked(t)', t \notin holed' PROVE Untouched(t)
    <3>1. Linked(t)
      BY <1>2, <1>4, <2>3 DEF Linked
    <3>2. MailKept(t)
      BY <1>1, <2>2, <2>3, <3>1, DestType DEF MailKept
    <3>3. UNCHANGED cTook[t]
      BY <1>4, <2>3 DEF RelayInv, FramesOK
    <3> QED BY <1>2, <2>3, <3>1, <3>2, <3>3 DEF Untouched
  <2>4. ASSUME Linked(s)', s \notin holed' PROVE Promised(s)'
    <3>1. Linked(s) /\ Promised(s) /\ HomeOf[s] \in Hubs /\ dest[s] \in Hubs /\ UNCHANGED dest[s]
      BY <1>2, <1>4, <2>4, DestType DEF Linked, WaitInv, NobodyForgotten
    <3>2. /\ cTook'[s] = cTook[s] + 1 /\ Head(out[h]).n = cTook[s]
          /\ cTook[s] \in Nat /\ dSent[s] \in Int
      BY <1>4, <3>1 DEF RelayInv, FramesOK
    <3>3. CASE ToOpen(s)
      <4>1. OpenTo(dest[s], s).k = "open"
        BY DEF OpenTo
      <4>2. OpenTo(dest[s], s) \in Mail(HomeOf[s])'
        BY <1>1, <2>2, <3>1, <3>3, <4>1 DEF ToOpen
      <4> QED BY <1>2, <3>3, <4>2 DEF Promised, ToOpen, OpenTo
    <3>4. CASE ToClose(s)
      <4>1. CloseTo(HomeOf[s], s).k = "close"
        BY DEF CloseTo
      <4>2. CloseTo(HomeOf[s], s) \in Mail(dest[s])'
        BY <1>1, <2>2, <3>1, <3>4, <4>1, <1>2 DEF ToClose, Mail
      <4> QED BY <1>2, <3>4, <4>2 DEF Promised, ToClose, CloseTo
    <3>5. CASE Streams(s)
      <4>1. ASSUME NEW n \in (cTook[s] + 1)..(dSent[s] - 1) PROVE FrameTo(s, n) \in Mail(dest[s])'
        <5>1. n \in cTook[s]..(dSent[s] - 1) /\ n # cTook[s]
          BY <3>2
        <5>2. FrameTo(s, n).n = n
          BY DEF FrameTo
        <5>3. FrameTo(s, n) \in Mail(dest[s]) /\ FrameTo(s, n) # Head(out[h])
          BY <3>2, <3>5, <5>1, <5>2 DEF Streams
        <5>4. \A d \in Hubs : d = dest[s] => FrameTo(s, n) \in Mail(d)'
          BY <2>2, <5>3
        <5> QED BY <1>2, <3>1, <5>4 DEF Mail
      <4> QED BY <1>2, <3>2, <3>5, <4>1 DEF Promised, Streams, FrameTo, Mail
    <3>6. CASE ToTear(s)
      BY <1>2, <2>1, <3>6, TearKept DEF Promised, ToTear
    <3> QED BY <3>1, <3>3, <3>4, <3>5, <3>6 DEF Promised
  <2>5. \A x \in Hubs : \A c \in Mail(x)' : c \in Mail(x) \/ Addressed(x, c)'
    BY <2>2
  <2> QED BY <1>2, <2>1, <2>3, <2>4, <2>5, Ordinary
<1> QED BY <1>1, <1>3, <1>4 DEF HandleToClient, Linked, Expected

-----------------------------------------------------------------------------
(* Steps that add to what a session can hope for.                          *)

(* Nobody dials while a leg is up, so no session is in the tunnel; and the *)
(* new leg has nothing to tear.                                            *)
LEMMA DialWaits == ASSUME RelayInv, WaitInv, NEW h \in Hubs, Dial(h) PROVE WaitInv'
<1> DEFINE l == dials + 1
<1>1. /\ live = None /\ l \in Legs /\ h \in Hubs /\ dials' = l /\ live' = l
      /\ at' = [at EXCEPT ![l] = h] /\ ws' = [ws EXCEPT ![l] = "open"]
      /\ stage' = [stage EXCEPT ![l] = "lookup"] /\ l > dials
      /\ UNCHANGED <<ending, tun, joined, out, holed, cTook, dSent>> /\ UNCHANGED clientVars
  BY RelayAssumption DEF Dial, hubVars, planeVars, faultVars, frameVars, RelayInv, TunnelOK,
     RelayAssumption, Legs
<1>2. /\ tun = {} /\ \A k \in Legs : ws[k] # "open"
  BY <1>1, RelayAssumption DEF WaitInv, TunInv, DialsInv, RelayAssumption
<1>3. stage[l] = "none"
  BY <1>1 DEF RelayInv, RecordsOK
<1> HIDE DEF l
<1>4. LegsGoOn
  BY <1>1, <1>3 DEF LegsGoOn, Serving, RelayInv, LegsOK
<1>5. /\ Progress /\ UNCHANGED <<client, dest, leg, opening>>
      /\ \A x \in Hubs : Mail(x)' = Mail(x)
  BY <1>1, SameClients, SameMail DEF clientVars
<1>6. DialsInv'
  <2>1. ASSUME NEW k \in Legs, k <= l, k # l PROVE k <= dials
    BY <2>1 DEF l, RelayInv, TunnelOK, Legs
  <2>2. ASSUME NEW k \in Legs, k <= l PROVE at'[k] \in Hubs
    BY <1>1, <2>1, <2>2 DEF WaitInv, DialsInv, RelayInv, LegsOK
  <2>3. \A k \in Legs : ws'[k] = "open" => live' = k
    BY <1>1, <1>2 DEF RelayInv, LegsOK
  <2>4. l <= l
    BY <1>1 DEF Legs
  <2> QED BY <1>1, <2>2, <2>3, <2>4 DEF DialsInv
<1>7. TunInv'
  BY <1>1, <1>2 DEF TunInv
<1>8. JoinedInv' /\ FreshInv' /\ MailInv'
  BY <1>1, <1>5, KeepMail, KeepJoined, KeepFresh DEF WaitInv
<1>9. ServedInv'
  BY <1>1, <1>4, KeepServed DEF WaitInv
<1>10. ASSUME NEW s \in Sessions, Linked(s)', s \notin holed' PROVE Untouched(s)
  <2>1. Linked(s)
    BY <1>5, <1>10 DEF Linked
  <2>2. MailKept(s)
    BY <1>5, <2>1, DestType DEF MailKept
  <2> QED BY <1>1, <1>10, <2>1, <2>2 DEF Untouched
<1>11. NobodyForgotten'
  BY <1>4, <1>5, <1>10, UntouchedKept DEF NobodyForgotten, WaitInv
<1> QED BY <1>6, <1>7, <1>8, <1>9, <1>11 DEF WaitInv

(* A leg is through when its instance has no session left, those that it   *)
(* joined while it tore included.                                          *)
LEMMA TearDoneWaits == ASSUME RelayInv, WaitInv, NEW l \in Legs, TearDone(l) PROVE WaitInv'
<1>1. /\ joined[at[l]] = {} /\ ending' = [ending EXCEPT ![l] = "done"]
      /\ UNCHANGED <<dials, live, at, ws, stage, tun, joined, out, holed, cTook, dSent>>
      /\ UNCHANGED clientVars
  BY DEF TearDone, tunnelVars, hubVars, planeVars, faultVars, frameVars
<1>2. /\ Progress /\ UNCHANGED <<client, dest, leg, opening>>
      /\ \A x \in Hubs : Mail(x)' = Mail(x)
  BY <1>1, SameClients, SameMail DEF clientVars
<1>3. \A k \in Legs : k # l /\ Serving(k) => Serving(k)'
  BY <1>1 DEF Serving, RelayInv, LegsOK
<1>4. DialsInv' /\ TunInv'
  BY <1>1, <1>2 DEF WaitInv, DialsInv, TunInv
<1>5. JoinedInv' /\ FreshInv' /\ MailInv'
  BY <1>1, <1>2, KeepMail, KeepJoined, KeepFresh DEF WaitInv
<1>6. ServedInv'
  BY <1>1, <1>3 DEF WaitInv, ServedInv
<1>7. ASSUME NEW s \in Sessions, Linked(s)', s \notin holed' PROVE Promised(s)'
  <2>1. Promised(s) /\ MailKept(s)
    <3>1. Linked(s)
      BY <1>2, <1>7 DEF Linked
    <3> QED BY <1>1, <1>2, <1>7, <3>1, DestType DEF MailKept, WaitInv, NobodyForgotten
  <2>2. CASE ToOpen(s)
    BY <1>1, <1>2, <2>1, <2>2, OpenKept DEF Promised, ToOpen
  <2>3. CASE ToClose(s)
    BY <1>1, <1>2, <2>1, <2>3, CloseKept DEF Promised
  <2>4. CASE Streams(s)
    BY <1>1, <1>2, <2>1, <2>4, StreamKept DEF Promised, Streams
  <2>5. CASE ToTear(s)
    <3>1. PICK k \in Legs : at[k] = dest[s] /\ Leaving(k)
      BY <2>5 DEF ToTear
    <3>2. at'[k] = dest'[s] /\ Leaving(k)' /\ s \in joined'[dest'[s]]
      BY <1>1, <1>2, <1>3, <2>5, <3>1 DEF Leaving, ToTear
    <3> QED BY <3>2 DEF Promised, ToTear
  <2> QED BY <2>1, <2>2, <2>3, <2>4, <2>5 DEF Promised
<1> QED BY <1>4, <1>5, <1>6, <1>7 DEF WaitInv, NobodyForgotten

(* A handler fails: those it does not tell are torn by another leg that    *)
(* closes here, or are the ones nobody tells.                              *)
LEMMA GivesUp ==
  ASSUME RelayInv, WaitInv, NEW l \in Legs, ending[l] # "no",
         NEW T \in SUBSET Sessions, Fails(l, T),
         UNCHANGED <<dials, live, at, ws, stage, tun, clientVars, cTook, dSent>>,
         holed \subseteq holed', GivenUp(l) \ T \subseteq holed',
         \A t \in T : t \in holed' \/ Promised(t)',
         \A x \in Hubs : \A c \in Mail(x)' : c \in Mail(x) \/ Addressed(x, c)',
         \A x \in Hubs : \A c \in Mail(x) : c \in Mail(x)' \/ c.k \notin Words
  PROVE  WaitInv'
<1>1. /\ ending' = [ending EXCEPT ![l] = "done"]
      /\ joined' = [joined EXCEPT ![at[l]] = @ \ T]
  BY DEF Fails
<1>2. at[l] \in Hubs
  <2>1. l <= dials
    BY DEF RelayInv, RecordsOK, TunnelOK, Legs
  <2> QED BY <2>1 DEF WaitInv, DialsInv
<1>3. /\ Progress /\ UNCHANGED <<client, dest, leg, opening>>
  BY SameClients DEF clientVars
<1>4. \A k \in Legs : k # l => UNCHANGED ending[k]
  BY <1>1 DEF RelayInv, LegsOK
<1>5. \A x \in Hubs : joined'[x] \subseteq joined[x] /\ joined[x] \ T \subseteq joined'[x]
  BY <1>1 DEF RelayInv, HubsOK
<1>6. DialsInv' /\ TunInv'
  BY <1>3 DEF WaitInv, DialsInv, TunInv
<1>7. JoinedInv' /\ FreshInv' /\ MailInv'
  BY <1>3, <1>5, KeepMail, KeepJoined, KeepFresh DEF WaitInv
<1>8. ASSUME NEW t \in Sessions, t \in joined'[at[l]], t \notin T, t \notin holed'
      PROVE  \E k \in Legs : at'[k] = at[l] /\ Leaving(k)'
  <2>1. t \in joined[at[l]] /\ t \notin GivenUp(l)
    BY <1>2, <1>5, <1>8
  <2>2. PICK k \in Legs \ {l} : at[k] = at[l] /\ Closing(k)
    BY <2>1 DEF GivenUp
  <2> QED BY <1>4, <2>2 DEF Closing, Leaving, Serving
<1>9. ServedInv'
  <2> SUFFICES ASSUME NEW x \in Hubs, NEW t \in joined'[x], t \notin holed'
               PROVE  \E k \in Legs : at'[k] = x /\ Serving(k)'
    BY DEF ServedInv
  <2>1. PICK k \in Legs : at[k] = x /\ Serving(k)
    BY <1>5 DEF WaitInv, ServedInv
  <2>2. CASE k # l
    BY <1>4, <2>1, <2>2 DEF Serving
  <2>3. CASE k = l
    <3>1. t \in Sessions /\ t \notin T /\ t \in joined'[at[l]]
      BY <1>1, <2>1, <2>3 DEF RelayInv, HubsOK
    <3> QED BY <1>8, <2>1, <2>3, <3>1 DEF Leaving
  <2> QED BY <2>2, <2>3
<1>10. ASSUME NEW t \in Sessions, Linked(t)', t \notin holed' PROVE Promised(t)'
  <2>1. CASE t \in T
    BY <1>10, <2>1
  <2>2. CASE t \notin T
    <3>1. Linked(t) /\ t \notin holed
      BY <1>3, <1>10 DEF Linked
    <3>2. Promised(t) /\ dest[t] \in Hubs
      BY <3>1, DestType DEF WaitInv, NobodyForgotten
    <3>3. MailKept(t) /\ UNCHANGED <<dest[t], dSent[t], cTook[t]>>
      BY <1>3, <3>1, DestType DEF MailKept
    <3>4. t \in joined[dest[t]] => t \in joined'[dest[t]]
      BY <1>5, <2>2, <3>2
    <3>5. CASE ToOpen(t)
      BY <3>3, <3>5, OpenKept DEF Promised, ToOpen
    <3>6. CASE ToClose(t)
      BY <3>3, <3>6, CloseKept DEF Promised
    <3>7. CASE Streams(t)
      BY <3>3, <3>4, <3>7, StreamKept DEF Promised, Streams
    <3>8. CASE ToTear(t)
      <4>1. PICK k \in Legs : at[k] = dest[t] /\ Leaving(k)
        BY <3>8 DEF ToTear
      <4>2. CASE k # l
        <5>1. at'[k] = dest'[t] /\ Leaving(k)' /\ t \in joined'[dest'[t]]
          BY <1>3, <1>4, <3>4, <3>8, <4>1, <4>2 DEF Leaving, Serving, ToTear
        <5> QED BY <5>1 DEF Promised, ToTear
      <4>3. CASE k = l
        <5>1. t \in joined'[at[l]] /\ at[l] = dest'[t]
          BY <1>3, <3>4, <3>8, <4>1, <4>3 DEF ToTear
        <5>2. \E j \in Legs : at'[j] = at[l] /\ Leaving(j)'
          BY <1>8, <1>10, <2>2, <5>1
        <5> QED BY <5>1, <5>2 DEF Promised, ToTear
      <4> QED BY <4>2, <4>3
    <3> QED BY <3>2, <3>5, <3>6, <3>7, <3>8 DEF Promised
  <2> QED BY <2>1, <2>2
<1> QED BY <1>6, <1>7, <1>9, <1>10 DEF WaitInv, NobodyForgotten

LEMMA ReleaseFailsWaits ==
  ASSUME RelayInv, WaitInv, NEW h \in Hubs, ReleaseFails(h) PROVE WaitInv'
<1>1. PICK l \in Legs : l = Head(out[h]).l /\ ending[l] \in Past
  BY ExecutedType, CommandType DEF ReleaseFails, Oldest, Issued, Genuine, RelayInv
<1>2. /\ out[h] # <<>> /\ out' = Drop(h) /\ Head(out[h]).k = "release"
      /\ Fails(l, {}) /\ holed' = holed \cup GivenUp(l)
      /\ UNCHANGED <<dials, live, at, ws, stage, tun, clientVars, cTook, dSent>>
  BY <1>1 DEF ReleaseFails, Oldest, tunnelVars, frameVars
<1>3. /\ \A x \in Hubs : Mail(x)' \subseteq Mail(x)
      /\ \A x \in Hubs : \A c \in Mail(x) : c \in Mail(x)' \/ c = Head(out[h])
  BY <1>2, StillDrops
<1>4. ending[l] # "no" /\ {} \in SUBSET Sessions
  BY <1>1 DEF Past
<1>5. /\ \A x \in Hubs : \A c \in Mail(x)' : c \in Mail(x) \/ Addressed(x, c)'
      /\ \A x \in Hubs : \A c \in Mail(x) : c \in Mail(x)' \/ c.k \notin Words
  BY <1>2, <1>3 DEF Words
<1> QED BY <1>2, <1>4, <1>5, GivesUp

LEMMA TearFailsWaits ==
  ASSUME RelayInv, WaitInv, NEW l \in Legs, NEW s \in Sessions, TearFails(l, s) PROVE WaitInv'
<1> DEFINE h == at[l]
           c == CloseTo(HomeOf[s], s)
<1>1. /\ ending[l] = "tearing" /\ s \in joined[h] /\ Fails(l, {s})
      /\ UNCHANGED <<dials, live, at, ws, stage, tun, clientVars, cTook, dSent>>
  BY DEF TearFails, tunnelVars, frameVars
<1>2. h \in Hubs
  <2>1. l <= dials
    BY <1>1 DEF RelayInv, RecordsOK, TunnelOK, Legs
  <2> QED BY <2>1 DEF WaitInv, DialsInv
<1>3. dest[s] = h /\ dest'[s] = h
  BY <1>1, <1>2 DEF WaitInv, JoinedInv, clientVars
<1>4. \A x \in Hubs : Addressed(x, c)'
  BY DEF Addressed, CloseTo
<1>5. ending[l] # "no" /\ {s} \in SUBSET Sessions
  BY <1>1
<1>6. CASE UNCHANGED out /\ holed' = holed \cup GivenUp(l) \cup {s}
  <2>1. \A x \in Hubs : Mail(x)' = Mail(x)
    BY <1>6, SameMail
  <2> QED BY <1>1, <1>5, <1>6, <2>1, GivesUp
<1>7. CASE Issue(h, c) /\ holed' = holed \cup (GivenUp(l) \ {s})
  <2> HIDE DEF c, h
  <2>1. \A x \in Hubs : Mail(x)' = Mail(x) \cup (IF x = h THEN {c} ELSE {})
    BY <1>2, <1>7, MailIssued DEF RelayInv
  <2>2. \A x : x = h => (x \in Hubs => c \in Mail(x)')
    BY <2>1
  <2>3. Promised(s)'
    BY <1>2, <1>3, <2>2 DEF Promised, ToClose, Mail, CloseTo, c
  <2>4. /\ \A x \in Hubs : \A d \in Mail(x)' : d \in Mail(x) \/ Addressed(x, d)'
        /\ \A x \in Hubs : \A d \in Mail(x) : d \in Mail(x)'
    BY <1>4, <2>1
  <2> QED BY <1>1, <1>5, <1>7, <2>3, <2>4, GivesUp
<1> QED BY <1>6, <1>7 DEF TearFails

(* A client that links is not served yet, and nothing was said of it.      *)
LEMMA LinkWaits == ASSUME RelayInv, WaitInv, NEW s \in Sessions, Link(s) PROVE WaitInv'
<1>1. /\ client[s] = "none" /\ client' = [client EXCEPT ![s] = "open"]
      /\ dest' = [dest EXCEPT ![s] = lease] /\ leg' = [leg EXCEPT ![s] = "here"]
      /\ opening' = opening \cup {s}
      /\ UNCHANGED <<dials, live, at, ws, stage, ending, tun, joined, out, holed, cTook, dSent>>
  BY DEF Link, tunnelVars, legVars, hubVars, planeVars, faultVars, frameVars
<1>2. /\ leg[s] # "gone" /\ s \notin tun /\ \A h \in Hubs : s \notin joined[h]
  BY <1>1 DEF WaitInv, JoinedInv
<1>3. Progress
  BY <1>1, <1>2 DEF Progress, Fresh, RelayInv, ClientsOK
<1>4. \A x \in Hubs : Mail(x)' = Mail(x)
  BY <1>1, SameMail
<1>5. DialsInv' /\ ServedInv'
  BY <1>1 DEF WaitInv, DialsInv, ServedInv, Serving
<1>6. TunInv' /\ FreshInv'
  BY <1>1, <1>2, <1>3, KeepTun, KeepFresh DEF WaitInv
<1>7. JoinedInv'
  <2>1. client'[s] # "none" /\ \A t \in Sessions : t # s => UNCHANGED <<client[t], dest[t], leg[t]>>
    BY <1>1 DEF RelayInv, ClientsOK
  <2>2. \A h \in Hubs : joined[h] \subseteq Sessions
    BY DEF RelayInv, HubsOK
  <2> QED BY <1>1, <1>2, <2>1, <2>2 DEF WaitInv, JoinedInv
<1>8. MailInv'
  BY <1>3, <1>4, KeepMail DEF WaitInv
<1>9. ASSUME NEW t \in Sessions, Linked(t)', t \notin holed' PROVE Untouched(t)
  <2>1. t # s /\ Linked(t)
    BY <1>1, <1>9 DEF Linked, RelayInv, ClientsOK
  <2>2. MailKept(t) /\ dest[t] \in Hubs
    BY <1>4, <2>1, DestType DEF MailKept
  <2> QED BY <1>1, <1>9, <2>1, <2>2 DEF Untouched
<1>10. NobodyForgotten'
  BY <1>1, <1>3, <1>9, SameLegs, UntouchedKept DEF NobodyForgotten, WaitInv
<1> QED BY <1>5, <1>6, <1>7, <1>8, <1>10 DEF WaitInv

(* An open that comes is answered by a session, or by a close when nobody  *)
(* serves the daemon here.                                                 *)
LEMMA HandleOpenWaits ==
  ASSUME RelayInv, WaitInv, NEW h \in Hubs, NEW g \in Hubs, HandleOpen(h, g) PROVE WaitInv'
<1>1. PICK s \in Sessions : /\ s = Head(out[h]).s /\ out[h] # <<>> /\ Head(out[h]) \in Mail(h)
                             /\ Head(out[h]).k = "open" /\ Head(out[h]).to = g
  <2>1. out[h] \in Seq(Issued) /\ out[h] # <<>>
    BY DEF HandleOpen, Publishes, Oldest, RelayInv, QueuesOK
  <2>2. Head(out[h]) \in Mail(h)
    BY <2>1 DEF Mail, Range
  <2> QED BY <2>2, EnvelopeType DEF HandleOpen, Publishes, Oldest, RelayInv
<1>2. h = HomeOf[s] /\ g = dest[s] /\ client[s] # "none" /\ s \notin opening
  BY <1>1 DEF WaitInv, MailInv, Addressed, Fresh
<1>3. /\ UNCHANGED <<dials, live, at, ws, stage, ending, holds, holed, cTook, dSent>>
      /\ UNCHANGED clientVars
  BY DEF HandleOpen, legVars, faultVars, frameVars
<1>4. /\ Progress /\ LegsGoOn /\ UNCHANGED <<client, dest, leg, opening>>
  BY <1>3, SameClients, SameLegs DEF clientVars
<1>5. CASE holds[g] = None /\ out' = DaemonOffline(h, g, s) /\ UNCHANGED <<tun, joined>>
  <2> DEFINE c == CloseTo(h, s)
  <2>1. out' = Answer(h, g, c)
    BY <1>5 DEF DaemonOffline
  <2>2. /\ c \in Mail(g)'
        /\ \A x \in Hubs : \A d \in Mail(x)' : d \in Mail(x) \/ d = c
        /\ \A x \in Hubs : \A d \in Mail(x) : d \in Mail(x)' \/ d = Head(out[h])
    <3> HIDE DEF c
    <3> QED BY <1>1, <2>1, MailAnswered DEF RelayInv
  <2>3. \A x \in Hubs : Addressed(x, c)'
    BY <1>2 DEF Addressed, CloseTo
  <2>4. \A x \in Hubs : \A d \in Mail(x)' : d \in Mail(x) \/ Addressed(x, d)'
    BY <2>2, <2>3
  <2>5. Promised(s)'
    BY <1>2, <1>4, <2>2 DEF Promised, ToClose, Mail, CloseTo
  <2>6. ASSUME NEW t \in Sessions, Linked(t)', t \notin holed' PROVE Untouched(t) \/ Promised(t)'
    <3>1. Linked(t)
      BY <1>4, <2>6 DEF Linked
    <3>2. CASE t # s
      <4>1. MailKept(t) /\ dest[t] \in Hubs
        BY <1>1, <2>2, <3>1, <3>2, DestType DEF MailKept
      <4> QED BY <1>3, <1>5, <2>6, <3>1, <4>1 DEF Untouched
    <3> QED BY <2>5, <3>2
  <2> HIDE DEF c
  <2> QED BY <1>3, <1>4, <1>5, <2>4, <2>6, Ordinary
<1>6. CASE /\ holds[g] # None /\ joined' = [joined EXCEPT ![g] = @ \cup {s}]
           /\ tun' = IF Heard(holds[g]) THEN tun \cup {s} ELSE tun
           /\ out' = Drop(h)
  <2>1. PICK r \in Legs : r = holds[g] /\ at[r] = g /\ stage[r] = "named" /\ ending[r] # "done"
    BY <1>6 DEF RelayInv, HubsOK, RecordsOK, RecordIsOwn, Past
  <2>2. /\ \A x \in Hubs : Mail(x)' \subseteq Mail(x)
        /\ \A x \in Hubs : \A c \in Mail(x) : c \in Mail(x)' \/ c = Head(out[h])
    BY <1>1, <1>6, StillDrops
  <2>3. /\ \A x \in Hubs : joined[x] \subseteq joined'[x]
        /\ \A x \in Hubs : \A t \in joined'[x] : t \in joined[x] \/ (x = g /\ t = s)
        /\ s \in joined'[g]
    BY <1>6 DEF RelayInv, HubsOK
  <2>4. tun \subseteq tun' /\ \A t \in tun' : t \in tun \/ (t = s /\ live = r)
    BY <1>6, <2>1 DEF Heard
  <2>5. DialsInv' /\ MailInv'
    BY <1>3, <1>4, <2>2, KeepMail DEF WaitInv, DialsInv
  <2>6. JoinedInv'
    <3>1. \A x \in Hubs : \A t \in joined'[x] : dest'[t] = x
      BY <1>2, <1>4, <2>3 DEF WaitInv, JoinedInv
    <3>2. \A t \in Sessions : client'[t] = "none" =>
             /\ leg'[t] # "gone" /\ t \notin opening' /\ t \notin tun'
             /\ \A x \in Hubs : t \notin joined'[x]
      BY <1>2, <1>4, <2>3, <2>4 DEF WaitInv, JoinedInv
    <3> QED BY <3>1, <3>2 DEF JoinedInv
  <2>7. FreshInv'
    BY <1>2, <1>3, <1>4, <2>4 DEF WaitInv, FreshInv, Fresh
  <2>8. TunInv'
    BY <1>2, <1>3, <1>4, <2>1, <2>4, RelayAssumption DEF WaitInv, TunInv, RelayAssumption
  <2>9. ServedInv'
    BY <1>3, <2>1, <2>3 DEF WaitInv, ServedInv, Serving
  <2>10. /\ dest'[s] = g /\ s \in joined'[dest'[s]]
         /\ \A c \in Mail(dest[s]) : c.k \in {"close", "to_client"} => c \in Mail(dest[s])'
    BY <1>1, <1>2, <1>4, <2>2, <2>3 DEF Mail
  <2>11. ASSUME ~Heard(r) PROVE ToTear(s)'
    <3>1. ws[r] # "open"
      BY <2>1, <2>11, RelayAssumption DEF Heard, WaitInv, DialsInv, RelayAssumption
    <3>2. at'[r] = dest'[s] /\ Leaving(r)'
      BY <1>3, <2>1, <2>10, <3>1 DEF Leaving, Serving
    <3> QED BY <2>10, <3>2 DEF ToTear
  <2>12. ASSUME Linked(s)', s \notin holed' PROVE Promised(s)'
    <3>1. Promised(s) /\ UNCHANGED dest[s]
      BY <1>3, <1>4, <2>12 DEF Linked, WaitInv, NobodyForgotten
    <3>2. CASE ToOpen(s) /\ Heard(r)
      <4>1. s \in tun'
        BY <1>6, <2>1, <3>2
      <4>2. cTook'[s]..(dSent'[s] - 1) = {}
        BY <1>3, <3>2 DEF ToOpen, RelayInv, FramesOK, TakenWasSent
      <4> QED BY <2>10, <4>1, <4>2 DEF Promised, Streams
    <3>3. CASE ToClose(s)
      <4>1. CloseTo(HomeOf[s], s).k = "close"
        BY DEF CloseTo
      <4> QED BY <2>10, <3>1, <3>3, <4>1 DEF Promised, ToClose, CloseTo, Mail
    <3>4. CASE Streams(s)
      <4>1. \A n : FrameTo(s, n).k = "to_client"
        BY DEF FrameTo
      <4>2. \A n \in cTook[s]..(dSent[s] - 1) : FrameTo(s, n) \in Mail(dest[s])'
        BY <2>10, <3>4, <4>1 DEF Streams
      <4> QED BY <1>3, <2>4, <2>10, <3>1, <3>4, <4>2 DEF Promised, Streams, FrameTo, Mail
    <3>5. CASE ToTear(s)
      BY <1>4, <2>10, <3>1, <3>5, TearKept DEF Promised
    <3> QED BY <2>11, <3>1, <3>2, <3>3, <3>4, <3>5 DEF Promised
  <2>13. ASSUME NEW t \in Sessions, t # s, Linked(t)', t \notin holed' PROVE Untouched(t)
    <3>1. Linked(t)
      BY <1>4, <2>13 DEF Linked
    <3>2. MailKept(t) /\ dest[t] \in Hubs
      BY <1>1, <2>2, <2>13, <3>1, DestType DEF MailKept
    <3> QED BY <1>3, <2>3, <2>4, <2>13, <3>1, <3>2 DEF Untouched
  <2>14. NobodyForgotten'
    BY <1>4, <2>12, <2>13, UntouchedKept DEF NobodyForgotten, WaitInv
  <2> QED BY <2>5, <2>6, <2>7, <2>8, <2>9, <2>14 DEF WaitInv
<1> QED BY <1>1, <1>5, <1>6 DEF HandleOpen

-----------------------------------------------------------------------------
(* Steps that end all that an instance has.                                *)
LEMMA DisruptedWaits ==
  ASSUME RelayInv, WaitInv, NEW h \in Hubs, Disrupted(h) PROVE WaitInv'
<1>1. /\ client' = [s \in Sessions |-> IF s \in HereAt(h) THEN "closed" ELSE client[s]]
      /\ leg' = [s \in Sessions |-> IF s \in HereAt(h) THEN "gone" ELSE leg[s]]
      /\ out' = [out EXCEPT ![h] = @ \o SetToSeq(ClosesAt(h))]
      /\ tun' = IF Heard(holds[h]) THEN tun \ joined[h] ELSE tun
      /\ joined' = [joined EXCEPT ![h] = {}]
      /\ holed' = holed \cup joined[h] \cup HereAt(h)
      /\ UNCHANGED <<dials, live, at, ws, stage, ending, dest, opening, cTook, dSent>>
  BY DEF Disrupted, HereAt, ClosesAt, legVars, frameVars
<1>2. HereAt(h) \subseteq Sessions
  BY DEF HereAt
<1>3. Progress /\ LegsGoOn
  BY <1>1, <1>2, SameLegs DEF Progress, Fresh, RelayInv, ClientsOK
<1>4. \A x \in Hubs :
         /\ Mail(x) \subseteq Mail(x)'
         /\ Mail(x)' \subseteq Mail(x) \cup ClosesAt(h)
  <2>1. /\ SetToSeq(ClosesAt(h)) \in Seq(Issued)
        /\ Range(SetToSeq(ClosesAt(h))) \subseteq ClosesAt(h)
        /\ out \in [Hubs -> Seq(Issued)]
    BY ClosesListed DEF RelayInv, QueuesOK, Range
  <2>2. Range(out[h] \o SetToSeq(ClosesAt(h))) = Range(out[h]) \cup Range(SetToSeq(ClosesAt(h)))
    BY <2>1, MailJoin
  <2> QED BY <1>1, <2>1, <2>2 DEF Mail
<1>5. \A x \in Hubs : \A c \in ClosesAt(h) : Addressed(x, c)'
  <2> SUFFICES ASSUME NEW x \in Hubs, NEW s \in HereAt(h) PROVE Addressed(x, CloseTo(dest[s], s))'
    BY <1>1 DEF ClosesAt
  <2>1. leg'[s] = "gone"
    BY <1>1, <1>2
  <2> QED BY <2>1 DEF Addressed, CloseTo
<1>6. \A x \in Hubs : joined'[x] \subseteq joined[x] /\ joined[x] \ joined[h] \subseteq joined'[x]
  BY <1>1 DEF RelayInv, HubsOK
<1>7. ASSUME NEW t \in Sessions, Linked(t)', t \notin holed' PROVE Untouched(t)
  <2>1. t \notin HereAt(h) /\ t \notin joined[h] /\ t \notin holed
    BY <1>1, <1>7
  <2>2. Linked(t)
    BY <1>1, <1>7, <2>1 DEF Linked
  <2>3. MailKept(t) /\ dest[t] \in Hubs
    BY <1>4, <2>2, DestType DEF MailKept
  <2> QED BY <1>1, <1>6, <2>1, <2>2, <2>3 DEF Untouched
<1>8. /\ tun' \subseteq tun /\ opening' \subseteq opening
      /\ \A l \in Legs : ws'[l] = "open" => ws[l] = "open"
      /\ \A x \in Hubs : \A c \in Mail(x)' : c \in Mail(x) \/ Addressed(x, c)'
  BY <1>1, <1>4, <1>5
<1> QED BY <1>1, <1>3, <1>6, <1>7, <1>8, Ordinary

(* A dead instance has no leg to serve or to tear, and no session.         *)
LEMMA HubDiesWaits ==
  ASSUME RelayInv, WaitInv, NEW h \in Hubs, HubDies(h) PROVE WaitInv'
<1> DEFINE Mine == {s \in Sessions : HomeOf[s] = h /\ leg[s] # "gone"}
<1>1. /\ client' = [s \in Sessions |-> IF s \in Mine THEN "closed" ELSE client[s]]
      /\ leg' = [s \in Sessions |-> IF s \in Mine THEN "gone" ELSE leg[s]]
      /\ opening' = opening \ Mine
      /\ out' = [out EXCEPT ![h] = <<>>]
      /\ joined' = [joined EXCEPT ![h] = {}]
      /\ ws' = [l \in Legs |-> IF at[l] = h /\ ws[l] = "open" THEN "closed" ELSE ws[l]]
      /\ ending' = [l \in Legs |-> IF at[l] = h /\ ending[l] # "unnamed" THEN "done" ELSE ending[l]]
      /\ holed' = holed \cup Mine \cup {s \in Sessions : dest[s] = h}
      /\ UNCHANGED <<dials, live, at, stage, tun, dest, cTook, dSent>>
  BY DEF HubDies, tunnelVars, frameVars
<1>2. /\ Progress /\ opening' \subseteq opening
  BY <1>1 DEF Progress, Fresh, RelayInv, ClientsOK
<1>3. \A x \in Hubs : Mail(x)' \subseteq Mail(x) /\ (x # h => Mail(x)' = Mail(x))
  BY <1>1 DEF Mail, Range, RelayInv, QueuesOK
<1>4. \A x \in Hubs : joined'[x] \subseteq joined[x] /\ (x # h => joined'[x] = joined[x])
                      /\ (x = h => joined'[x] = {})
  BY <1>1 DEF RelayInv, HubsOK
<1>5. \A l \in Legs : at[l] # h => UNCHANGED <<at[l], ws[l], stage[l], ending[l]>>
  BY <1>1
<1>6. \A l \in Legs : ws'[l] = "open" => ws[l] = "open"
  BY <1>1
<1>7. DialsInv' /\ TunInv' /\ JoinedInv' /\ FreshInv' /\ MailInv'
  BY <1>1, <1>2, <1>3, <1>4, <1>6, KeepDials, KeepTun, KeepJoined, KeepFresh, KeepMail
     DEF WaitInv
<1>8. ServedInv'
  <2> SUFFICES ASSUME NEW x \in Hubs, joined'[x] \ holed' # {}
               PROVE  \E l \in Legs : at'[l] = x /\ Serving(l)'
    BY DEF ServedInv
  <2>1. x # h /\ joined[x] \ holed # {}
    BY <1>1, <1>4
  <2>2. PICK l \in Legs : at[l] = x /\ Serving(l)
    BY <2>1 DEF WaitInv, ServedInv
  <2> QED BY <1>5, <2>1, <2>2 DEF Serving
<1>9. ASSUME NEW s \in Sessions, Linked(s)', s \notin holed' PROVE Promised(s)'
  <2>1. s \notin Mine /\ dest[s] # h /\ s \notin holed
    BY <1>1, <1>9
  <2>2. Linked(s) /\ HomeOf[s] # h
    BY <1>1, <1>9, <2>1 DEF Linked
  <2>3. Promised(s) /\ dest[s] \in Hubs /\ dest'[s] = dest[s] /\ HomeOf[s] \in Hubs
    BY <1>1, <2>1, <2>2, DestType, RelayAssumption DEF WaitInv, NobodyForgotten, RelayAssumption
  <2>4. MailKept(s) /\ joined'[dest[s]] = joined[dest[s]]
    BY <1>3, <1>4, <2>1, <2>2, <2>3 DEF MailKept
  <2>5. CASE ToOpen(s)
    BY <1>1, <2>3, <2>4, <2>5, OpenKept DEF Promised, ToOpen
  <2>6. CASE ToClose(s)
    BY <2>3, <2>4, <2>6, CloseKept DEF Promised
  <2>7. CASE Streams(s)
    BY <1>1, <2>3, <2>4, <2>7, StreamKept DEF Promised, Streams
  <2>8. CASE ToTear(s)
    <3>1. PICK l \in Legs : at[l] = dest[s] /\ Leaving(l)
      BY <2>8 DEF ToTear
    <3>2. at'[l] = dest'[s] /\ Leaving(l)' /\ s \in joined'[dest'[s]]
      BY <1>5, <2>1, <2>3, <2>4, <2>8, <3>1 DEF Leaving, Serving, ToTear
    <3> QED BY <3>2 DEF Promised, ToTear
  <2> QED BY <2>3, <2>5, <2>6, <2>7, <2>8 DEF Promised
<1> QED BY <1>7, <1>8, <1>9 DEF WaitInv, NobodyForgotten

-----------------------------------------------------------------------------
LEMMA WaitInit == ASSUME Init PROVE WaitInv
<1>1. \A h \in Hubs : Mail(h) = {}
  BY DEF Init, Mail, Range
<1>2. /\ \A l \in Legs : ~(l <= 0)
  BY RelayAssumption DEF Legs, RelayAssumption
<1>3. DialsInv /\ TunInv
  BY <1>2 DEF Init, DialsInv, TunInv
<1>4. JoinedInv /\ FreshInv /\ ServedInv /\ NobodyForgotten
  BY DEF Init, JoinedInv, FreshInv, ServedInv, NobodyForgotten, Linked
<1>5. MailInv
  BY <1>1 DEF MailInv
<1> QED BY <1>3, <1>4, <1>5 DEF WaitInv

LEMMA WaitStep == ASSUME RelayInv, WaitInv, [Next]_vars PROVE WaitInv'
<1>1. ASSUME NEW h \in Hubs,
             \/ Dial(h) \/ Tick(h) \/ Executes(h)
             \/ Lose(h) \/ Rejects(h) \/ Disrupted(h) \/ HubDies(h)
      PROVE  WaitInv'
  BY <1>1, DialWaits, TickWaits, ClaimWaits, ReleaseWaits, RenewWaits, HandleOpenWaits,
     HandleToDaemonWaits, HandleToClientWaits, HandleCloseWaits, LostWaits, ClaimFailsWaits,
     ReleaseFailsWaits, RenewFailsWaits, DisruptedWaits, HubDiesWaits
     DEF Executes, Handle, Rejects
<1>2. ASSUME NEW l \in Legs,
             \/ Tunnel(l) \/ Leg(l) \/ (\E s \in Sessions : TearFails(l, s))
             \/ \E how \in {"dead", "closed"} : Break(l, how)
      PROVE  WaitInv'
  BY <1>2, HearsCloseWaits, OnSilenceWaits, RegisteredWaits, ClosedWaits, TearDoneWaits,
     TearOneWaits, TearFailsWaits, BreakWaits DEF Tunnel, Leg
<1>3. ASSUME NEW s \in Sessions,
             \/ Link(s) \/ Open(s) \/ ClientSends(s) \/ DaemonSends(s) \/ DaemonEnds(s)
             \/ ClientLeaves(s) \/ ClientVanishes(s) \/ LegGone(s) \/ Overdue(s)
      PROVE  WaitInv'
  BY <1>3, LinkWaits, OpenWaits, ClientSendsWaits, DaemonSendsWaits, DaemonEndsWaits,
     ClientLeavesWaits, ClientVanishesWaits, LegGoneWaits, OverdueClientWaits,
     OverdueSessionWaits DEF Overdue
<1>4. CASE Stop \/ Expire
  BY <1>4, StopWaits, ExpireWaits
<1>5. CASE UNCHANGED vars
  <2>1. UNCHANGED <<dials, live, at, ws, stage, ending, tun, joined, out, clientVars, holed,
                  cTook, dSent>>
    BY <1>5 DEF vars, tunnelVars, legVars, hubVars, planeVars, faultVars, frameVars
  <2> QED BY <2>1, SameLegs, SameMail, Still
<1> QED BY <1>1, <1>2, <1>3, <1>4, <1>5 DEF Next

(* Nobody waits on a stream that has no source and no end: while its leg   *)
(* is open, a client's open is under way, or its close is, or a leg of its *)
(* daemon is about to tear it, or it is served and what was sent to it is  *)
(* under way - at every step, unless an envelope of its session was lost,  *)
(* or the session was left by a close handler that failed, with no other   *)
(* leg closing there to find it (#handleEnvelope, #close, #onDisrupted).   *)
THEOREM NobodyIsForgotten == Spec => []NobodyForgotten
<1>1. WaitInv => NobodyForgotten
  BY DEF WaitInv
<1> QED BY <1>1, RelayInit, RelayStep, WaitInit, WaitStep, PTL DEF Spec

(* The frame a linked client waits for is under way, or the end of its     *)
(* session is, or a leg is about to tear it: a frame the daemon sent into  *)
(* a leg that was going is not missed in silence (#fromDaemon, #close),    *)
(* unless an envelope was lost or a failed close handler left the session. *)
THEOREM FramesAreOwed == Spec => []FrameOwed
<1>1. RelayInv /\ WaitInv => FrameOwed
  <2> SUFFICES ASSUME RelayInv, WaitInv, NEW s \in Sessions, Linked(s), s \notin holed,
                      cTook[s] < dSent[s]
               PROVE  FrameTo(s, cTook[s]) \in Mail(dest[s]) \/ ToClose(s) \/ ToTear(s)
    BY DEF FrameOwed
  <2>1. cTook[s] \in cTook[s]..(dSent[s] - 1) /\ dSent[s] # 0
    BY DEF RelayInv, FramesOK
  <2> QED BY <2>1 DEF WaitInv, NobodyForgotten, Promised, ToOpen, Streams
<1> QED BY <1>1, RelayInit, RelayStep, WaitInit, WaitStep, PTL DEF Spec

-----------------------------------------------------------------------------
(***************************************************************************)
(* What an instance waits for is under way: a renewal it awaits will be    *)
(* answered, and a close handler goes on.                                  *)
(***************************************************************************)
Renewal == [k |-> "renew"]
ReleaseOf(l) == [k |-> "release", l |-> l]

(* A close handler that is not through is on its way: the close is still   *)
(* to be heard by an instance that runs, or the release is in the queue,   *)
(* or it tears - but for a ghost, whose handler has run before it had      *)
(* anything to tear (#close, #tick).  One that has failed is through.      *)
HandlersGoOn ==
  /\ \A h \in Hubs : renewing[h] => Renewal \in Mail(h)
  /\ \A l \in Legs : Leaving(l) =>
       \/ ending[l] = "no" /\ ws[l] \in {"dead", "closed"} /\ at[l] \in up
       \/ ending[l] = "releasing" /\ ReleaseOf(l) \in Mail(at[l])
       \/ ending[l] = "tearing"
       \/ l \in Ghosts

GoOnInv ==
  /\ \A h \in Hubs : renewing[h] => Renewal \in Mail(h)
  /\ \A l \in Legs : ending[l] = "releasing" => ReleaseOf(l) \in Mail(at[l])
  /\ \A l \in Legs : l <= dials => ws[l] # "none" /\ (ending[l] = "no" => at[l] \in up)

LEMMA EndingDialed ==
  ASSUME RelayInv, DialsInv, NEW l \in Legs, ending[l] # "no" \/ stage[l] # "none"
  PROVE  l <= dials /\ at[l] \in Hubs
  BY DEF RelayInv, RecordsOK, TunnelOK, Legs, DialsInv

(* What the steps of most actions leave alone.                             *)
Calm ==
  /\ UNCHANGED <<dials, at, up, renewing>>
  /\ \A l \in Legs : ending'[l] \in {"no", "releasing"} => UNCHANGED ending[l]
  /\ \A l \in Legs : ws[l] # "none" => ws'[l] # "none"

Standing == {"renew", "release"}
KeepsStanding == \A x \in Hubs : \A c \in Mail(x) : c.k \in Standing => c \in Mail(x)'

LEMMA CalmGoesOn == ASSUME RelayInv, DialsInv, GoOnInv, Calm, KeepsStanding PROVE GoOnInv'
<1>1. Renewal.k \in Standing /\ \A l : ReleaseOf(l).k \in Standing
  BY DEF Renewal, ReleaseOf, Standing
<1>2. ASSUME NEW h \in Hubs, renewing'[h] PROVE Renewal \in Mail(h)'
  BY <1>1, <1>2 DEF Calm, GoOnInv, KeepsStanding
<1>3. ASSUME NEW l \in Legs, ending'[l] = "releasing" PROVE ReleaseOf(l) \in Mail(at[l])'
  <2>1. ending[l] = "releasing" /\ at[l] \in Hubs /\ UNCHANGED at
    BY <1>3, EndingDialed DEF Calm
  <2>2. \A x \in Hubs : x = at[l] => ReleaseOf(l) \in Mail(x)'
    BY <1>1, <2>1 DEF GoOnInv, KeepsStanding
  <2> QED BY <2>1, <2>2 DEF Mail
<1>4. \A l \in Legs : l <= dials' => ws'[l] # "none" /\ (ending'[l] = "no" => at'[l] \in up')
  BY DEF Calm, GoOnInv
<1> QED BY <1>2, <1>3, <1>4 DEF GoOnInv

LEMMA IssuedStands == ASSUME RelayInv, NEW h, NEW c, Issue(h, c) PROVE KeepsStanding
<1>1. CASE h \in Hubs
  BY <1>1, MailIssued DEF KeepsStanding, RelayInv
<1>2. CASE h \notin Hubs
  BY <1>2 DEF KeepsStanding, RelayInv, QueuesOK, Issue, Mail
<1> QED BY <1>1, <1>2

LEMMA SameStands == ASSUME UNCHANGED out PROVE KeepsStanding
  BY DEF KeepsStanding, Mail

LEMMA ExecutedStands ==
  ASSUME RelayInv, NEW h \in Hubs, out[h] # <<>>, Head(out[h]).k \notin Standing,
         out' = Drop(h) \/ \E g \in Hubs : \E c : out' = Answer(h, g, c)
  PROVE  KeepsStanding
  BY MailDropped, MailAnswered DEF KeepsStanding, RelayInv

(* The steps of the tunnel, of legs and of clients.                        *)
LEMMA LegsGoOnQuietly ==
  ASSUME RelayInv, DialsInv, GoOnInv, NEW l \in Legs,
         \/ Tunnel(l) \/ Registered(l) \/ TearDone(l)
         \/ (\E s \in Sessions : TearOne(l, s) \/ TearFails(l, s))
         \/ \E how \in {"dead", "closed"} : Break(l, how)
  PROVE  GoOnInv'
<1>1. Calm
  BY DEF Tunnel, HearsClose, OnSilence, Registered, Shut, TearDone, TearOne, TearFails, Fails,
         Break, Calm, tunnelVars, legVars, hubVars, RelayInv, LegsOK
<1>2. KeepsStanding
  BY IssuedStands, SameStands
     DEF Tunnel, HearsClose, OnSilence, Registered, TearDone, TearOne, TearFails, Break,
         planeVars
<1> QED BY <1>1, <1>2, CalmGoesOn

LEMMA ClientsGoOnQuietly ==
  ASSUME RelayInv, DialsInv, GoOnInv, NEW s \in Sessions,
         \/ Link(s) \/ Open(s) \/ ClientSends(s) \/ DaemonSends(s) \/ DaemonEnds(s)
         \/ ClientLeaves(s) \/ ClientVanishes(s) \/ LegGone(s) \/ Overdue(s)
  PROVE  GoOnInv'
<1>1. Calm
  BY DEF Link, Open, ClientSends, DaemonSends, DaemonEnds, ClientLeaves, ClientVanishes,
         LegGone, Overdue, OverdueClient, OverdueSession, Calm, tunnelVars, legVars, hubVars
<1>2. KeepsStanding
  BY IssuedStands, SameStands
     DEF Link, Open, ClientSends, DaemonSends, DaemonEnds, Tear, ClientLeaves, ClientVanishes,
         LegGone, Overdue, OverdueClient, OverdueSession, planeVars
<1> QED BY <1>1, <1>2, CalmGoesOn

LEMMA OthersGoOnQuietly ==
  ASSUME RelayInv, DialsInv, GoOnInv, Stop \/ Expire \/ UNCHANGED vars PROVE GoOnInv'
<1>1. Calm
  BY DEF Stop, Expire, Calm, vars, tunnelVars, legVars, hubVars
<1>2. KeepsStanding
  BY SameStands DEF Stop, Expire, vars, planeVars
<1> QED BY <1>1, <1>2, CalmGoesOn

LEMMA EnvelopesGoOnQuietly ==
  ASSUME RelayInv, DialsInv, GoOnInv, NEW h \in Hubs,
         Claim(h) \/ ClaimFails(h) \/ Handle(h) \/ Unheard(h) \/ Lose(h)
  PROVE  GoOnInv'
<1>1. Calm
  BY DEF Claim, ClaimFails, Handle, HandleOpen, HandleToDaemon, HandleToClient, HandleClose,
         Unheard, Lose, Calm, tunnelVars, legVars, hubVars
<1>2. CASE Claim(h) \/ ClaimFails(h)
  BY <1>1, <1>2, ExecutedStands, CalmGoesOn DEF Claim, ClaimFails, Oldest, Standing
<1>3. CASE Handle(h)
  <2>1. PICK g \in Hubs :
          HandleOpen(h, g) \/ HandleToDaemon(h, g) \/ HandleToClient(h, g) \/ HandleClose(h, g)
    BY <1>3 DEF Handle
  <2>2. out[h] # <<>> /\ Head(out[h]).k \notin Standing
    BY <2>1 DEF HandleOpen, HandleToDaemon, HandleToClient, HandleClose, Publishes, Oldest, Standing
  <2>3. out' = Drop(h) \/ \E c : out' = Answer(h, g, c)
    BY <2>1 DEF HandleOpen, DaemonOffline, HandleToDaemon, HandleToClient, HandleClose
  <2> QED BY <1>1, <2>2, <2>3, ExecutedStands, CalmGoesOn
<1>4. CASE Unheard(h) \/ Lose(h)
  <2>1. out[h] # <<>> /\ "to" \in DOMAIN Head(out[h]) /\ out' = Drop(h)
    BY <1>4 DEF Unheard, Lose
  <2>2. Head(out[h]) \in Commands
    BY <2>1, ExecutedType DEF RelayInv
  <2>3. Head(out[h]).k \notin Standing
    BY <2>1, <2>2 DEF Commands, Standing
  <2> QED BY <1>1, <2>1, <2>3, ExecutedStands, CalmGoesOn
<1> QED BY <1>2, <1>3, <1>4

(* An instance that missed envelopes says so after all it has said.        *)
LEMMA DisruptedGoesOn ==
  ASSUME RelayInv, DialsInv, GoOnInv, NEW h \in Hubs, Disrupted(h) PROVE GoOnInv'
<1>1. Calm
  BY DEF Disrupted, Calm, tunnelVars, legVars, hubVars
<1>2. KeepsStanding
  <2>1. /\ SetToSeq(ClosesAt(h)) \in Seq(Issued) /\ out \in [Hubs -> Seq(Issued)]
        /\ out' = [out EXCEPT ![h] = @ \o SetToSeq(ClosesAt(h))]
    BY ClosesListed DEF RelayInv, QueuesOK, Disrupted, ClosesAt, HereAt
  <2>2. Range(out[h] \o SetToSeq(ClosesAt(h))) = Range(out[h]) \cup Range(SetToSeq(ClosesAt(h)))
    BY <2>1, MailJoin
  <2> QED BY <2>1, <2>2 DEF KeepsStanding, Mail
<1> QED BY <1>1, <1>2, CalmGoesOn

LEMMA DialGoesOn ==
  ASSUME RelayInv, DialsInv, GoOnInv, NEW h \in Hubs, Dial(h) PROVE GoOnInv'
<1> DEFINE l == dials + 1
<1>1. /\ l \in Legs /\ h \in up /\ dials' = l /\ l > dials
      /\ at' = [at EXCEPT ![l] = h] /\ ws' = [ws EXCEPT ![l] = "open"]
      /\ UNCHANGED <<ending, renewing, up, out>>
  BY RelayAssumption DEF Dial, hubVars, planeVars, RelayInv, TunnelOK, RelayAssumption, Legs
<1>2. ending[l] = "no"
  BY <1>1 DEF RelayInv, RecordsOK
<1>3. \A x : Mail(x)' = Mail(x)
  BY <1>1, SameMail
<1>4. \A k \in Legs : k <= l /\ k # l => k <= dials
  BY DEF RelayInv, TunnelOK, Legs
<1> HIDE DEF l
<1>5. ASSUME NEW k \in Legs, ending'[k] = "releasing" PROVE ReleaseOf(k) \in Mail(at[k])'
  <2>1. k # l /\ at'[k] = at[k] /\ ReleaseOf(k) \in Mail(at[k])
    BY <1>1, <1>2, <1>5 DEF GoOnInv, RelayInv, LegsOK
  <2> QED BY <1>1, <2>1 DEF Mail
<1>6. ASSUME NEW k \in Legs, k <= dials'
      PROVE  ws'[k] # "none" /\ (ending'[k] = "no" => at'[k] \in up')
  <2>1. CASE k = l
    BY <1>1, <2>1 DEF RelayInv, LegsOK
  <2>2. CASE k # l
    BY <1>1, <1>4, <1>6, <2>2 DEF GoOnInv, RelayInv, LegsOK
  <2> QED BY <2>1, <2>2
<1> QED BY <1>1, <1>3, <1>5, <1>6 DEF GoOnInv

(* The steps that await, and those that are awaited.                       *)
LEMMA TickGoesOn ==
  ASSUME RelayInv, DialsInv, GoOnInv, NEW h \in Hubs, Tick(h) PROVE GoOnInv'
<1>1. /\ renewing' = [renewing EXCEPT ![h] = TRUE] /\ Issue(h, Renewal)
      /\ UNCHANGED <<dials, at, ws, ending, up>>
  BY DEF Tick, Renewal, tunnelVars, legVars
<1>2. \A x \in Hubs : Mail(x)' = Mail(x) \cup (IF x = h THEN {Renewal} ELSE {})
  BY <1>1, MailIssued DEF RelayInv
<1>3. ASSUME NEW l \in Legs, ending'[l] = "releasing" PROVE ReleaseOf(l) \in Mail(at[l])'
  <2>1. at[l] \in Hubs /\ ReleaseOf(l) \in Mail(at[l])
    BY <1>1, <1>3, EndingDialed DEF GoOnInv
  <2> QED BY <1>1, <1>2, <2>1 DEF Mail
<1>4. ASSUME NEW x \in Hubs, renewing'[x] PROVE Renewal \in Mail(x)'
  BY <1>1, <1>2, <1>4 DEF GoOnInv, RelayInv, HubsOK
<1> QED BY <1>1, <1>3, <1>4 DEF GoOnInv

LEMMA ClosedGoesOn ==
  ASSUME RelayInv, DialsInv, GoOnInv, NEW l \in Legs, Closed(l) PROVE GoOnInv'
<1>1. /\ UNCHANGED <<dials, at, ws, renewing, up>> /\ at[l] \in Hubs
      /\ \A k \in Legs : k # l => UNCHANGED ending[k]
      /\ \/ ending'[l] \in {"unnamed", "tearing"} /\ UNCHANGED out
         \/ ending'[l] = "releasing" /\ Issue(at[l], ReleaseOf(l))
  BY DEF Closed, ReleaseOf, tunnelVars, RelayInv, LegsOK, HubsOK
<1>2. /\ \A x \in Hubs : Mail(x) \subseteq Mail(x)'
      /\ ending'[l] = "releasing" => ReleaseOf(l) \in Mail(at[l])'
  <2>1. CASE UNCHANGED out /\ ending'[l] # "releasing"
    BY <2>1, SameMail
  <2>2. CASE Issue(at[l], ReleaseOf(l))
    <3> DEFINE h == at[l]
               c == ReleaseOf(l)
    <3>1. h \in Hubs /\ Issue(h, c)
      BY <1>1, <2>2
    <3> HIDE DEF h, c
    <3>2. \A x \in Hubs : Mail(x)' = Mail(x) \cup (IF x = h THEN {c} ELSE {})
      BY <3>1, MailIssued DEF RelayInv
    <3>3. \A x \in Hubs : x = h => c \in Mail(x)'
      BY <3>2
    <3> QED BY <1>1, <3>1, <3>2, <3>3 DEF h, c, Mail
  <2> QED BY <1>1, <2>1, <2>2
<1>3. ASSUME NEW k \in Legs, k # l, ending'[k] = "releasing" PROVE ReleaseOf(k) \in Mail(at[k])'
  <2>1. at[k] \in Hubs /\ ReleaseOf(k) \in Mail(at[k])
    BY <1>1, <1>3, EndingDialed DEF GoOnInv
  <2> QED BY <1>1, <1>2, <2>1 DEF Mail
<1>4. ASSUME NEW k \in Legs, k <= dials'
      PROVE  ws'[k] # "none" /\ (ending'[k] = "no" => at'[k] \in up')
  BY <1>1, <1>4 DEF GoOnInv
<1> QED BY <1>1, <1>2, <1>3, <1>4 DEF GoOnInv

LEMMA ReleaseGoesOn ==
  ASSUME RelayInv, DialsInv, GoOnInv, NEW h \in Hubs, Release(h) \/ ReleaseFails(h)
  PROVE  GoOnInv'
<1>1. PICK r \in Legs : r = Head(out[h]).l
  BY ExecutedType, CommandType DEF Release, ReleaseFails, Oldest, RelayInv
<1>2. /\ out[h] # <<>> /\ out' = Drop(h) /\ Head(out[h]).k = "release"
      /\ \E e \in {"tearing", "done"} : ending' = [ending EXCEPT ![r] = e]
      /\ UNCHANGED <<dials, at, ws, renewing, up>>
  BY <1>1 DEF Release, ReleaseFails, Fails, Oldest, tunnelVars, hubVars
<1>3. \A x \in Hubs : \A c \in Mail(x) : c \in Mail(x)' \/ c = Head(out[h])
  BY <1>2, StillDrops
<1>4. ending'[r] \in {"tearing", "done"} /\ \A k \in Legs : k # r => UNCHANGED ending[k]
  BY <1>2 DEF RelayInv, LegsOK
<1>5. ASSUME NEW k \in Legs, ending'[k] = "releasing" PROVE ReleaseOf(k) \in Mail(at[k])'
  <2>1. k # r /\ at[k] \in Hubs /\ ReleaseOf(k) \in Mail(at[k])
    BY <1>4, <1>5, EndingDialed DEF GoOnInv
  <2>2. ReleaseOf(k) # Head(out[h])
    BY <1>1, <2>1 DEF ReleaseOf
  <2> QED BY <1>2, <1>3, <2>1, <2>2 DEF Mail
<1>6. ASSUME NEW x \in Hubs, renewing'[x] PROVE Renewal \in Mail(x)'
  BY <1>2, <1>3, <1>6 DEF GoOnInv, Renewal
<1>7. ASSUME NEW k \in Legs, k <= dials'
      PROVE  ws'[k] # "none" /\ (ending'[k] = "no" => at'[k] \in up')
  BY <1>2, <1>4, <1>7 DEF GoOnInv
<1> QED BY <1>5, <1>6, <1>7 DEF GoOnInv

LEMMA RenewGoesOn ==
  ASSUME RelayInv, DialsInv, GoOnInv, NEW h \in Hubs, Renew(h) \/ RenewFails(h)
  PROVE  GoOnInv'
<1>1. /\ out[h] # <<>> /\ out' = Drop(h) /\ Head(out[h]).k = "renew"
      /\ renewing' = [renewing EXCEPT ![h] = FALSE]
      /\ UNCHANGED <<dials, at, ending, up>>
  BY DEF Renew, RenewFails, Oldest, tunnelVars
<1>2. \A k \in Legs : ws[k] # "none" => ws'[k] # "none"
  BY DEF Renew, RenewFails, LeaseLost, Shut, RelayInv, LegsOK
<1>3. \A x \in Hubs : /\ \A c \in Mail(x) : c \in Mail(x)' \/ c = Head(out[h])
                      /\ x # h => Mail(x)' = Mail(x)
  BY <1>1, MailDropped, StillDrops DEF RelayInv
<1>4. ASSUME NEW k \in Legs, ending'[k] = "releasing" PROVE ReleaseOf(k) \in Mail(at[k])'
  <2>1. at[k] \in Hubs /\ ReleaseOf(k) \in Mail(at[k])
    BY <1>1, <1>4, EndingDialed DEF GoOnInv
  <2>2. ReleaseOf(k) # Head(out[h])
    BY <1>1 DEF ReleaseOf
  <2> QED BY <1>1, <1>3, <2>1, <2>2 DEF Mail
<1>5. ASSUME NEW x \in Hubs, renewing'[x] PROVE Renewal \in Mail(x)'
  BY <1>1, <1>3, <1>5 DEF GoOnInv, RelayInv, HubsOK
<1> QED BY <1>1, <1>2, <1>4, <1>5 DEF GoOnInv

(* A dead instance waits for nothing.                                      *)
LEMMA HubDiesGoesOn ==
  ASSUME RelayInv, DialsInv, GoOnInv, NEW h \in Hubs, HubDies(h) PROVE GoOnInv'
<1>1. /\ renewing' = [renewing EXCEPT ![h] = FALSE] /\ up' = up \ {h}
      /\ out' = [out EXCEPT ![h] = <<>>]
      /\ ws' = [l \in Legs |-> IF at[l] = h /\ ws[l] = "open" THEN "closed" ELSE ws[l]]
      /\ ending' = [l \in Legs |-> IF at[l] = h /\ ending[l] # "unnamed" THEN "done" ELSE ending[l]]
      /\ UNCHANGED <<dials, at>>
  BY DEF HubDies, tunnelVars
<1>2. \A x \in Hubs : x # h => Mail(x)' = Mail(x)
  BY <1>1 DEF Mail, RelayInv, QueuesOK
<1>3. ASSUME NEW k \in Legs, ending'[k] = "releasing" PROVE ReleaseOf(k) \in Mail(at[k])'
  <2>1. at[k] # h /\ ending[k] = "releasing"
    BY <1>1, <1>3
  <2>2. at[k] \in Hubs /\ ReleaseOf(k) \in Mail(at[k])
    BY <2>1, EndingDialed DEF GoOnInv
  <2> QED BY <1>1, <1>2, <2>1, <2>2 DEF Mail
<1>4. ASSUME NEW x \in Hubs, renewing'[x] PROVE Renewal \in Mail(x)'
  BY <1>1, <1>2, <1>4 DEF GoOnInv, RelayInv, HubsOK
<1>5. ASSUME NEW k \in Legs, k <= dials'
      PROVE  ws'[k] # "none" /\ (ending'[k] = "no" => at'[k] \in up')
  BY <1>1, <1>5 DEF GoOnInv
<1> QED BY <1>3, <1>4, <1>5 DEF GoOnInv

LEMMA GoOnInit == ASSUME Init PROVE GoOnInv
<1>1. \A l \in Legs : ~(l <= 0)
  BY RelayAssumption DEF Legs, RelayAssumption
<1> QED BY <1>1 DEF Init, GoOnInv

LEMMA GoOnStep == ASSUME RelayInv, DialsInv, GoOnInv, [Next]_vars PROVE GoOnInv'
<1>1. ASSUME NEW h \in Hubs,
             \/ Dial(h) \/ Tick(h) \/ Executes(h)
             \/ Lose(h) \/ Rejects(h) \/ Disrupted(h) \/ HubDies(h)
      PROVE  GoOnInv'
  BY <1>1, DialGoesOn, TickGoesOn, ReleaseGoesOn, RenewGoesOn, EnvelopesGoOnQuietly,
     DisruptedGoesOn, HubDiesGoesOn DEF Executes, Rejects
<1>2. ASSUME NEW l \in Legs,
             \/ Tunnel(l) \/ Leg(l) \/ (\E s \in Sessions : TearFails(l, s))
             \/ \E how \in {"dead", "closed"} : Break(l, how)
      PROVE  GoOnInv'
  BY <1>2, ClosedGoesOn, LegsGoOnQuietly DEF Leg
<1> QED BY <1>1, <1>2, ClientsGoOnQuietly, OthersGoOnQuietly DEF Next

(* An instance never waits for what is not coming: the renewal it awaits   *)
(* is in its queue, and a close handler that is not through is on its way, *)
(* unless it is a ghost's (#tick, #close).  It says nothing of a session   *)
(* whose handler has failed: nobody waits to tear that one.                *)
THEOREM NobodyIsStuck == Spec => []HandlersGoOn
<1>1. RelayInv /\ DialsInv /\ GoOnInv => HandlersGoOn
  <2> SUFFICES ASSUME RelayInv, DialsInv, GoOnInv, NEW l \in Legs, Leaving(l)
               PROVE  \/ ending[l] = "no" /\ ws[l] \in {"dead", "closed"} /\ at[l] \in up
                      \/ ending[l] = "releasing" /\ ReleaseOf(l) \in Mail(at[l])
                      \/ ending[l] = "tearing"
                      \/ l \in Ghosts
    BY DEF HandlersGoOn, GoOnInv
  <2>1. stage[l] = "named" /\ ending[l] # "done" /\ ws[l] # "open"
    BY DEF Leaving, Serving
  <2>2. l <= dials
    BY <2>1, EndingDialed
  <2> QED BY <2>1, <2>2 DEF GoOnInv, Ghosts, RelayInv, LegsOK
<1>2. WaitInv => DialsInv
  BY DEF WaitInv
<1> QED BY <1>1, <1>2, RelayInit, RelayStep, WaitInit, WaitStep, GoOnInit, GoOnStep, PTL DEF Spec
=============================================================================
