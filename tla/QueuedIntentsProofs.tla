------------------------- MODULE QueuedIntentsProofs -------------------------
(***************************************************************************)
(* Proofs about QueuedIntents, for any daemons, writes, agents, devices    *)
(* and faults.                                                             *)
(***************************************************************************)
EXTENDS QueuedIntents, FiniteSetTheorems, TLAPS

(* A drain that holds an intent has one.                                   *)
HoldsIntent == \A d \in Daemons : phase[d] \in Holding => current[d] \in Intents

TypeInv == TypeOK /\ HoldsIntent

LEMMA TypeInit == Init => TypeInv
<1> SUFFICES ASSUME Init PROVE TypeInv
  OBVIOUS
<1>1. /\ faults \in 0..FaultBound /\ ends \in 0..EndBound
      /\ asked \in [Agents -> 0..QuestionBound]
  BY IntentsAssumption DEF Init, IntentsAssumption
<1>2. rows \in [Daemons -> SUBSET Agents]
  <2>1. PICK home \in [Agents \ Reserved -> Daemons] :
          rows = [d \in Daemons |-> {a \in Agents \ Reserved : home[a] = d}]
    BY DEF Init
  <2>2. QED
    BY <2>1
<1>3. /\ status \in [Intents -> {"none", "pending", "claimed", "delivered"}]
      /\ seq \in [Intents -> Nat] /\ request \in [Intents -> Nat]
      /\ mode \in [Daemons -> {"up", "stopping", "down"}]
      /\ phase \in [Daemons -> {"idle", "pulling"} \cup Holding]
      /\ current \in [Daemons -> Intents \cup {None}] /\ todo \in [Daemons -> SUBSET Intents]
      /\ trusted \in [Daemons -> SUBSET Devices]
  BY DEF Init
<1>4. /\ turn \in [Agents -> {"none", "drain", "client"}] /\ open \subseteq Agents
      /\ runs \in [Drains -> Nat] /\ missed \subseteq Intents /\ owns = rows
  BY DEF Init
<1>5. HoldsIntent
  BY DEF Init, HoldsIntent, Holding
<1>6. QED
  BY <1>1, <1>2, <1>3, <1>4, <1>5 DEF TypeInv, TypeOK

(* What a drain sleeps with.                                               *)
DrainTypes ==
  /\ phase \in [Daemons -> {"idle", "pulling"} \cup Holding]
  /\ current \in [Daemons -> Intents \cup {None}]
  /\ todo \in [Daemons -> SUBSET Intents]
  /\ missed \subseteq Intents
  /\ HoldsIntent

(* A drain that goes on claims another intent, or ends.                    *)
LEMMA ContinueLetsGo ==
  ASSUME DrainTypes, NEW d \in Daemons, NEW S \in SUBSET Intents, NEW left \in SUBSET Intents,
         Continue(d, S, left)
  PROVE  /\ DrainTypes' /\ phase'[d] \in {"idle", "claiming"}
         /\ \A e \in Daemons \ {d} : phase'[e] = phase[e] /\ current'[e] = current[e]
<1>1. missed' \in SUBSET Intents
  BY DEF Continue, DrainTypes
<1>2. CASE /\ phase' = [phase EXCEPT ![d] = "idle"]
           /\ current' = [current EXCEPT ![d] = None]
           /\ todo' = [todo EXCEPT ![d] = {}]
  BY <1>1, <1>2 DEF DrainTypes, HoldsIntent, Holding
<1>3. ASSUME NEW i \in S, NEW R \in SUBSET S,
             phase' = [phase EXCEPT ![d] = "claiming"],
             current' = [current EXCEPT ![d] = i],
             todo' = [todo EXCEPT ![d] = R]
      PROVE  /\ DrainTypes' /\ phase'[d] \in {"idle", "claiming"}
             /\ \A e \in Daemons \ {d} : phase'[e] = phase[e] /\ current'[e] = current[e]
  <2>1. todo' \in [Daemons -> SUBSET Intents]
    BY <1>3 DEF DrainTypes
  <2>2. QED
    BY <1>1, <1>3, <2>1 DEF DrainTypes, HoldsIntent, Holding
<1>4. \/ /\ phase' = [phase EXCEPT ![d] = "idle"]
         /\ current' = [current EXCEPT ![d] = None]
         /\ todo' = [todo EXCEPT ![d] = {}]
      \/ \E i \in S, R \in SUBSET S :
           /\ phase' = [phase EXCEPT ![d] = "claiming"]
           /\ current' = [current EXCEPT ![d] = i]
           /\ todo' = [todo EXCEPT ![d] = R]
  BY DEF Continue
<1>5. QED
  BY <1>2, <1>3, <1>4

LEMMA SleepsWith ==
  ASSUME DrainTypes, NEW d \in Daemons, NEW p \in Holding, phase[d] \in Holding, Sleeps(d, p)
  PROVE  /\ DrainTypes' /\ phase'[d] = p /\ current' = current
         /\ \A e \in Daemons \ {d} : phase'[e] = phase[e]
BY DEF Sleeps, DrainTypes, HoldsIntent

LEMMA DrainTyped == TypeInv => DrainTypes
BY DEF TypeInv, TypeOK, DrainTypes

LEMMA Continued ==
  ASSUME TypeInv, NEW d \in Daemons, NEW left \in SUBSET Intents, Continue(d, todo[d], left)
  PROVE  DrainTypes'
BY DrainTyped, ContinueLetsGo DEF TypeInv, TypeOK

LEMMA OthersTyped ==
  ASSUME TypeInv, DrainTypes', UNCHANGED <<queueVars, agentVars, lifeVars, runs>>,
         faults' \in 0..FaultBound
  PROVE  TypeInv'
BY DEF TypeInv, TypeOK, DrainTypes, queueVars, agentVars, lifeVars

LEMMA LostTyped == TypeInv /\ Lost => faults' \in 0..FaultBound
BY IntentsAssumption DEF IntentsAssumption, TypeInv, TypeOK, Lost

LEMMA EnqueueKeepsTypes ==
  ASSUME TypeInv, NEW i \in Intents, NEW n \in 0..QuestionBound, Enqueue(i, n)
  PROVE  TypeInv'
<1> USE DEF TypeInv, TypeOK
<1>1. 1 + Cardinality({j \in Intents : status[j] # "none"}) \in Nat
  <2>1. IsFiniteSet({j \in Intents : status[j] # "none"})
    BY IntentsAssumption, FS_Subset DEF IntentsAssumption
  <2>2. QED
    BY <2>1, FS_CardinalityType
<1>2. seq' \in [Intents -> Nat]
  BY <1>1 DEF Enqueue
<1>3. status' \in [Intents -> {"none", "pending", "claimed", "delivered"}]
  BY DEF Enqueue
<1>4. request' \in [Intents -> Nat]
  BY IntentsAssumption DEF IntentsAssumption, Enqueue
<1>5. QED
  BY <1>2, <1>3, <1>4 DEF Enqueue, drainVars, agentVars, lifeVars, HoldsIntent

LEMMA CallKeepsTypes ==
  ASSUME TypeInv, NEW d \in Daemons, Call(d)
  PROVE  TypeInv'
<1> USE DEF TypeInv, TypeOK
<1>1. CASE ClaimServed(d)
  <2>1. status' \in [Intents -> {"none", "pending", "claimed", "delivered"}]
    BY <1>1 DEF ClaimServed
  <2>2. phase' \in [Daemons -> {"idle", "pulling"} \cup Holding] /\ HoldsIntent'
    BY <1>1 DEF ClaimServed, Holding, HoldsIntent
  <2>3. QED
    BY <1>1, <2>1, <2>2 DEF ClaimServed, agentVars, lifeVars
<1>2. CASE ClaimFails(d)
  <2>1. {current[d]} \in SUBSET Intents
    BY <1>2 DEF ClaimFails, HoldsIntent, Holding
  <2>2. DrainTypes'
    BY <1>2, <2>1, Continued DEF ClaimFails
  <2>3. QED
    BY <1>2, <2>2, LostTyped, OthersTyped DEF ClaimFails
<1>3. CASE AckServed(d)
  <2>1. DrainTypes'
    BY <1>3, Continued DEF AckServed
  <2>2. status' \in [Intents -> {"none", "pending", "claimed", "delivered"}]
    <3>1. status' = [status EXCEPT ![current[d]] = IF @ = "claimed" THEN "delivered" ELSE @]
      BY <1>3 DEF AckServed
    <3>2. QED
      BY <3>1
  <2>3. QED
    BY <1>3, <2>1, <2>2 DEF AckServed, DrainTypes, agentVars, lifeVars
<1>4. CASE AckFails(d)
  BY <1>4, Continued, LostTyped, OthersTyped DEF AckFails
<1>5. QED
  BY <1>1, <1>2, <1>3, <1>4 DEF Call

LEMMA PerformsTyped ==
  ASSUME TypeInv, NEW d \in Daemons, NEW i \in Intents, Performs(d, i)
  PROVE  runs' \in [Drains -> Nat]
<1>1. <<d, i>> \in Drains /\ runs[<<d, i>>] + 1 \in Nat
  BY DEF Drains, TypeInv, TypeOK
<1>2. QED
  BY <1>1 DEF Performs, TypeInv, TypeOK

LEMMA ExecuteKeepsTypes ==
  ASSUME TypeInv, NEW d \in Daemons, Execute(d)
  PROVE  TypeInv'
<1> DEFINE i == current[d]
<1>1. phase[d] \in Holding /\ i \in Intents /\ UNCHANGED <<queueVars, faults, lifeVars>>
  BY DEF Execute, TypeInv, HoldsIntent, Holding
<1>2. AgentOf[i] \in Agents
  BY <1>1, IntentsAssumption DEF IntentsAssumption
<1>3. PICK p \in {"turn", "acking", "creating"} : Sleeps(d, p)
  BY DEF Execute, Prompt, Cancel, Decide, Create
<1>4. DrainTypes'
  BY <1>1, <1>3, DrainTyped, SleepsWith DEF Holding
<1>5. /\ turn' \in [Agents -> {"none", "drain", "client"}] /\ open' \subseteq Agents
      /\ asked' = asked
  BY <1>2 DEF Execute, Prompt, Cancel, Decide, Create, agentVars, TypeInv, TypeOK
<1>6. runs' \in [Drains -> Nat]
  <2>1. Performs(d, i) \/ runs' = runs
    BY DEF Execute, Prompt, Cancel, Decide, Create
  <2>2. QED
    BY <1>1, <2>1, PerformsTyped DEF TypeInv, TypeOK
<1>7. QED
  BY <1>1, <1>4, <1>5, <1>6 DEF TypeInv, TypeOK, DrainTypes, queueVars, lifeVars

LEMMA WorkKeepsTypes ==
  ASSUME TypeInv, NEW d \in Daemons, Work(d)
  PROVE  TypeInv'
<1>1. CASE Execute(d)
  BY <1>1, ExecuteKeepsTypes
<1>2. CASE Refuse(d)
  BY <1>2, Continued, OthersTyped DEF Refuse, TypeInv, TypeOK
<1>3. CASE CreateFails(d)
  BY <1>3, Continued, OthersTyped DEF CreateFails, TypeInv, TypeOK
<1>4. CASE CreateBinds(d) \/ CreateEnds(d)
  <2>1. phase[d] \in Holding /\ current[d] \in Intents
    BY <1>4 DEF CreateBinds, CreateEnds, TypeInv, HoldsIntent, Holding
  <2>2. AgentOf[current[d]] \in Agents
    BY <2>1, IntentsAssumption DEF IntentsAssumption
  <2>3. DrainTypes'
    BY <1>4, <2>1, DrainTyped, SleepsWith DEF CreateBinds, CreateEnds, Holding
  <2>4. rows' \in [Daemons -> SUBSET Agents] /\ owns' \in [Daemons -> SUBSET Agents]
    BY <1>4, <2>2 DEF CreateBinds, CreateEnds, TypeInv, TypeOK
  <2>5. runs' \in [Drains -> Nat]
    BY <1>4, <2>1, PerformsTyped DEF CreateBinds, CreateEnds, TypeInv, TypeOK
  <2>6. QED
    BY <1>4, <2>3, <2>4, <2>5
    DEF CreateBinds, CreateEnds, TypeInv, TypeOK, DrainTypes, queueVars, agentVars
<1>5. QED
  BY <1>1, <1>2, <1>3, <1>4 DEF Work

LEMMA DrainKeepsTypes ==
  ASSUME TypeInv, NEW d \in Daemons, Drain(d)
  PROVE  TypeInv'
<1>1. faults \in 0..FaultBound
  BY DEF TypeInv, TypeOK
<1>2. CASE Poll(d)
  <2>1. DrainTypes'
    BY <1>2, DrainTyped DEF Poll, DrainTypes, HoldsIntent, Holding
  <2>2. QED
    BY <1>1, <1>2, <2>1, OthersTyped DEF Poll
<1>3. CASE Pulled(d)
  <2>1. DrainTypes'
    BY <1>3, DrainTyped, ContinueLetsGo DEF Pulled
  <2>2. QED
    BY <1>1, <1>3, <2>1, OthersTyped DEF Pulled
<1>4. CASE PullFails(d)
  <2>1. DrainTypes'
    BY <1>4, DrainTyped DEF PullFails, DrainTypes, HoldsIntent, Holding
  <2>2. QED
    BY <1>4, <2>1, LostTyped, OthersTyped DEF PullFails
<1>5. CASE GoesOn(d)
  BY <1>1, <1>5, Continued, OthersTyped DEF GoesOn
<1>6. QED
  BY <1>2, <1>3, <1>4, <1>5, CallKeepsTypes, WorkKeepsTypes DEF Drain

LEMMA LifeKeepsTypes ==
  ASSUME TypeInv, NEW d \in Daemons, Life(d)
  PROVE  TypeInv'
<1> USE DEF TypeInv, TypeOK
<1>1. ends < EndBound => ends + 1 \in 0..EndBound
  BY IntentsAssumption DEF IntentsAssumption
<1>2. Emptied(d) =>
        /\ owns' \in [Daemons -> SUBSET Agents] /\ open' \subseteq Agents
        /\ turn' \in [Agents -> {"none", "drain", "client"}]
        /\ UNCHANGED <<asked, rows, trusted>>
  BY DEF Emptied
<1>3. CASE Crash(d)
  <2>1. DrainTypes'
    BY <1>3, DrainTyped DEF Crash, DrainTypes, HoldsIntent, Holding
  <2>2. mode' \in [Daemons -> {"up", "stopping", "down"}] /\ ends' \in 0..EndBound
    BY <1>1, <1>3 DEF Crash
  <2>3. QED
    BY <1>2, <1>3, <2>1, <2>2 DEF Crash, DrainTypes, queueVars
<1>4. CASE Restart(d)
  BY <1>4 DEF Restart, queueVars, drainVars, agentVars, HoldsIntent
<1>5. CASE Stop(d)
  BY <1>1, <1>4, <1>5 DEF Stop, queueVars, drainVars, agentVars, HoldsIntent
<1>6. CASE StopReturns(d)
  BY <1>2, <1>6 DEF StopReturns, queueVars, drainVars, HoldsIntent
<1>7. QED
  BY <1>3, <1>4, <1>5, <1>6 DEF Life

LEMMA AgentsKeepTypes ==
  ASSUME TypeInv, NEW a \in Agents, Ask(a) \/ Close(a) \/ TurnEnds(a)
  PROVE  TypeInv'
<1> USE DEF TypeInv, TypeOK
<1>1. CASE Ask(a) \/ Close(a)
  <2>1. asked' \in [Agents -> 0..QuestionBound] /\ open' \subseteq Agents
    <3>1. CASE Ask(a)
      BY <3>1, IntentsAssumption DEF Ask, IntentsAssumption
    <3>2. CASE Close(a)
      BY <3>2 DEF Close
    <3>3. QED
      BY <1>1, <3>1, <3>2
  <2>2. QED
    BY <1>1, <2>1 DEF Ask, Close, queueVars, drainVars, lifeVars, HoldsIntent
<1>2. CASE TurnEnds(a)
  <2>1. DrainTypes'
    <3>1. ASSUME NEW d \in Daemons, Awaits(d, a), Sleeps(d, "acking")
          PROVE  DrainTypes'
      BY <3>1, DrainTyped, SleepsWith DEF Awaits, Holding
    <3>2. CASE UNCHANGED drainVars
      BY <3>2, DrainTyped DEF drainVars, DrainTypes, HoldsIntent
    <3>3. QED
      BY <1>2, <3>1, <3>2 DEF TurnEnds
  <2>2. turn' \in [Agents -> {"none", "drain", "client"}]
    BY <1>2 DEF TurnEnds
  <2>3. QED
    BY <1>2, <2>1, <2>2 DEF TurnEnds, DrainTypes, queueVars, lifeVars
<1>3. QED
  BY <1>1, <1>2

LEMMA HostsKeepTypes ==
  ASSUME TypeInv, NEW d \in Daemons, NEW a \in Agents, ClientPrompt(d, a) \/ HostDies(d, a)
  PROVE  TypeInv'
<1> USE DEF TypeInv, TypeOK
<1>1. CASE ClientPrompt(d, a)
  BY <1>1 DEF ClientPrompt, queueVars, drainVars, lifeVars, HoldsIntent
<1>2. CASE HostDies(d, a)
  <2>1. DrainTypes'
    <3>1. CASE Awaits(d, a) /\ Sleeps(d, "failed")
      BY <3>1, DrainTyped, SleepsWith DEF Awaits, Holding
    <3>2. CASE UNCHANGED drainVars
      BY <3>2, DrainTyped DEF drainVars, DrainTypes, HoldsIntent
    <3>3. QED
      BY <1>2, <3>1, <3>2 DEF HostDies
  <2>2. ends' \in 0..EndBound
    BY <1>2, IntentsAssumption DEF HostDies, IntentsAssumption
  <2>3. /\ turn' \in [Agents -> {"none", "drain", "client"}] /\ open' \subseteq Agents
        /\ owns' \in [Daemons -> SUBSET Agents]
    BY <1>2 DEF HostDies
  <2>4. QED
    BY <1>2, <2>1, <2>2, <2>3 DEF HostDies, DrainTypes, queueVars
<1>3. QED
  BY <1>1, <1>2

LEMMA TypeStep == TypeInv /\ [Next]_vars => TypeInv'
<1> SUFFICES ASSUME TypeInv, [Next]_vars PROVE TypeInv'
  OBVIOUS
<1>1. CASE UNCHANGED vars
  BY <1>1 DEF vars, queueVars, drainVars, agentVars, lifeVars, TypeInv, TypeOK, HoldsIntent
<1>2. ASSUME NEW d \in Daemons, NEW v \in Devices, Revoke(d, v)
      PROVE  TypeInv'
  BY <1>2 DEF Revoke, queueVars, drainVars, agentVars, TypeInv, TypeOK, HoldsIntent
<1>3. QED
  BY <1>1, <1>2, EnqueueKeepsTypes, DrainKeepsTypes, LifeKeepsTypes, HostsKeepTypes,
     AgentsKeepTypes DEF Next

(* The variables keep their types.                                         *)
THEOREM TypeCorrect == Spec => []TypeOK
<1>1. TypeInv => TypeOK
  BY DEF TypeInv
<1>2. QED
  BY <1>1, TypeInit, TypeStep, PTL DEF Spec

-----------------------------------------------------------------------------
(***************************************************************************)
(* Who has taken an intent, and what was done about it.                    *)
(***************************************************************************)

(* The awaits of a drain after its claim was granted, and those of them    *)
(* before the intent takes effect.                                         *)
Owning  == {"granted", "failed", "turn", "creating", "opening", "acking"}
Ahead   == {"granted", "creating", "opening"}
Has(d, i) == phase[d] \in Owning /\ current[d] = i
Taken(i)  == status[i] \in {"claimed", "delivered"}

(* A drain has what is taken from the queue, alone; nothing is done about  *)
(* an intent that is not taken, nor before its drain has done it.          *)
HasTaken  == \A d \in Daemons, i \in Intents : Has(d, i) => Taken(i)
HasAlone  == \A d, e \in Daemons, i \in Intents : Has(d, i) /\ Has(e, i) => d = e
Untouched == \A i \in Intents : Performed(i) => Taken(i)
NotYet    == \A d \in Daemons, i \in Intents :
               phase[d] \in Ahead /\ current[d] = i => ~Performed(i)

TakeInv == HasTaken /\ HasAlone /\ Untouched /\ NotYet /\ AtMostOnce

LEMMA NothingPerformed ==
  ASSUME TypeInv, NEW i \in Intents
  PROVE  ~Performed(i) <=> \A d \in Daemons : runs[<<d, i>>] = 0
<1>1. \A d \in Daemons : <<d, i>> \in Drains
  BY DEF Drains
<1>2. \A d \in Daemons : runs[<<d, i>>] \in Nat
  BY <1>1 DEF TypeInv, TypeOK
<1>3. \A n \in Nat : n > 0 <=> n # 0
  OBVIOUS
<1>4. \A d \in Daemons : runs[<<d, i>>] > 0 <=> runs[<<d, i>>] # 0
  BY <1>2, <1>3, Zenon
<1>5. QED
  BY <1>4, Zenon DEF Performed

LEMMA TakeInit == Init => TakeInv
<1> SUFFICES ASSUME Init PROVE TakeInv
  OBVIOUS
<1>1. \A i \in Intents : ~Performed(i)
  <2>1. \A d \in Daemons, i \in Intents : <<d, i>> \in Drains
    BY DEF Drains
  <2>2. \A d \in Daemons, i \in Intents : runs[<<d, i>>] = 0
    BY <2>1 DEF Init
  <2>3. ~(0 > 0)
    OBVIOUS
  <2>4. \A d \in Daemons, i \in Intents : ~(runs[<<d, i>>] > 0)
    BY <2>2, <2>3, Zenon
  <2>5. QED
    BY <2>4, Zenon DEF Performed
<1>2. AtMostOnce
  BY DEF Init, AtMostOnce
<1>3. QED
  BY <1>1, <1>2 DEF Init, TakeInv, HasTaken, HasAlone, Untouched, NotYet, Has, Owning, Ahead

(* A step that performs nothing and grants nothing: a drain lets go of     *)
(* what it has, or keeps it and comes no nearer to it; what is taken stays *)
(* taken.                                                                  *)
Quiet ==
  /\ runs' = runs
  /\ \A i \in Intents : Taken(i) => Taken(i)'
  /\ \A d \in Daemons :
       \/ phase'[d] \notin Owning
       \/ /\ current'[d] = current[d] /\ phase[d] \in Owning
          /\ phase'[d] \in Ahead => phase[d] \in Ahead

LEMMA QuietKeepsTakes == TakeInv /\ Quiet => TakeInv'
<1> SUFFICES ASSUME TakeInv, Quiet PROVE TakeInv'
  OBVIOUS
<1>1. \A i \in Intents : Performed(i)' <=> Performed(i)
  BY DEF Quiet, Performed
<1>2. \A d \in Daemons, i \in Intents : Has(d, i)' => Has(d, i)
  BY DEF Quiet, Has
<1>3. HasTaken' /\ HasAlone' /\ Untouched'
  BY <1>1, <1>2 DEF TakeInv, HasTaken, HasAlone, Untouched, Quiet
<1>4. NotYet'
  BY <1>1 DEF TakeInv, NotYet, Quiet, Ahead, Owning
<1>5. AtMostOnce'
  BY DEF TakeInv, AtMostOnce, Quiet
<1>6. QED
  BY <1>3, <1>4, <1>5 DEF TakeInv

(* A claim is granted: the drain has an intent that nobody had.            *)
GrantedTo(d, i) ==
  /\ status[i] = "pending" /\ status' = [status EXCEPT ![i] = "claimed"]
  /\ phase' = [phase EXCEPT ![d] = "granted"] /\ current[d] = i
  /\ UNCHANGED <<current, runs, rows, owns>>

LEMMA GrantKeepsTakes ==
  ASSUME TypeInv, TakeInv, NEW d \in Daemons, NEW i \in Intents, GrantedTo(d, i)
  PROVE  TakeInv'
<1>1. ~Taken(i) /\ ~Performed(i)
  BY DEF GrantedTo, TakeInv, Untouched, Taken
<1>2. \A e \in Daemons : ~Has(e, i)
  BY <1>1 DEF TakeInv, HasTaken
<1>3. \A e \in Daemons : Has(e, i)' => e = d
  BY <1>2 DEF Has, GrantedTo, TypeInv, TypeOK
<1>4. \A e \in Daemons, j \in Intents \ {i} : Has(e, j)' => Has(e, j)
  BY DEF Has, GrantedTo, TypeInv, TypeOK
<1>5. \A j \in Intents : Performed(j)' <=> Performed(j)
  BY DEF GrantedTo, Performed
<1>6. Taken(i)' /\ \A j \in Intents : Taken(j) => Taken(j)'
  BY DEF GrantedTo, Taken, TypeInv, TypeOK
<1>7. HasTaken' /\ HasAlone' /\ Untouched'
  BY <1>3, <1>4, <1>5, <1>6 DEF TakeInv, HasTaken, HasAlone, Untouched
<1>8. NotYet'
  BY <1>1, <1>5 DEF TakeInv, NotYet, GrantedTo, TypeInv, TypeOK
<1>9. AtMostOnce'
  BY DEF TakeInv, AtMostOnce, GrantedTo
<1>10. QED
  BY <1>7, <1>8, <1>9 DEF TakeInv

(* A drain performs what it has.                                           *)
PerformedBy(d, i) ==
  /\ phase[d] \in Ahead /\ current[d] = i /\ Performs(d, i)
  /\ \E p \in Owning \ Ahead : phase' = [phase EXCEPT ![d] = p]
  /\ UNCHANGED <<current, status>>

LEMMA PerformanceKeepsTakes ==
  ASSUME TypeInv, TakeInv, NEW d \in Daemons, NEW i \in Intents, PerformedBy(d, i)
  PROVE  TakeInv'
<1>1. ~Performed(i)
  BY DEF PerformedBy, TakeInv, NotYet
<1>2. \A e \in Daemons : runs[<<e, i>>] = 0
  BY <1>1, NothingPerformed
<1>3. <<d, i>> \in Drains /\ runs \in [Drains -> Nat] /\ runs' = [runs EXCEPT ![<<d, i>>] = @ + 1]
  BY DEF Drains, TypeInv, TypeOK, PerformedBy, Performs
<1>4. runs'[<<d, i>>] = 1 /\ \A q \in Drains : q # <<d, i>> => runs'[q] = runs[q]
  BY <1>2, <1>3
<1>5. \A e \in Daemons, j \in Intents : Has(e, j)' <=> Has(e, j)
  BY DEF PerformedBy, Has, Ahead, Owning, TypeInv, TypeOK
<1>6. \A j \in Intents \ {i} : Performed(j)' <=> Performed(j)
  BY <1>4 DEF Performed, Drains
<1>7. HasTaken' /\ HasAlone'
  BY <1>5 DEF TakeInv, HasTaken, HasAlone, Taken, PerformedBy
<1>8. Has(d, i)
  BY DEF PerformedBy, Has, Ahead, Owning
<1>9. Untouched'
  BY <1>6, <1>8 DEF TakeInv, HasTaken, Untouched, Taken, PerformedBy
<1>10. NotYet'
  <2>1. ASSUME NEW e \in Daemons, NEW j \in Intents, phase'[e] \in Ahead, current'[e] = j
        PROVE  ~Performed(j)'
    <3>1. e # d
      BY <2>1 DEF PerformedBy, TypeInv, TypeOK
    <3>2. phase[e] \in Ahead /\ current[e] = j
      BY <2>1, <3>1 DEF PerformedBy, TypeInv, TypeOK
    <3>3. j # i
      BY <1>8, <3>1, <3>2 DEF TakeInv, HasAlone, Has, Ahead, Owning
    <3>4. QED
      BY <1>6, <3>2, <3>3 DEF TakeInv, NotYet
  <2>2. QED
    BY <2>1 DEF NotYet
<1>11. AtMostOnce'
  <2>1. ASSUME NEW p \in Drains, NEW q \in Drains, p[2] = q[2], runs'[p] > 0, runs'[q] > 0
        PROVE  p = q /\ runs'[p] = 1
    <3>1. CASE p[2] = i
      <4>1. \A r \in Drains : r[2] = i /\ r # <<d, i>> => runs'[r] = 0
        BY <1>2, <1>4 DEF Drains
      <4>2. p = <<d, i>>
        <5>1. p # <<d, i>> => runs'[p] = 0
          BY <2>1, <3>1, <4>1
        <5>2. QED
          BY <2>1, <5>1
      <4>3. q = <<d, i>>
        <5>1. q # <<d, i>> => runs'[q] = 0
          BY <2>1, <3>1, <4>1
        <5>2. QED
          BY <2>1, <5>1
      <4>4. QED
        BY <1>4, <4>2, <4>3
    <3>2. CASE p[2] # i
      <4>1. runs'[p] = runs[p] /\ runs'[q] = runs[q]
        BY <1>4, <2>1, <3>2
      <4>2. QED
        BY <2>1, <4>1 DEF TakeInv, AtMostOnce
    <3>3. QED
      BY <3>1, <3>2
  <2>2. QED
    BY <2>1 DEF AtMostOnce
<1>12. QED
  BY <1>7, <1>9, <1>10, <1>11 DEF TakeInv

-----------------------------------------------------------------------------
(***************************************************************************)
(* The steps, by what they do to what is taken and performed.              *)
(***************************************************************************)

(* Most do nothing to it: a drain lets go of what it has, keeps it, fails  *)
(* at it, or learns that its turn has ended.                               *)
Still ==
  /\ UNCHANGED <<status, runs, rows>> /\ \A d \in Daemons : owns'[d] \subseteq owns[d]
  /\ \A d \in Daemons :
       \/ phase'[d] \notin Owning
       \/ /\ current'[d] = current[d] /\ phase[d] \in Owning
          /\ \/ phase'[d] \in {phase[d], "failed"}
             \/ phase[d] = "turn" /\ phase'[d] = "acking"

(* A drain is done with its intent, which is confirmed.                    *)
Confirmed(d) ==
  /\ phase[d] = "acking" /\ phase'[d] \in {"idle", "claiming"}
  /\ \A e \in Daemons \ {d} : phase'[e] = phase[e] /\ current'[e] = current[e]
  /\ status' = [status EXCEPT ![current[d]] = IF @ = "claimed" THEN "delivered" ELSE @]
  /\ UNCHANGED <<runs, rows, owns>>

LEMMA LetsGoIsStill ==
  ASSUME TypeInv, NEW d \in Daemons, NEW S \in SUBSET Intents, NEW left \in SUBSET Intents,
         Continue(d, S, left), UNCHANGED <<status, runs, rows, owns>>
  PROVE  Still
<1>1. /\ phase'[d] \in {"idle", "claiming"}
      /\ \A e \in Daemons \ {d} : phase'[e] = phase[e] /\ current'[e] = current[e]
  BY DrainTyped, ContinueLetsGo
<1>2. QED
  BY <1>1 DEF Still, Owning

LEMMA CallsAndWorks ==
  ASSUME TypeInv, NEW d \in Daemons, Call(d) \/ Work(d)
  PROVE  \/ Still \/ Confirmed(d) \/ \E i \in Intents : GrantedTo(d, i)
         \/ Execute(d) \/ CreateBinds(d) \/ CreateEnds(d)
<1>1. todo[d] \in SUBSET Intents /\ {} \in SUBSET Intents
  BY DEF TypeInv, TypeOK
<1>2. CASE ClaimServed(d)
  <2>1. current[d] \in Intents
    BY <1>2 DEF ClaimServed, TypeInv, HoldsIntent, Holding
  <2>2. CASE Claimable(current[d])
    BY <1>2, <2>1, <2>2 DEF ClaimServed, Claimable, GrantedTo, lifeVars, TypeInv, TypeOK
  <2>3. CASE ~Claimable(current[d])
    <3>1. phase' = [phase EXCEPT ![d] = "refused"] /\ UNCHANGED <<current, runs, rows, owns>>
      BY <1>2, <2>3 DEF ClaimServed, lifeVars
    <3>2. status' = status
      BY <1>2, <2>1, <2>3 DEF ClaimServed, TypeInv, TypeOK
    <3>3. QED
      BY <3>1, <3>2 DEF Still, Owning, TypeInv, TypeOK
  <2>4. QED
    BY <2>1, <2>2, <2>3
<1>3. CASE ClaimFails(d)
  <2>1. {current[d]} \in SUBSET Intents
    BY <1>3 DEF ClaimFails, TypeInv, HoldsIntent, Holding
  <2>2. QED
    BY <1>1, <1>3, <2>1, LetsGoIsStill DEF ClaimFails, queueVars, lifeVars
<1>4. CASE AckServed(d)
  BY <1>1, <1>4, DrainTyped, ContinueLetsGo DEF AckServed, Confirmed, lifeVars
<1>5. CASE AckFails(d) \/ Refuse(d) \/ CreateFails(d)
  BY <1>1, <1>5, LetsGoIsStill DEF AckFails, Refuse, CreateFails, queueVars, lifeVars
<1>6. QED
  BY <1>2, <1>3, <1>4, <1>5 DEF Call, Work

LEMMA OthersAreStill ==
  ASSUME TypeInv,
         \/ \E d \in Daemons : Poll(d) \/ Pulled(d) \/ PullFails(d) \/ GoesOn(d) \/ Life(d)
         \/ \E d \in Daemons, a \in Agents : ClientPrompt(d, a) \/ HostDies(d, a)
         \/ \E a \in Agents : Ask(a) \/ Close(a) \/ TurnEnds(a)
         \/ \E d \in Daemons, v \in Devices : Revoke(d, v)
         \/ UNCHANGED vars
  PROVE  Still
<1>1. \A d \in Daemons : Emptied(d) => rows' = rows /\ \A e \in Daemons : owns'[e] \subseteq owns[e]
  BY DEF Emptied, TypeInv, TypeOK
<1>2. ASSUME UNCHANGED <<status, phase, current, runs, rows>>,
             \A d \in Daemons : owns'[d] \subseteq owns[d]
      PROVE  Still
  BY <1>2 DEF Still
<1>3. ASSUME NEW d \in Daemons, Pulled(d) \/ GoesOn(d)
      PROVE  Still
  <2>1. \E S \in SUBSET Intents : Continue(d, S, {})
    BY <1>3 DEF Pulled, GoesOn, TypeInv, TypeOK
  <2>2. QED
    BY <1>3, <2>1, LetsGoIsStill DEF Pulled, GoesOn, queueVars, lifeVars
<1>4. ASSUME NEW d \in Daemons, Poll(d) \/ PullFails(d) \/ Crash(d)
      PROVE  Still
  <2>1. \E p \in {"idle", "pulling"} : phase' = [phase EXCEPT ![d] = p]
    BY <1>4 DEF Poll, PullFails, Crash
  <2>2. current' = current \/ current' = [current EXCEPT ![d] = None]
    BY <1>4 DEF Poll, PullFails, Crash
  <2>3. UNCHANGED <<status, runs, rows>> /\ \A e \in Daemons : owns'[e] \subseteq owns[e]
    BY <1>1, <1>4 DEF Poll, PullFails, Crash, queueVars, lifeVars
  <2>4. QED
    BY <2>1, <2>2, <2>3 DEF Still, Owning, TypeInv, TypeOK
<1>5. ASSUME NEW d \in Daemons, Restart(d) \/ Stop(d) \/ StopReturns(d)
      PROVE  Still
  BY <1>1, <1>2, <1>5 DEF Restart, Stop, StopReturns, queueVars, drainVars
<1>6. ASSUME NEW a \in Agents, Ask(a) \/ Close(a)
      PROVE  Still
  BY <1>2, <1>6 DEF Ask, Close, queueVars, drainVars, lifeVars
<1>7. ASSUME NEW d \in Daemons, NEW p \in {"failed", "acking"}, phase[d] = "turn", Sleeps(d, p),
             UNCHANGED <<status, runs, rows>>, \A e \in Daemons : owns'[e] \subseteq owns[e]
      PROVE  Still
  BY <1>7 DEF Sleeps, Still, Owning, TypeInv, TypeOK
<1>8. ASSUME NEW a \in Agents, TurnEnds(a)
      PROVE  Still
  <2>1. UNCHANGED <<status, runs, rows>> /\ \A e \in Daemons : owns'[e] \subseteq owns[e]
    BY <1>8 DEF TurnEnds, queueVars, lifeVars
  <2>2. CASE UNCHANGED drainVars
    BY <1>2, <2>1, <2>2 DEF drainVars
  <2>3. CASE \E d \in Daemons : Awaits(d, a) /\ Sleeps(d, "acking")
    BY <1>7, <2>1, <2>3 DEF Awaits
  <2>4. QED
    BY <1>8, <2>2, <2>3 DEF TurnEnds
<1>9. ASSUME NEW d \in Daemons, NEW a \in Agents, HostDies(d, a)
      PROVE  Still
  <2>1. UNCHANGED <<status, runs, rows>> /\ \A e \in Daemons : owns'[e] \subseteq owns[e]
    BY <1>9 DEF HostDies, queueVars, TypeInv, TypeOK
  <2>2. CASE UNCHANGED drainVars
    BY <1>2, <2>1, <2>2 DEF drainVars
  <2>3. CASE Awaits(d, a) /\ Sleeps(d, "failed")
    BY <1>7, <2>1, <2>3 DEF Awaits
  <2>4. QED
    BY <1>9, <2>2, <2>3 DEF HostDies
<1>10. ASSUME NEW d \in Daemons, NEW x, ClientPrompt(d, x) \/ Revoke(d, x)
       PROVE  Still
  BY <1>2, <1>10 DEF ClientPrompt, Revoke, queueVars, drainVars, lifeVars
<1>11. CASE UNCHANGED vars
  BY <1>2, <1>11 DEF vars, queueVars, drainVars, lifeVars
<1>12. QED
  BY <1>3, <1>4, <1>5, <1>6, <1>8, <1>9, <1>10, <1>11 DEF Life

(* Every step is still, or one of six.                                     *)
LEMMA Steps ==
  ASSUME TypeInv, [Next]_vars
  PROVE  \/ Still
         \/ \E i \in Intents, n \in 0..QuestionBound : Enqueue(i, n)
         \/ \E d \in Daemons : \/ \E i \in Intents : GrantedTo(d, i)
                               \/ Execute(d) \/ CreateBinds(d) \/ CreateEnds(d) \/ Confirmed(d)
BY CallsAndWorks, OthersAreStill DEF Next, Drain

-----------------------------------------------------------------------------
(***************************************************************************)
(* At most once.                                                           *)
(***************************************************************************)
LEMMA SleepsQuietly ==
  ASSUME TypeInv, NEW d \in Daemons, NEW p \in {"creating", "opening", "acking"},
         Sleeps(d, p), phase[d] \in Ahead, UNCHANGED <<status, runs>>
  PROVE  Quiet
BY DEF Sleeps, Quiet, Taken, Owning, Ahead, TypeInv, TypeOK

LEMMA WorkOfTakes ==
  ASSUME TypeInv, NEW d \in Daemons, Execute(d) \/ CreateBinds(d) \/ CreateEnds(d)
  PROVE  \/ Quiet
         \/ current[d] \in Intents /\ PerformedBy(d, current[d])
<1> DEFINE i == current[d]
<1>1. i \in Intents /\ status' = status
  BY DEF Execute, CreateBinds, CreateEnds, TypeInv, HoldsIntent, Holding, queueVars
<1>2. CASE CreateBinds(d)
  BY <1>2, SleepsQuietly DEF CreateBinds, Ahead, queueVars
<1>3. CASE CreateEnds(d)
  BY <1>1, <1>3 DEF CreateEnds, PerformedBy, Sleeps, Owning, Ahead
<1>4. CASE Execute(d) /\ (Prompt(d, i) \/ Cancel(d, i) \/ Decide(d, i))
  BY <1>1, <1>4 DEF Execute, Prompt, Cancel, Decide, PerformedBy, Sleeps, Owning, Ahead
<1>5. CASE Execute(d) /\ Create(d, i)
  BY <1>1, <1>5, SleepsQuietly DEF Execute, Create, Ahead
<1>6. QED
  BY <1>2, <1>3, <1>4, <1>5 DEF Execute

LEMMA StillIsQuiet == Still => Quiet
BY DEF Still, Quiet, Taken, Ahead, Owning

LEMMA QueueIsQuiet ==
  ASSUME TypeInv,
         \/ \E i \in Intents, n \in 0..QuestionBound : Enqueue(i, n)
         \/ \E d \in Daemons : Confirmed(d)
  PROVE  Quiet
<1>1. ASSUME NEW i \in Intents, NEW n \in 0..QuestionBound, Enqueue(i, n)
      PROVE  Quiet
  BY <1>1 DEF Enqueue, drainVars, Quiet, Taken, TypeInv, TypeOK
<1>2. ASSUME NEW d \in Daemons, Confirmed(d)
      PROVE  Quiet
  <2>1. \A i \in Intents : Taken(i) => Taken(i)'
    BY <1>2 DEF Confirmed, Taken, TypeInv, TypeOK
  <2>2. QED
    BY <1>2, <2>1 DEF Confirmed, Quiet, Owning
<1>3. QED
  BY <1>1, <1>2

LEMMA StepsOfTakes ==
  ASSUME TypeInv, [Next]_vars
  PROVE  Quiet \/ \E d \in Daemons, i \in Intents : GrantedTo(d, i) \/ PerformedBy(d, i)
BY Steps, StillIsQuiet, QueueIsQuiet, WorkOfTakes

LEMMA TakeStep == TypeInv /\ TakeInv /\ [Next]_vars => TakeInv'
BY StepsOfTakes, QuietKeepsTakes, GrantKeepsTakes, PerformanceKeepsTakes

(* An intent takes effect at most once, over any number of daemons, lost   *)
(* calls and crashes.                                                      *)
THEOREM TakesEffectOnce == Spec => []AtMostOnce
<1>1. TakeInv => AtMostOnce
  BY DEF TakeInv
<1>2. QED
  BY <1>1, TypeInit, TypeStep, TakeInit, TakeStep, PTL DEF Spec

-----------------------------------------------------------------------------
(***************************************************************************)
(* Where an agent lives, and the ledger.                                   *)
(***************************************************************************)

(* An agent has a row at one daemon at most, and a host only where it has  *)
(* a row; one that is to be created has none before its drain writes it,   *)
(* and no host before the creation is done.  A drain acknowledges only     *)
(* what it has performed, and only that is confirmed.                      *)
Births    == {k \in Intents : ActionOf[k] = "new-agent"}
Unborn(k) == ~Taken(k) \/ \E e \in Daemons : phase[e] \in {"granted", "creating"} /\ current[e] = k
OneHome   == \A d, e \in Daemons : \A a \in rows[d] \cap rows[e] : d = e
Housed    == \A d \in Daemons : owns[d] \subseteq rows[d]
FreshIds  == \A k \in Births : Unborn(k) => \A d \in Daemons : AgentOf[k] \notin rows[d]
Creates   == \A d \in Daemons :
               /\ phase[d] \in {"creating", "opening"} => current[d] \in Births
               /\ phase[d] = "opening" => AgentOf[current[d]] \in rows[d]
Born      == \A d \in Daemons, k \in Births : AgentOf[k] \in owns[d] => Performed(k)
Done      == \A d \in Daemons : phase[d] \in {"turn", "acking"} => Performed(current[d])

Served    == \A i \in Intents : status[i] = "delivered" => Performed(i)

HomeInv == OneHome /\ Housed /\ FreshIds /\ Creates /\ Born /\ Done /\ Served

LEMMA HomeInit == Init => HomeInv
<1> SUFFICES ASSUME Init PROVE HomeInv
  OBVIOUS
<1>1. PICK home \in [Agents \ Reserved -> Daemons] :
        rows = [d \in Daemons |-> {a \in Agents \ Reserved : home[a] = d}]
  BY DEF Init
<1>2. \A k \in Births : AgentOf[k] \in Reserved
  BY DEF Births, Reserved
<1>3. owns = rows
  BY DEF Init
<1>4. \A d \in Daemons : \A a \in rows[d] : a \notin Reserved /\ home[a] = d
  BY <1>1
<1>5. OneHome /\ Housed /\ FreshIds /\ Born
  BY <1>2, <1>3, <1>4 DEF OneHome, Housed, FreshIds, Born
<1>6. Creates /\ Done /\ Served
  BY DEF Init, Creates, Done, Served
<1>7. QED
  BY <1>5, <1>6 DEF HomeInv

(* A step that moves nobody in: it may grant a claim or perform, but what  *)
(* is created is created by nobody else.                                   *)
MovesNobody ==
  /\ rows' = rows /\ \A d \in Daemons : owns'[d] \subseteq owns[d]
  /\ \A i \in Intents : /\ (Performed(i) => Performed(i)') /\ (Unborn(i)' => Unborn(i))
                        /\ status'[i] = "delivered" => status[i] = "delivered" \/ Performed(i)
  /\ \A d \in Daemons :
       phase'[d] \in {"creating", "opening", "turn", "acking"} =>
         /\ current'[d] = current[d]
         /\ \/ phase'[d] = phase[d] \/ (phase[d] = "turn" /\ phase'[d] = "acking")
            \/ phase'[d] \in {"turn", "acking"} /\ Performed(current[d])'
            \/ phase'[d] = "creating" /\ current[d] \in Births

LEMMA NobodyMoves ==
  ASSUME TypeInv, HomeInv, MovesNobody
  PROVE  HomeInv'
<1>1. OneHome' /\ Housed'
  BY DEF MovesNobody, HomeInv, OneHome, Housed
<1>2. FreshIds'
  BY DEF MovesNobody, HomeInv, FreshIds, Births
<1>3. Creates'
  BY DEF MovesNobody, HomeInv, Creates
<1>4. Born'
  BY DEF MovesNobody, HomeInv, Born, Births
<1>5. Done'
  <2>1. ASSUME NEW d \in Daemons, phase'[d] \in {"turn", "acking"}
        PROVE  Performed(current[d])' /\ current'[d] = current[d]
    <3>1. CASE phase[d] \in {"turn", "acking"}
      <4>1. current[d] \in Intents /\ Performed(current[d])
        BY <3>1 DEF HomeInv, Done, TypeInv, HoldsIntent, Holding
      <4>2. QED
        BY <2>1, <4>1 DEF MovesNobody
    <3>2. CASE phase[d] \notin {"turn", "acking"}
      BY <2>1, <3>2 DEF MovesNobody
    <3>3. QED
      BY <3>1, <3>2
  <2>2. QED
    BY <2>1 DEF Done
<1>6. Served'
  BY DEF MovesNobody, HomeInv, Served
<1>7. QED
  BY <1>1, <1>2, <1>3, <1>4, <1>5, <1>6 DEF HomeInv

LEMMA StillMovesNobody == Still => MovesNobody
<1> SUFFICES ASSUME Still PROVE MovesNobody
  OBVIOUS
<1>1. \A i \in Intents : (Performed(i) => Performed(i)') /\ (Taken(i)' <=> Taken(i))
  BY DEF Still, Performed, Taken
<1>2. \A i \in Intents : Unborn(i)' => Unborn(i)
  BY <1>1 DEF Still, Unborn, Owning
<1>3. QED
  BY <1>1, <1>2 DEF Still, MovesNobody, Owning

LEMMA QueueMovesNobody ==
  ASSUME TypeInv, HomeInv,
         \/ \E i \in Intents, n \in 0..QuestionBound : Enqueue(i, n)
         \/ \E d \in Daemons : Confirmed(d) \/ \E i \in Intents : GrantedTo(d, i)
  PROVE  MovesNobody
<1>1. runs' = runs => \A i \in Intents : Performed(i) => Performed(i)'
  BY DEF Performed
<1>2. ASSUME NEW i \in Intents, NEW n \in 0..QuestionBound, Enqueue(i, n)
      PROVE  MovesNobody
  <2>1. UNCHANGED <<phase, current, rows, owns, runs>>
    BY <1>2 DEF Enqueue, drainVars, lifeVars
  <2>2. \A j \in Intents : /\ Taken(j) => Taken(j)'
                           /\ status'[j] = "delivered" => status[j] = "delivered"
    BY <1>2 DEF Enqueue, Taken, TypeInv, TypeOK
  <2>3. QED
    BY <1>1, <2>1, <2>2 DEF MovesNobody, Unborn
<1>3. ASSUME NEW d \in Daemons, Confirmed(d)
      PROVE  MovesNobody
  <2>1. \A i \in Intents : Taken(i) => Taken(i)'
    BY <1>3 DEF Confirmed, Taken, TypeInv, TypeOK
  <2>2. \A i \in Intents : Unborn(i)' => Unborn(i)
    BY <1>3, <2>1 DEF Confirmed, Unborn
  <2>3. current[d] \in Intents /\ Performed(current[d])
    BY <1>3 DEF Confirmed, HomeInv, Done, TypeInv, HoldsIntent, Holding
  <2>4. \A i \in Intents : status'[i] = "delivered" => status[i] = "delivered" \/ Performed(i)
    BY <1>3, <2>3 DEF Confirmed, TypeInv, TypeOK
  <2>5. QED
    BY <1>1, <1>3, <2>2, <2>4 DEF Confirmed, MovesNobody
<1>4. ASSUME NEW d \in Daemons, NEW i \in Intents, GrantedTo(d, i)
      PROVE  MovesNobody
  <2>1. ~Taken(i) /\ \A j \in Intents : Taken(j) => Taken(j)'
    BY <1>4 DEF GrantedTo, Taken, TypeInv, TypeOK
  <2>2. \A e \in Daemons \ {d} : phase'[e] = phase[e] /\ current'[e] = current[e]
    BY <1>4 DEF GrantedTo, TypeInv, TypeOK
  <2>3. phase'[d] = "granted" /\ current'[d] = i
    BY <1>4 DEF GrantedTo, TypeInv, TypeOK
  <2>4. ASSUME NEW j \in Intents, Unborn(j)', Taken(j)
        PROVE  Unborn(j)
    <3>1. j # i
      BY <2>1, <2>4
    <3>2. PICK e \in Daemons : phase'[e] \in {"granted", "creating"} /\ current'[e] = j
      BY <2>1, <2>4 DEF Unborn
    <3>3. e # d
      BY <2>3, <3>1, <3>2
    <3>4. QED
      BY <2>2, <3>2, <3>3 DEF Unborn
  <2>5. \A j \in Intents : Unborn(j)' => Unborn(j)
    BY <2>4 DEF Unborn
  <2>6. \A e \in Daemons : phase'[e] \in {"creating", "opening", "turn", "acking"} =>
                             phase'[e] = phase[e] /\ current'[e] = current[e]
    BY <2>2, <2>3
  <2>7. /\ runs' = runs /\ rows' = rows /\ owns' = owns
        /\ \A j \in Intents : status'[j] = "delivered" => status[j] = "delivered"
    BY <1>4 DEF GrantedTo, TypeInv, TypeOK
  <2>8. QED
    BY <1>1, <2>5, <2>6, <2>7 DEF MovesNobody
<1>5. QED
  BY <1>2, <1>3, <1>4

(* A performance, and nothing undoes it.                                   *)
LEMMA PerformedStays ==
  ASSUME TypeInv, NEW d \in Daemons, NEW i \in Intents, Performs(d, i)
  PROVE  /\ Performed(i)' /\ \A j \in Intents : Performed(j) => Performed(j)'
         /\ \A j \in Intents \ {i} : Performed(j)' => Performed(j)
<1>1. <<d, i>> \in Drains /\ runs \in [Drains -> Nat] /\ runs' = [runs EXCEPT ![<<d, i>>] = @ + 1]
  BY DEF Drains, TypeInv, TypeOK, Performs
<1>2. runs'[<<d, i>>] = runs[<<d, i>>] + 1 /\ runs[<<d, i>>] \in Nat
  BY <1>1
<1>3. runs'[<<d, i>>] > 0
  BY <1>2
<1>4. \A e \in Daemons, j \in Intents : <<e, j>> # <<d, i>> => runs'[<<e, j>>] = runs[<<e, j>>]
  BY <1>1 DEF Drains
<1>5. \A e \in Daemons, j \in Intents : runs[<<e, j>>] > 0 => runs'[<<e, j>>] > 0
  BY <1>3, <1>4
<1>6. QED
  BY <1>3, <1>4, <1>5 DEF Performed

LEMMA ExecuteMovesNobody ==
  ASSUME TypeInv, TakeInv, HomeInv, NEW d \in Daemons, Execute(d)
  PROVE  MovesNobody
<1> DEFINE i == current[d]
<1>1. i \in Intents /\ phase[d] = "granted" /\ UNCHANGED <<status, rows, owns, current>>
  BY DEF Execute, TypeInv, HoldsIntent, Holding, queueVars, lifeVars, Prompt, Cancel, Decide,
         Create, Sleeps
<1>2. \A p : Sleeps(d, p) => phase' = [phase EXCEPT ![d] = p]
  BY DEF Sleeps
<1>3. ASSUME NEW p \in {"turn", "acking", "creating"}, phase' = [phase EXCEPT ![d] = p]
      PROVE  /\ phase'[d] = p /\ \A e \in Daemons \ {d} : phase'[e] = phase[e]
             /\ \A j \in Intents : Unborn(j)' => Unborn(j)
  <2>1. phase'[d] = p /\ \A e \in Daemons \ {d} : phase'[e] = phase[e]
    BY <1>3 DEF TypeInv, TypeOK
  <2>2. \A j \in Intents : Taken(j)' <=> Taken(j)
    BY <1>1 DEF Taken
  <2>3. \A e \in Daemons : phase'[e] \in {"granted", "creating"} => phase[e] \in {"granted", "creating"}
    BY <1>1, <2>1
  <2>4. \A j \in Intents : Unborn(j)' => Unborn(j)
    BY <1>1, <2>2, <2>3 DEF Unborn
  <2>5. QED
    BY <2>1, <2>4
<1>4. CASE Prompt(d, i) \/ Cancel(d, i) \/ Decide(d, i)
  <2>1. PICK p \in {"turn", "acking"} : phase' = [phase EXCEPT ![d] = p]
    BY <1>2, <1>4 DEF Prompt, Cancel, Decide
  <2>2. Performed(i)' /\ \A j \in Intents : Performed(j) => Performed(j)'
    BY <1>1, <1>4, PerformedStays DEF Prompt, Cancel, Decide
  <2>3. /\ phase'[d] = p /\ \A e \in Daemons \ {d} : phase'[e] = phase[e]
        /\ \A j \in Intents : Unborn(j)' => Unborn(j)
    BY <1>3, <2>1
  <2>4. current' = current /\ Performed(current[d])'
    BY <1>1, <2>2 DEF Performed
  <2>5. QED
    BY <1>1, <2>2, <2>3, <2>4 DEF MovesNobody
<1>5. CASE Create(d, i)
  <2>1. ~Performed(i) /\ i \in Births
    BY <1>1, <1>5 DEF TakeInv, NotYet, Ahead, Create, Births, Execute
  <2>2. AgentOf[i] \notin owns[d]
    BY <2>1 DEF HomeInv, Born
  <2>3. phase' = [phase EXCEPT ![d] = "creating"] /\ runs' = runs
    BY <1>2, <1>5, <2>2 DEF Create
  <2>4. \A j \in Intents : Performed(j) => Performed(j)'
    BY <2>3 DEF Performed
  <2>5. /\ phase'[d] = "creating" /\ \A e \in Daemons \ {d} : phase'[e] = phase[e]
        /\ \A j \in Intents : Unborn(j)' => Unborn(j)
    BY <1>3, <2>3
  <2>6. QED
    BY <1>1, <2>1, <2>4, <2>5 DEF MovesNobody
<1>6. QED
  BY <1>4, <1>5 DEF Execute

(* An agent is given its row, which nobody else had or will give it.       *)
LEMMA BindingKeepsHomes ==
  ASSUME TypeInv, TakeInv, HomeInv, NEW d \in Daemons, CreateBinds(d)
  PROVE  HomeInv'
<1> DEFINE i == current[d]
           a == AgentOf[i]
<1>1. /\ phase[d] = "creating" /\ i \in Births /\ i \in Intents
      /\ UNCHANGED <<status, runs, owns, current>>
      /\ rows' = [rows EXCEPT ![d] = @ \cup {a}] /\ phase' = [phase EXCEPT ![d] = "opening"]
  BY DEF CreateBinds, Sleeps, HomeInv, Creates, Births, queueVars
<1>2. Unborn(i) /\ \A e \in Daemons : a \notin rows[e]
  BY <1>1 DEF Unborn, HomeInv, FreshIds
<1>3. \A e \in Daemons : rows'[e] = IF e = d THEN rows[e] \cup {a} ELSE rows[e]
  BY <1>1 DEF TypeInv, TypeOK
<1>4. \A e \in Daemons : phase'[e] = IF e = d THEN "opening" ELSE phase[e]
  BY <1>1 DEF TypeInv, TypeOK
<1>5. \A k \in Intents : Performed(k)' <=> Performed(k)
  BY <1>1 DEF Performed
<1>6. OneHome'
  <2>1. ASSUME NEW e \in Daemons, NEW f \in Daemons, NEW x \in rows'[e] \cap rows'[f]
        PROVE  e = f
    <3>1. CASE x = a
      BY <1>2, <1>3, <2>1, <3>1
    <3>2. CASE x # a
      <4>1. x \in rows[e] /\ x \in rows[f]
        BY <1>3, <2>1, <3>2
      <4>2. QED
        BY <4>1 DEF HomeInv, OneHome
    <3>3. QED
      BY <3>1, <3>2
  <2>2. QED
    BY <2>1 DEF OneHome
<1>7. Housed'
  BY <1>1, <1>3 DEF HomeInv, Housed
<1>8. FreshIds'
  <2>1. ~Unborn(i)'
    <3>1. Taken(i)'
      BY <1>1 DEF TakeInv, HasTaken, Has, Owning, Taken
    <3>2. \A e \in Daemons : phase'[e] \in {"granted", "creating"} => e # d /\ phase[e] = phase'[e]
      BY <1>4
    <3>3. \A e \in Daemons : phase[e] \in {"granted", "creating"} /\ current[e] = i => e = d
      BY <1>1 DEF TakeInv, HasAlone, Has, Owning
    <3>4. QED
      BY <1>1, <3>1, <3>2, <3>3 DEF Unborn
  <2>2. ASSUME NEW k \in Births, Unborn(k)'
        PROVE  \A e \in Daemons : AgentOf[k] \notin rows'[e]
    <3>1. k # i /\ AgentOf[k] # a
      BY <1>1, <2>1, <2>2, IntentsAssumption DEF IntentsAssumption, Births
    <3>2. Unborn(k)
      BY <1>1, <1>4, <2>2 DEF Unborn, Taken
    <3>3. QED
      BY <1>3, <3>1, <3>2 DEF HomeInv, FreshIds
  <2>3. QED
    BY <2>2 DEF FreshIds, Births
<1>9. Creates'
  BY <1>1, <1>3, <1>4 DEF HomeInv, Creates, Births
<1>10. Born'
  BY <1>1, <1>5 DEF HomeInv, Born, Births
<1>11. Done'
  <2>1. ASSUME NEW e \in Daemons, phase'[e] \in {"turn", "acking"}
        PROVE  Performed(current[e])'
    <3>1. phase[e] \in {"turn", "acking"} /\ current[e] \in Intents /\ current'[e] = current[e]
      BY <1>1, <1>4, <2>1 DEF TypeInv, HoldsIntent, Holding
    <3>2. Performed(current[e])
      BY <3>1 DEF HomeInv, Done
    <3>3. QED
      BY <1>1, <3>1, <3>2 DEF Performed
  <2>2. QED
    BY <2>1 DEF Done
<1>12. Served'
  BY <1>1, <1>5 DEF HomeInv, Served
<1>13. QED
  BY <1>6, <1>7, <1>8, <1>9, <1>10, <1>11, <1>12 DEF HomeInv

(* It is given its host, where it has its row.                             *)
LEMMA OpeningKeepsHomes ==
  ASSUME TypeInv, TakeInv, HomeInv, NEW d \in Daemons, CreateEnds(d)
  PROVE  HomeInv'
<1> DEFINE i == current[d]
           a == AgentOf[i]
<1>1. /\ phase[d] = "opening" /\ i \in Births /\ i \in Intents /\ a \in rows[d]
      /\ UNCHANGED <<status, rows, current>> /\ Performs(d, i)
      /\ owns' = [owns EXCEPT ![d] = @ \cup {a}] /\ phase' = [phase EXCEPT ![d] = "acking"]
  BY DEF CreateEnds, Sleeps, HomeInv, Creates, Births, queueVars
<1>2. Performed(i)' /\ \A j \in Intents : Performed(j) => Performed(j)'
  BY <1>1, PerformedStays
<1>3. \A e \in Daemons : owns'[e] = IF e = d THEN owns[e] \cup {a} ELSE owns[e]
  BY <1>1 DEF TypeInv, TypeOK
<1>4. \A e \in Daemons : phase'[e] = IF e = d THEN "acking" ELSE phase[e]
  BY <1>1 DEF TypeInv, TypeOK
<1>5. OneHome' /\ Housed'
  BY <1>1, <1>3 DEF HomeInv, OneHome, Housed
<1>6. FreshIds' /\ Creates'
  <2>1. \A k \in Intents : Unborn(k)' => Unborn(k)
    BY <1>1, <1>4 DEF Unborn, Taken
  <2>2. FreshIds'
    BY <1>1, <2>1 DEF HomeInv, FreshIds, Births
  <2>3. Creates'
    BY <1>1, <1>4 DEF HomeInv, Creates, Births
  <2>4. QED
    BY <2>2, <2>3
<1>7. Born'
  <2>1. ASSUME NEW e \in Daemons, NEW k \in Births, AgentOf[k] \in owns'[e]
        PROVE  Performed(k)'
    <3>1. CASE k = i
      BY <1>1, <1>2, <3>1 DEF Performed
    <3>2. CASE k # i
      <4>1. AgentOf[k] # a
        BY <1>1, <3>2, IntentsAssumption DEF IntentsAssumption, Births
      <4>2. AgentOf[k] \in owns[e] /\ k \in Intents
        BY <1>3, <2>1, <4>1 DEF Births
      <4>3. QED
        BY <1>2, <4>2 DEF HomeInv, Born
    <3>3. QED
      BY <3>1, <3>2
  <2>2. QED
    BY <2>1 DEF Born, Births
<1>8. Done'
  <2>1. ASSUME NEW e \in Daemons, phase'[e] \in {"turn", "acking"}
        PROVE  Performed(current[e])'
    <3>1. CASE e = d
      <4>1. current' = current
        BY <1>1
      <4>2. QED
        BY <1>2, <3>1, <4>1 DEF Performed
    <3>2. CASE e # d
      <4>1. phase[e] \in {"turn", "acking"} /\ current[e] \in Intents /\ current'[e] = current[e]
        BY <1>1, <1>4, <2>1, <3>2 DEF TypeInv, HoldsIntent, Holding
      <4>2. Performed(current[e])
        BY <4>1 DEF HomeInv, Done
      <4>3. QED
        BY <1>2, <4>1, <4>2 DEF Performed
    <3>3. QED
      BY <3>1, <3>2
  <2>2. QED
    BY <2>1 DEF Done
<1>9. Served'
  BY <1>1, <1>2 DEF HomeInv, Served
<1>10. QED
  BY <1>5, <1>6, <1>7, <1>8, <1>9 DEF HomeInv

LEMMA HomeStep == TypeInv /\ TakeInv /\ HomeInv /\ [Next]_vars => HomeInv'
<1> SUFFICES ASSUME TypeInv, TakeInv, HomeInv, [Next]_vars PROVE HomeInv'
  OBVIOUS
<1>1. CASE MovesNobody
  BY <1>1, NobodyMoves
<1>2. CASE \E d \in Daemons : CreateBinds(d) \/ CreateEnds(d)
  BY <1>2, BindingKeepsHomes, OpeningKeepsHomes
<1>3. QED
  BY <1>1, <1>2, Steps, StillMovesNobody, QueueMovesNobody, ExecuteMovesNobody

Fates == [i \in Intents |-> Fate(i)]

LEMMA LedgerInitially == Init => Ledger!LedgerInit
<1> SUFFICES ASSUME Init PROVE Ledger!LedgerInit
  OBVIOUS
<1>1. \A i \in Intents : Fate(i) = "absent"
  BY DEF Init, Fate
<1>2. QED
  BY <1>1 DEF Init, Ledger!LedgerInit, Drains

(* One fate changes, the way the ledger allows; the others stay.           *)
LEMMA OneFate ==
  ASSUME TypeInv, NEW i \in Intents,
         \A j \in Intents \ {i} : status'[j] = status[j] /\ (Performed(j)' <=> Performed(j))
  PROVE  Fates' = [Fates EXCEPT ![i] = Fate(i)']
<1>1. \A j \in Intents \ {i} : Fate(j)' = Fate(j)
  BY DEF Fate
<1>2. QED
  BY <1>1 DEF Fates

LEMMA SameFates ==
  ASSUME UNCHANGED <<status, runs>>
  PROVE  UNCHANGED Ledger!ledgerVars
<1>1. \A i \in Intents : Fate(i)' = Fate(i)
  BY DEF Fate, Performed
<1>2. QED
  BY <1>1 DEF Ledger!ledgerVars

LEMMA LedgerStep == TypeInv /\ TakeInv /\ HomeInv /\ [Next]_vars => [Ledger!LedgerNext]_(Ledger!ledgerVars)
<1> SUFFICES ASSUME TypeInv, TakeInv, HomeInv, [Next]_vars
             PROVE  Ledger!LedgerNext \/ UNCHANGED Ledger!ledgerVars
  OBVIOUS
<1>1. runs' = runs => \A i \in Intents : Performed(i)' <=> Performed(i)
  BY DEF Performed
<1>2. CASE Still
  BY <1>2, SameFates DEF Still
<1>3. ASSUME NEW i \in Intents, NEW n \in 0..QuestionBound, Enqueue(i, n)
      PROVE  Ledger!LedgerNext
  <2>1. status[i] = "none" /\ status' = [status EXCEPT ![i] = "pending"] /\ runs' = runs
    BY <1>3 DEF Enqueue
  <2>2. Fates' = [Fates EXCEPT ![i] = Fate(i)']
    BY <1>1, <2>1, OneFate DEF TypeInv, TypeOK
  <2>3. Fate(i) = "absent" /\ Fate(i)' = "recorded"
    BY <2>1 DEF Fate, TypeInv, TypeOK
  <2>4. Ledger!Record(i)
    BY <2>1, <2>2, <2>3 DEF Ledger!Record, Ledger!Moves, Fates
  <2>5. QED
    BY <2>4 DEF Ledger!LedgerNext
<1>4. ASSUME NEW d \in Daemons, NEW i \in Intents, GrantedTo(d, i)
      PROVE  Ledger!LedgerNext
  <2>1. status[i] = "pending" /\ status' = [status EXCEPT ![i] = "claimed"] /\ runs' = runs
    BY <1>4 DEF GrantedTo
  <2>2. Fates' = [Fates EXCEPT ![i] = Fate(i)']
    BY <1>1, <2>1, OneFate DEF TypeInv, TypeOK
  <2>3. ~Performed(i)'
    BY <1>1, <2>1 DEF TakeInv, Untouched, Taken
  <2>4. Fate(i) = "recorded" /\ Fate(i)' = "taken"
    BY <2>1, <2>3 DEF Fate, TypeInv, TypeOK
  <2>5. Ledger!Take(i)
    BY <2>1, <2>2, <2>4 DEF Ledger!Take, Ledger!Moves, Fates
  <2>6. QED
    BY <2>5 DEF Ledger!LedgerNext
<1>5. ASSUME NEW d \in Daemons, NEW i \in Intents, PerformedBy(d, i)
      PROVE  Ledger!LedgerNext
  <2>1. /\ status' = status /\ runs' = [runs EXCEPT ![<<d, i>>] = @ + 1]
        /\ Taken(i) /\ ~Performed(i)
    BY <1>5 DEF PerformedBy, Performs, TakeInv, HasTaken, NotYet, Has, Ahead, Owning
  <2>2. Performed(i)' /\ \A j \in Intents \ {i} : Performed(j)' <=> Performed(j)
    BY <1>5, PerformedStays DEF PerformedBy
  <2>3. Fates' = [Fates EXCEPT ![i] = Fate(i)']
    BY <2>1, <2>2, OneFate
  <2>4. CASE status[i] = "claimed"
    <3>1. Fate(i) = "taken" /\ Fate(i)' = "performed"
      BY <2>1, <2>2, <2>4 DEF Fate
    <3>2. Ledger!Perform(i)
      BY <2>1, <2>3, <3>1 DEF Ledger!Perform, Ledger!Moves, Fates
    <3>3. QED
      BY <3>2 DEF Ledger!LedgerNext
  <2>5. QED
    BY <2>1, <2>4 DEF Taken, HomeInv, Served
<1>6. ASSUME NEW d \in Daemons, Confirmed(d)
      PROVE  Ledger!LedgerNext \/ UNCHANGED Ledger!ledgerVars
  <2> DEFINE i == current[d]
  <2>1. /\ i \in Intents /\ Performed(i) /\ runs' = runs
        /\ status' = [status EXCEPT ![i] = IF @ = "claimed" THEN "delivered" ELSE @]
    BY <1>6 DEF Confirmed, HomeInv, Done, TypeInv, HoldsIntent, Holding
  <2> HIDE DEF i
  <2>2. CASE status[i] # "claimed"
    <3>1. status' = status
      BY <2>1, <2>2 DEF TypeInv, TypeOK
    <3>2. QED
      BY <2>1, <3>1, SameFates
  <2>3. PICK j \in Intents : j = i
    BY <2>1
  <2>4. CASE status[j] = "claimed"
    <3>1. status' = [status EXCEPT ![j] = "delivered"]
      BY <2>1, <2>3, <2>4
    <3>2. Fates' = [Fates EXCEPT ![j] = Fate(j)']
      BY <1>1, <2>1, <3>1, OneFate DEF TypeInv, TypeOK
    <3>3. Fate(j) = "performed" /\ Fate(j)' = "confirmed"
      BY <2>1, <2>3, <2>4, <3>1 DEF Fate, TypeInv, TypeOK
    <3>4. Ledger!Confirm(j)
      BY <2>1, <3>2, <3>3 DEF Ledger!Confirm, Ledger!Moves, Fates
    <3>5. QED
      BY <3>4 DEF Ledger!LedgerNext
  <2>5. QED
    BY <2>2, <2>3, <2>4
<1>7. CASE \E d \in Daemons : Execute(d) \/ CreateBinds(d)
  <2>1. PICK d \in Daemons : Execute(d) \/ CreateBinds(d)
    BY <1>7
  <2>2. UNCHANGED status
    BY <2>1 DEF Execute, CreateBinds, queueVars
  <2>3. CASE runs' = runs
    BY <2>2, <2>3, SameFates
  <2>4. CASE runs' # runs
    <3>1. Execute(d) /\ \/ Prompt(d, current[d])
                        \/ Cancel(d, current[d])
                        \/ Decide(d, current[d])
      BY <2>1, <2>4 DEF Execute, CreateBinds, Create
    <3>2. current[d] \in Intents
      BY <3>1 DEF Execute, TypeInv, HoldsIntent, Holding
    <3>3. PerformedBy(d, current[d])
      BY <3>1, <2>2 DEF Execute, Prompt, Cancel, Decide, PerformedBy, Sleeps, Owning, Ahead
    <3>4. QED
      BY <1>5, <3>2, <3>3
  <2>5. QED
    BY <2>3, <2>4
<1>8. ASSUME NEW d \in Daemons, CreateEnds(d)
      PROVE  Ledger!LedgerNext
  <2>1. current[d] \in Intents /\ PerformedBy(d, current[d])
    BY <1>8 DEF CreateEnds, PerformedBy, Sleeps, Owning, Ahead, queueVars, TypeInv, HoldsIntent,
                Holding
  <2>2. QED
    BY <1>5, <2>1
<1>9. QED
  BY <1>2, <1>3, <1>4, <1>6, <1>7, <1>8, Steps

(* The queue with its drains implements the ledger.                        *)
THEOREM QueueIsLedger == Spec => ImplementsLedger
BY TypeInit, TypeStep, TakeInit, TakeStep, HomeInit, HomeStep, LedgerInitially, LedgerStep, PTL
   DEF Spec, ImplementsLedger, Ledger!LedgerSpec

-----------------------------------------------------------------------------
(***************************************************************************)
(* Revoked devices.                                                        *)
(***************************************************************************)

(* An intent of a device that a daemon does not trust, and that it has not *)
(* performed and is not creating.                                          *)
Powerless(d, i) ==
  /\ ActorOf[i] \notin trusted[d] /\ runs[<<d, i>>] = 0
  /\ ~(phase[d] \in {"creating", "opening"} /\ current[d] = i)

LEMMA TrustShrinks == [Next]_vars => \A d \in Daemons : trusted'[d] \subseteq trusted[d]
<1> SUFFICES ASSUME [Next]_vars PROVE \A d \in Daemons : trusted'[d] \subseteq trusted[d]
  OBVIOUS
<1>1. CASE \E d \in Daemons, v \in Devices : Revoke(d, v)
  <2>1. PICK e \in Daemons, v \in Devices : trusted' = [trusted EXCEPT ![e] = @ \ {v}]
    BY <1>1 DEF Revoke
  <2>2. ASSUME NEW d \in Daemons
        PROVE  trusted'[d] \in {trusted[d], trusted[d] \ {v}}
    BY <2>1
  <2>3. QED
    BY <2>2
<1>2. CASE trusted' = trusted
  BY <1>2
<1>3. ASSUME NEW d \in Daemons, Drain(d)
      PROVE  trusted' = trusted
  BY <1>3 DEF Drain, Poll, Pulled, PullFails, Call, ClaimServed, ClaimFails, AckServed, AckFails,
              GoesOn, Work, Execute, Refuse, CreateBinds, CreateEnds, CreateFails, lifeVars
<1>4. ASSUME NEW d \in Daemons, Life(d)
      PROVE  trusted' = trusted
  BY <1>4 DEF Life, Crash, Restart, Stop, StopReturns, Emptied
<1>5. QED
  BY <1>1, <1>2, <1>3, <1>4 DEF Next, Enqueue, ClientPrompt, HostDies, Ask, Close, TurnEnds,
                                lifeVars, vars

LEMMA PowerlessStays ==
  ASSUME TypeInv, [Next]_vars, NEW d \in Daemons, NEW i \in Intents, Powerless(d, i)
  PROVE  Powerless(d, i)'
<1>1. ActorOf[i] \notin trusted'[d]
  BY TrustShrinks DEF Powerless
<1>2. ASSUME runs' = runs, phase'[d] \in {"creating", "opening"} =>
                             phase[d] \in {"creating", "opening"} /\ current'[d] = current[d]
      PROVE  Powerless(d, i)'
  BY <1>1, <1>2 DEF Powerless
<1>3. CASE Still
  BY <1>2, <1>3 DEF Still, Owning
<1>4. ASSUME NEW j \in Intents, NEW n \in 0..QuestionBound, Enqueue(j, n)
      PROVE  Powerless(d, i)'
  BY <1>2, <1>4 DEF Enqueue, drainVars
<1>5. ASSUME NEW e \in Daemons, Confirmed(e) \/ \E j \in Intents : GrantedTo(e, j)
      PROVE  Powerless(d, i)'
  BY <1>2, <1>5 DEF Confirmed, GrantedTo, TypeInv, TypeOK
<1>6. \A e \in Daemons : \A j : e # d /\ Performs(e, j) => runs'[<<d, i>>] = runs[<<d, i>>]
  BY DEF Performs, Drains, TypeInv, TypeOK
<1>7. ASSUME NEW e \in Daemons, e # d, Execute(e) \/ CreateBinds(e) \/ CreateEnds(e)
      PROVE  Powerless(d, i)'
  <2>1. phase'[d] = phase[d] /\ current'[d] = current[d]
    BY <1>7 DEF Execute, CreateBinds, CreateEnds, Prompt, Cancel, Decide, Create, Sleeps, TypeInv,
                TypeOK
  <2>2. runs'[<<d, i>>] = runs[<<d, i>>]
    BY <1>6, <1>7 DEF Execute, CreateBinds, CreateEnds, Prompt, Cancel, Decide, Create
  <2>3. QED
    BY <1>1, <2>1, <2>2 DEF Powerless
<1>8. CASE Execute(d) \/ CreateBinds(d) \/ CreateEnds(d)
  <2>1. current[d] # i /\ current' = current
    BY <1>8 DEF Powerless, Execute, Accepts, Authorized, CreateBinds, CreateEnds, Prompt, Cancel,
                Decide, Create, Sleeps
  <2>2. runs'[<<d, i>>] = runs[<<d, i>>]
    <3>1. runs' = runs \/ Performs(d, current[d])
      BY <1>8 DEF Execute, CreateBinds, CreateEnds, Prompt, Cancel, Decide, Create
    <3>2. QED
      BY <2>1, <3>1 DEF Performs, Drains, TypeInv, TypeOK
  <2>3. QED
    BY <1>1, <2>1, <2>2 DEF Powerless
<1>9. QED
  BY <1>3, <1>4, <1>5, <1>7, <1>8, Steps

LEMMA NeverAfterRevocation ==
  ASSUME NEW d \in Daemons, NEW i \in Intents
  PROVE  Spec => [](status[i] = "pending" /\ ActorOf[i] \notin trusted[d] =>
                      [](runs[<<d, i>>] = 0))
<1>1. TypeInv /\ TakeInv /\ status[i] = "pending" /\ ActorOf[i] \notin trusted[d] => Powerless(d, i)
  <2> SUFFICES ASSUME TypeInv, TakeInv, status[i] = "pending", ActorOf[i] \notin trusted[d]
               PROVE  Powerless(d, i)
    OBVIOUS
  <2>1. ~Taken(i)
    BY DEF Taken
  <2>2. ~Performed(i) /\ ~Has(d, i)
    BY <2>1 DEF TakeInv, Untouched, HasTaken
  <2>3. runs[<<d, i>>] = 0
    BY <2>2, NothingPerformed
  <2>4. QED
    BY <2>2, <2>3 DEF Powerless, Has, Owning
<1>2. Powerless(d, i) => runs[<<d, i>>] = 0
  BY DEF Powerless
<1>3. TypeInv /\ Powerless(d, i) /\ [Next]_vars => Powerless(d, i)'
  BY PowerlessStays
<1>4. QED
  BY <1>1, <1>2, <1>3, TypeInit, TypeStep, TakeInit, TakeStep, PTL DEF Spec

(* A device revoked at a daemon while its write is still pending gets      *)
(* nothing done there, ever.                                               *)
THEOREM RevokedGetNothing == Spec => NoRevokedAuthority
BY NeverAfterRevocation DEF NoRevokedAuthority

-----------------------------------------------------------------------------
(***************************************************************************)
(* The order of the writes of an agent.                                    *)
(***************************************************************************)

Queued == {i \in Intents : status[i] # "none"}
Before(i, j) == AgentOf[i] = AgentOf[j] /\ seq[i] < seq[j]
Batch(d) == todo[d] \cup (IF phase[d] = "claiming" THEN {current[d]} ELSE {})

(* Rowids grow.  What waits before a write of a batch is in the batch or   *)
(* was passed over; the batch is claimed from its front; a refused claim   *)
(* was for an intent somebody has.  So what waits before a write that is   *)
(* taken was passed over, and what a drain has and has not yet done before *)
(* one that is done was passed over or is of somebody else's agent.        *)
Numbered  == \A i \in Intents : seq[i] <= Cardinality(Queued)
Batched   == \A d \in Daemons : \A j \in Batch(d) :
               /\ j \in Queued
               /\ \A i \in Intents : status[i] = "pending" /\ Before(i, j) => i \in missed \cup Batch(d)
Leads     == \A d \in Daemons : phase[d] = "claiming" => \A k \in todo[d] : seq[current[d]] <= seq[k]
Refused   == \A d \in Daemons : phase[d] = "refused" => Taken(current[d])
Passed    == \A i, j \in Intents :
               Taken(j) /\ status[i] = "pending" /\ Before(i, j) => i \in missed
Overtaken == \A d \in Daemons, i, j \in Intents :
               /\ phase[d] \in Ahead /\ current[d] = i
               /\ Performed(j) /\ Before(i, j)
               => i \in missed \/ \E e \in Daemons \ {d} : AgentOf[i] \in rows[e]

QueueInv == Numbered /\ Batched /\ Leads /\ Refused /\ Passed
OrderInv == QueueInv /\ Overtaken

LEMMA QueuedIsFinite ==
  /\ IsFiniteSet(Queued) /\ Cardinality(Queued) \in Nat
  /\ \A i \in Intents \ Queued : Cardinality(Queued \cup {i}) = Cardinality(Queued) + 1
<1>1. IsFiniteSet(Queued)
  BY IntentsAssumption, FS_Subset DEF IntentsAssumption, Queued
<1>2. QED
  BY <1>1, FS_CardinalityType, FS_AddElement

LEMMA OrderInit == Init => OrderInv
<1> SUFFICES ASSUME Init PROVE OrderInv
  OBVIOUS
<1>1. Numbered
  BY QueuedIsFinite DEF Init, Numbered
<1>2. Batched /\ Leads /\ Refused /\ Passed /\ Overtaken
  BY DEF Init, Batched, Batch, Leads, Refused, Passed, Taken, Overtaken, Ahead
<1>3. QED
  BY <1>1, <1>2 DEF OrderInv, QueueInv

LEMMA EnqueueKeepsOrder ==
  ASSUME TypeInv, TakeInv, QueueInv, NEW k \in Intents, NEW n \in 0..QuestionBound, Enqueue(k, n)
  PROVE  QueueInv'
<1>1. /\ k \notin Queued /\ status' = [status EXCEPT ![k] = "pending"]
      /\ seq' = [seq EXCEPT ![k] = 1 + Cardinality(Queued)]
      /\ UNCHANGED <<phase, current, todo, missed>>
  BY DEF Enqueue, drainVars, Queued
<1>2. Queued' = Queued \cup {k}
  BY <1>1 DEF Queued, TypeInv, TypeOK
<1>3. Cardinality(Queued') = Cardinality(Queued) + 1 /\ Cardinality(Queued) \in Nat
  BY <1>1, <1>2, QueuedIsFinite
<1>4. /\ \A i \in Intents \ {k} : seq'[i] = seq[i] /\ status'[i] = status[i]
      /\ seq'[k] = Cardinality(Queued) + 1 /\ status'[k] = "pending"
      /\ \A i \in Intents : seq[i] \in Nat
  BY <1>1, <1>3 DEF TypeInv, TypeOK
<1>5. Numbered'
  <2>1. ASSUME NEW i \in Intents
        PROVE  seq'[i] <= Cardinality(Queued')
    <3>1. CASE i = k
      BY <1>3, <1>4, <3>1
    <3>2. CASE i # k
      BY <1>3, <1>4, <3>2 DEF QueueInv, Numbered
    <3>3. QED
      BY <3>1, <3>2
  <2>2. QED
    BY <2>1 DEF Numbered
<1>6. \A i \in Intents, j \in Queued : Before(i, j)' => i # k /\ Before(i, j)
  <2>1. ASSUME NEW i \in Intents, NEW j \in Queued, Before(i, j)'
        PROVE  i # k /\ Before(i, j)
    <3>1. j \in Intents /\ j # k /\ seq'[j] = seq[j] /\ seq[j] <= Cardinality(Queued)
      BY <1>1, <1>4 DEF Queued, QueueInv, Numbered
    <3>2. i # k
      BY <1>3, <1>4, <2>1, <3>1 DEF Before
    <3>3. QED
      BY <1>4, <2>1, <3>1, <3>2 DEF Before
  <2>2. QED
    BY <2>1
<1>7. \A d \in Daemons : Batch(d)' = Batch(d)
  BY <1>1 DEF Batch
<1>8. Batched'
  <2>1. ASSUME NEW d \in Daemons, NEW j \in Batch(d)
        PROVE  /\ j \in Queued'
               /\ \A i \in Intents : status'[i] = "pending" /\ Before(i, j)' =>
                                       i \in missed' \cup Batch(d)
    <3>1. j \in Queued
      BY DEF QueueInv, Batched
    <3>2. QED
      BY <1>1, <1>2, <1>4, <1>6, <3>1 DEF QueueInv, Batched
  <2>2. QED
    BY <1>7, <2>1 DEF Batched
<1>9. Leads'
  <2>1. ASSUME NEW d \in Daemons, phase[d] = "claiming", NEW j \in todo[d]
        PROVE  seq'[current[d]] <= seq'[j]
    <3>1. j \in Queued /\ current[d] \in Queued
      BY <2>1 DEF QueueInv, Batched, Batch
    <3>2. seq'[j] = seq[j] /\ seq'[current[d]] = seq[current[d]]
      BY <1>1, <1>4, <3>1 DEF Queued
    <3>3. QED
      BY <2>1, <3>2 DEF QueueInv, Leads
  <2>2. QED
    BY <1>1, <2>1 DEF Leads
<1>10. \A j \in Intents : Taken(j)' <=> Taken(j)
  BY <1>1, <1>4 DEF Taken, Queued
<1>11. Refused'
  BY <1>1, <1>10 DEF QueueInv, Refused, TypeInv, HoldsIntent, Holding
<1>12. Passed'
  <2>1. ASSUME NEW i \in Intents, NEW j \in Intents, Taken(j), status'[i] = "pending", Before(i, j)'
        PROVE  i \in missed
    <3>1. j \in Queued
      BY <2>1 DEF Queued, Taken
    <3>2. QED
      BY <1>4, <1>6, <2>1, <3>1 DEF QueueInv, Passed
  <2>2. QED
    BY <1>1, <1>10, <2>1 DEF Passed
<1>13. QED
  BY <1>5, <1>8, <1>9, <1>11, <1>12 DEF QueueInv

(* What every other step does to the queue: nothing is queued, and an      *)
(* intent that is taken stays so.                                          *)
Onward ==
  /\ seq' = seq /\ missed \subseteq missed'
  /\ \A i \in Intents : /\ status'[i] = "none" <=> status[i] = "none"
                        /\ status'[i] = "pending" => status[i] = "pending"
                        /\ Taken(i) => Taken(i)'

LEMMA OnwardKeepsNumbers == Onward /\ QueueInv => Numbered'
<1> SUFFICES ASSUME Onward, QueueInv PROVE Numbered'
  OBVIOUS
<1>1. Queued' = Queued
  BY DEF Onward, Queued
<1>2. QED
  BY <1>1 DEF Onward, QueueInv, Numbered

(* A drain goes on with S, and leaves what it cannot have.                 *)
LEMMA ContinueKeepsBatches ==
  ASSUME TypeInv, QueueInv, Onward, NEW d \in Daemons,
         NEW S \in SUBSET Queued, NEW left \in SUBSET Intents, Continue(d, S, left),
         \A j \in S, i \in Intents :
           status'[i] = "pending" /\ Before(i, j) => i \in missed \cup S \cup left
  PROVE  Batched' /\ Leads'
<1> DEFINE E == {i \in S : Eligible(d, i)}
           Over(i) == {j \in S \ E : seq[j] < seq[i]}
<1>2. Queued' = Queued /\ \A i, j : Before(i, j)' <=> Before(i, j)
  BY DEF Onward, Queued, Before
<1>3. ASSUME NEW e \in Daemons \ {d}
      PROVE  /\ todo'[e] = todo[e] /\ phase'[e] = phase[e] /\ current'[e] = current[e]
             /\ Batch(e)' = Batch(e)
  BY DEF Continue, Batch, TypeInv, TypeOK
<1>1. missed \subseteq missed'
  BY DEF Continue
<1>4. ASSUME NEW e \in Daemons \ {d}
      PROVE  /\ \A j \in Batch(e)' :
                  /\ j \in Queued'
                  /\ \A i \in Intents : status'[i] = "pending" /\ Before(i, j)' =>
                                          i \in missed' \cup Batch(e)'
             /\ phase'[e] = "claiming" => \A k \in todo'[e] : seq'[current'[e]] <= seq'[k]
  BY <1>1, <1>2, <1>3 DEF QueueInv, Batched, Leads, Onward
<1>5. CASE phase' = [phase EXCEPT ![d] = "idle"] /\ todo' = [todo EXCEPT ![d] = {}]
  <2>1. Batch(d)' = {} /\ phase'[d] # "claiming"
    BY <1>5 DEF Batch, TypeInv, TypeOK
  <2>2. QED
    BY <1>4, <2>1 DEF Batched, Leads
<1>6. ASSUME NEW k \in E, First(E, k),
             phase' = [phase EXCEPT ![d] = "claiming"], current' = [current EXCEPT ![d] = k],
             todo' = [todo EXCEPT ![d] = S \ (Over(k) \cup {k})],
             missed' = missed \cup left \cup Over(k)
      PROVE  Batched' /\ Leads'
  <2> DEFINE R == S \ Over(k)
  <2>1. /\ phase'[d] = "claiming" /\ current'[d] = k
        /\ todo'[d] = R \ {k} /\ Batch(d)' = R
    BY <1>6 DEF Batch, TypeInv, TypeOK
  <2>2. ASSUME NEW j \in R
        PROVE  seq'[k] <= seq'[j]
    <3>1. seq[k] \in Nat /\ seq[j] \in Nat /\ seq' = seq
      BY DEF TypeInv, TypeOK, Onward, Queued
    <3>2. j \in E \/ ~(seq[j] < seq[k])
      OBVIOUS
    <3>3. QED
      BY <1>6, <3>1, <3>2 DEF First
  <2>3. ASSUME NEW j \in R
        PROVE  /\ j \in Queued'
               /\ \A i \in Intents : status'[i] = "pending" /\ Before(i, j)' => i \in missed' \cup R
    BY <1>2, <1>6
  <2>4. QED
    BY <1>4, <2>1, <2>2, <2>3 DEF Batched, Leads
<1>7. QED
  BY <1>5, <1>6 DEF Continue

LEMMA OnwardKeepsPassed ==
  ASSUME QueueInv, Onward, \A i \in Intents : Taken(i)' => Taken(i),
         \A d \in Daemons : phase'[d] = "refused" => phase[d] = "refused" /\ current'[d] = current[d]
  PROVE  Passed' /\ (TypeInv => Refused')
<1>1. Passed'
  BY DEF Onward, QueueInv, Passed, Before
<1>2. TypeInv => Refused'
  BY DEF Onward, QueueInv, Refused, TypeInv, HoldsIntent, Holding
<1>3. QED
  BY <1>1, <1>2

LEMMA GoingOnKeepsOrder ==
  ASSUME TypeInv, QueueInv, Onward, NEW d \in Daemons,
         NEW S \in SUBSET Queued, NEW left \in SUBSET Intents, Continue(d, S, left),
         \/ S = {i \in Intents : status[i] = "pending"}
         \/ S = todo[d] /\ (phase[d] = "claiming" => current[d] \in left),
         \A i \in Intents : Taken(i)' => Taken(i)
  PROVE  QueueInv'
<1>1. \A j \in S, i \in Intents :
        status'[i] = "pending" /\ Before(i, j) => i \in missed \cup S \cup left
  BY DEF Onward, QueueInv, Batched, Batch
<1>2. Batched' /\ Leads'
  BY <1>1, ContinueKeepsBatches
<1>3. \A e \in Daemons : phase'[e] = "refused" => phase[e] = "refused" /\ current'[e] = current[e]
  BY DEF Continue, TypeInv, TypeOK
<1>4. QED
  BY <1>2, <1>3, OnwardKeepsNumbers, OnwardKeepsPassed DEF QueueInv

LEMMA TodoIsQueued ==
  ASSUME QueueInv, NEW d \in Daemons
  PROVE  todo[d] \in SUBSET Queued
BY DEF QueueInv, Batched, Batch

LEMMA MissedGrows ==
  ASSUME NEW d, NEW S, NEW left, Continue(d, S, left)
  PROVE  missed \subseteq missed'
BY DEF Continue

(* The drain goes on, whatever became of its intent.                       *)
LEMMA BatchesMoveOn ==
  ASSUME TypeInv, QueueInv, NEW d \in Daemons,
         \/ Pulled(d) \/ ClaimFails(d) \/ GoesOn(d) \/ Refuse(d) \/ CreateFails(d)
         \/ AckServed(d) \/ AckFails(d)
  PROVE  QueueInv' /\ Onward
<1>1. todo[d] \in SUBSET Queued /\ {} \in SUBSET Intents
  BY TodoIsQueued
<1>2. ASSUME UNCHANGED queueVars, missed \subseteq missed'
      PROVE  Onward /\ \A i \in Intents : Taken(i)' => Taken(i)
  BY <1>2 DEF queueVars, Onward, Taken
<1>3. CASE Pulled(d)
  <2> DEFINE S == {i \in Intents : status[i] = "pending"}
  <2>1. S \in SUBSET Queued /\ Continue(d, S, {}) /\ UNCHANGED queueVars
    BY <1>3 DEF Pulled, Queued
  <2>2. Onward /\ \A i \in Intents : Taken(i)' => Taken(i)
    BY <1>2, <2>1, MissedGrows
  <2>3. QED
    BY <1>1, <2>1, <2>2, GoingOnKeepsOrder
<1>4. CASE ClaimFails(d)
  <2>1. {current[d]} \in SUBSET Intents
    BY <1>4 DEF ClaimFails, TypeInv, HoldsIntent, Holding
  <2>2. Continue(d, todo[d], {current[d]}) /\ UNCHANGED queueVars
    BY <1>4 DEF ClaimFails
  <2>3. Onward /\ \A i \in Intents : Taken(i)' => Taken(i)
    BY <1>2, <2>2, MissedGrows
  <2>4. QED
    BY <1>1, <2>1, <2>2, <2>3, GoingOnKeepsOrder
<1>5. CASE GoesOn(d) \/ Refuse(d) \/ CreateFails(d) \/ AckFails(d)
  <2>1. Continue(d, todo[d], {}) /\ UNCHANGED queueVars /\ phase[d] # "claiming"
    BY <1>5 DEF GoesOn, Refuse, CreateFails, AckFails
  <2>2. Onward /\ \A i \in Intents : Taken(i)' => Taken(i)
    BY <1>2, <2>1, MissedGrows
  <2>3. QED
    BY <1>1, <2>1, <2>2, GoingOnKeepsOrder
<1>6. CASE AckServed(d)
  <2>1. Continue(d, todo[d], {}) /\ phase[d] # "claiming" /\ seq' = seq
    BY <1>6 DEF AckServed
  <2>2. \A i \in Intents : \/ status'[i] = status[i]
                           \/ status[i] = "claimed" /\ status'[i] = "delivered"
    BY <1>6 DEF AckServed, TypeInv, TypeOK
  <2>3. Onward /\ \A i \in Intents : Taken(i)' => Taken(i)
    BY <2>1, <2>2, MissedGrows DEF Onward, Taken
  <2>4. QED
    BY <1>1, <2>1, <2>3, GoingOnKeepsOrder
<1>7. QED
  BY <1>3, <1>4, <1>5, <1>6

LEMMA ClaimKeepsOrder ==
  ASSUME TypeInv, QueueInv, NEW d \in Daemons, ClaimServed(d)
  PROVE  QueueInv' /\ Onward
<1> DEFINE i == current[d]
<1>1. /\ i \in Queued /\ i \in Intents /\ phase[d] = "claiming"
      /\ UNCHANGED <<seq, missed, current, todo>>
      /\ phase' = [phase EXCEPT ![d] = IF Claimable(i) THEN "granted" ELSE "refused"]
      /\ status' = [status EXCEPT ![i] = IF Claimable(i) THEN "claimed" ELSE @]
  BY DEF ClaimServed, QueueInv, Batched, Batch, TypeInv, HoldsIntent, Holding
<1>2. PICK c \in Intents : c = i
  BY <1>1
<1>3. /\ \A e \in Daemons \ {d} : phase'[e] = phase[e]
      /\ phase'[d] \in {"granted", "refused"}
      /\ \A j \in Intents \ {c} : status'[j] = status[j]
      /\ status'[c] \in {"claimed", "delivered"}
  BY <1>1, <1>2 DEF TypeInv, TypeOK, Claimable, Queued
<1>4. Onward
  BY <1>1, <1>2, <1>3 DEF Onward, Taken, Queued
<1>5. Queued' = Queued /\ \A j, k : Before(j, k)' <=> Before(j, k)
  BY <1>4 DEF Onward, Queued, Before
<1>6. \A e \in Daemons \ {d} : Batch(e)' = Batch(e)
  BY <1>1, <1>3 DEF Batch
<1>7. Batch(d)' = todo[d] /\ Batch(d) = todo[d] \cup {c}
  BY <1>1, <1>2, <1>3 DEF Batch
<1>8. Batched'
  <2>1. ASSUME NEW e \in Daemons, NEW j \in Batch(e)'
        PROVE  /\ j \in Queued'
               /\ \A k \in Intents : status'[k] = "pending" /\ Before(k, j)' =>
                                       k \in missed' \cup Batch(e)'
    <3>1. j \in Batch(e)
      BY <1>6, <1>7
    <3>2. j \in Queued
      BY <3>1 DEF QueueInv, Batched
    <3>3. ASSUME NEW k \in Intents, status'[k] = "pending", Before(k, j)'
          PROVE  k \in missed' \cup Batch(e)'
      <4>1. k # c /\ k \in missed \cup Batch(e)
        BY <1>3, <1>5, <3>1, <3>3 DEF QueueInv, Batched
      <4>2. QED
        BY <1>1, <1>6, <1>7, <4>1
    <3>4. QED
      BY <1>5, <3>2, <3>3
  <2>2. QED
    BY <2>1 DEF Batched
<1>9. Leads'
  BY <1>1, <1>3 DEF QueueInv, Leads
<1>10. Refused'
  <2>1. ASSUME NEW e \in Daemons, phase'[e] = "refused"
        PROVE  Taken(current[e])'
    <3>1. CASE e = d
      BY <1>1, <1>2, <1>3, <3>1 DEF Taken
    <3>2. CASE e # d
      <4>1. Taken(current[e]) /\ current[e] \in Intents /\ current' = current
        BY <1>1, <1>3, <2>1, <3>2 DEF QueueInv, Refused, TypeInv, HoldsIntent, Holding
      <4>2. QED
        BY <1>4, <4>1 DEF Onward, Taken
    <3>3. QED
      BY <3>1, <3>2
  <2>2. QED
    BY <2>1 DEF Refused
<1>11. Passed'
  <2>1. ASSUME NEW k \in Intents, NEW j \in Intents, Taken(j)', status'[k] = "pending", Before(k, j)
        PROVE  k \in missed
    <3>1. k # c /\ status[k] = "pending"
      BY <1>3, <2>1
    <3>2. CASE j # c
      <4>1. Taken(j)
        BY <1>3, <2>1, <3>2 DEF Taken
      <4>2. QED
        BY <2>1, <3>1, <4>1 DEF QueueInv, Passed
    <3>3. CASE j = c
      <4>1. k \in missed \cup todo[d]
        BY <1>7, <2>1, <3>1, <3>3 DEF QueueInv, Batched
      <4>2. k \in todo[d] => seq[c] <= seq[k]
        BY <1>1, <1>2 DEF QueueInv, Leads
      <4>3. seq[k] < seq[c] /\ seq[k] \in Nat /\ seq[c] \in Nat
        BY <2>1, <3>3 DEF Before, TypeInv, TypeOK
      <4>4. QED
        BY <4>1, <4>2, <4>3
    <3>4. QED
      BY <3>2, <3>3
  <2>2. QED
    BY <1>1, <1>5, <2>1 DEF Passed
<1>12. QED
  BY <1>4, <1>8, <1>9, <1>10, <1>11, OnwardKeepsNumbers DEF QueueInv

(* Every other step leaves the queue and the batches, or drops a batch.    *)
BatchesStay ==
  /\ UNCHANGED <<status, seq, missed>>
  /\ \A d \in Daemons :
       \/ /\ todo'[d] = todo[d]
          /\ phase'[d] \in {"claiming", "refused"} \/ phase[d] = "claiming" =>
               phase'[d] = phase[d] /\ current'[d] = current[d]
       \/ todo'[d] = {} /\ phase'[d] = "idle"

LEMMA StayingKeepsOrder ==
  ASSUME TypeInv, QueueInv, BatchesStay
  PROVE  QueueInv' /\ Onward
<1>1. Onward /\ \A i \in Intents : Taken(i)' <=> Taken(i)
  BY DEF BatchesStay, Onward, Taken
<1>2. Queued' = Queued /\ missed' = missed /\ \A i, j : Before(i, j)' <=> Before(i, j)
  BY DEF BatchesStay, Queued, Before
<1>3. ASSUME NEW d \in Daemons
      PROVE  Batch(d)' = Batch(d) \/ Batch(d)' = {}
  BY DEF BatchesStay, Batch
<1>4. Batched'
  BY <1>2, <1>3 DEF QueueInv, Batched, BatchesStay
<1>5. Leads'
  BY DEF QueueInv, Leads, BatchesStay
<1>6. Refused' /\ Passed'
  BY <1>1, OnwardKeepsPassed DEF BatchesStay
<1>7. QED
  BY <1>1, <1>4, <1>5, <1>6, OnwardKeepsNumbers DEF QueueInv

LEMMA SleepingStays ==
  ASSUME TypeInv, NEW d \in Daemons, NEW p \in {"failed", "turn", "creating", "opening", "acking"},
         phase[d] # "claiming", Sleeps(d, p), UNCHANGED queueVars
  PROVE  BatchesStay
BY DEF Sleeps, BatchesStay, queueVars, TypeInv, TypeOK

LEMMA OthersStay ==
  ASSUME TypeInv,
         \/ \E d \in Daemons : \/ Poll(d) \/ PullFails(d) \/ Life(d)
                               \/ Execute(d) \/ CreateBinds(d) \/ CreateEnds(d)
         \/ \E d \in Daemons, a \in Agents : ClientPrompt(d, a) \/ HostDies(d, a)
         \/ \E a \in Agents : Ask(a) \/ Close(a) \/ TurnEnds(a)
         \/ \E d \in Daemons, v \in Devices : Revoke(d, v)
         \/ UNCHANGED vars
  PROVE  BatchesStay
<1>1. ASSUME UNCHANGED <<queueVars, drainVars>>
      PROVE  BatchesStay
  BY <1>1 DEF queueVars, drainVars, BatchesStay
<1>2. ASSUME NEW d \in Daemons, Poll(d) \/ PullFails(d) \/ Crash(d)
      PROVE  BatchesStay
  BY <1>2 DEF Poll, PullFails, Crash, queueVars, BatchesStay, TypeInv, TypeOK
<1>3. ASSUME NEW d \in Daemons, Restart(d) \/ Stop(d) \/ StopReturns(d)
      PROVE  BatchesStay
  BY <1>1, <1>3 DEF Restart, Stop, StopReturns
<1>4. ASSUME NEW d \in Daemons, Execute(d)
      PROVE  BatchesStay
  <2>1. \E p \in {"turn", "creating", "acking"} : Sleeps(d, p)
    BY <1>4 DEF Execute, Prompt, Cancel, Decide, Create
  <2>2. QED
    BY <1>4, <2>1, SleepingStays DEF Execute
<1>5. ASSUME NEW d \in Daemons, CreateBinds(d) \/ CreateEnds(d)
      PROVE  BatchesStay
  BY <1>5, SleepingStays DEF CreateBinds, CreateEnds
<1>6. ASSUME NEW a \in Agents, TurnEnds(a)
      PROVE  BatchesStay
  BY <1>1, <1>6, SleepingStays DEF TurnEnds, Awaits
<1>7. ASSUME NEW d \in Daemons, NEW a \in Agents, HostDies(d, a)
      PROVE  BatchesStay
  <2>1. CASE Awaits(d, a)
    BY <1>7, <2>1, SleepingStays DEF HostDies, Awaits
  <2>2. CASE ~Awaits(d, a)
    BY <1>1, <1>7, <2>2 DEF HostDies
  <2>3. QED
    BY <2>1, <2>2
<1>8. ASSUME NEW x, NEW y, ClientPrompt(x, y) \/ Revoke(x, y) \/ Ask(x) \/ Close(x)
      PROVE  BatchesStay
  BY <1>1, <1>8 DEF ClientPrompt, Revoke, Ask, Close
<1>9. CASE UNCHANGED vars
  BY <1>1, <1>9 DEF vars
<1>10. QED
  BY <1>2, <1>3, <1>4, <1>5, <1>6, <1>7, <1>8, <1>9 DEF Life

LEMMA QueueStep ==
  ASSUME TypeInv, TakeInv, QueueInv, [Next]_vars
  PROVE  QueueInv' /\ (Onward \/ \E k \in Intents, n \in 0..QuestionBound : Enqueue(k, n))
BY EnqueueKeepsOrder, BatchesMoveOn, ClaimKeepsOrder, OthersStay, StayingKeepsOrder
   DEF Next, Drain, Call, Work

(* What the order of two writes that are queued rests on never changes.    *)
LEMMA OrderIsFixed ==
  ASSUME TypeInv, TakeInv, QueueInv, [Next]_vars
  PROVE  /\ missed \subseteq missed'
         /\ \A i \in Queued : seq'[i] = seq[i]
<1>1. CASE Onward
  BY <1>1 DEF Onward, Queued
<1>2. CASE \E k \in Intents, n \in 0..QuestionBound : Enqueue(k, n)
  BY <1>2 DEF Enqueue, drainVars, Queued, TypeInv, TypeOK
<1>3. QED
  BY <1>1, <1>2, QueueStep


(* What is performed is of an agent that lives with the one who performs.  *)
LEMMA StepsAtHome ==
  ASSUME TypeInv, HomeInv, [Next]_vars
  PROVE  \/ Quiet \/ \E d \in Daemons, i \in Intents : GrantedTo(d, i)
         \/ \E d \in Daemons, i \in Intents : PerformedBy(d, i) /\ AgentOf[i] \in rows[d]
<1>1. ASSUME NEW d \in Daemons, Execute(d) \/ CreateBinds(d) \/ CreateEnds(d), ~Quiet
      PROVE  \E i \in Intents : PerformedBy(d, i) /\ AgentOf[i] \in rows[d]
  <2>1. current[d] \in Intents /\ PerformedBy(d, current[d])
    BY <1>1, WorkOfTakes
  <2>2. CASE Execute(d)
    <3>1. ActionOf[current[d]] # "new-agent"
      <4>1. ~Create(d, current[d])
        BY <1>1, <2>2, SleepsQuietly DEF Execute, Create, Ahead, queueVars
      <4>2. QED
        BY <2>2, <4>1 DEF Execute, Prompt, Cancel, Decide
    <3>2. AgentOf[current[d]] \in owns[d]
      BY <2>2, <3>1 DEF Execute, Accepts
    <3>3. QED
      BY <2>1, <3>2 DEF HomeInv, Housed
  <2>3. CASE CreateBinds(d)
    BY <1>1, <2>3, SleepsQuietly DEF CreateBinds, Ahead, queueVars
  <2>4. CASE CreateEnds(d)
    BY <2>1, <2>4 DEF CreateEnds, HomeInv, Creates
  <2>5. QED
    BY <1>1, <2>2, <2>3, <2>4
<1>2. QED
  BY <1>1, Steps, StillIsQuiet, QueueIsQuiet

LEMMA RowsGrow ==
  ASSUME TypeInv, HomeInv, TakeInv, [Next]_vars
  PROVE  \A d \in Daemons : rows[d] \subseteq rows'[d]
<1>1. MovesNobody => rows' = rows
  BY DEF MovesNobody
<1>2. ASSUME NEW e \in Daemons, CreateBinds(e) \/ CreateEnds(e)
      PROVE  \A d \in Daemons : rows[d] \subseteq rows'[d]
  BY <1>2 DEF CreateBinds, CreateEnds, TypeInv, TypeOK
<1>3. QED
  BY <1>1, <1>2, Steps, StillMovesNobody, QueueMovesNobody, ExecuteMovesNobody

LEMMA OvertakenStep ==
  ASSUME TypeInv, TakeInv, HomeInv, OrderInv, [Next]_vars
  PROVE  Overtaken'
<1>1. ASSUME NEW d \in Daemons, NEW i \in Intents, NEW j \in Intents,
             phase'[d] \in Ahead, current'[d] = i, Performed(j)', Before(i, j)'
      PROVE  i \in missed' \/ \E e \in Daemons \ {d} : AgentOf[i] \in rows'[e]
  <2>1. Performed(j) => Taken(j) /\ j \in Queued
    BY DEF TakeInv, Untouched, Taken, Queued
  <2>2. \A x, y \in Queued : Before(x, y)' => Before(x, y)
    BY OrderIsFixed DEF OrderInv, Before
  <2>3. CASE phase[d] \in Ahead /\ current[d] = i /\ Performed(j)
    <3>1. i \in Queued
      BY <2>3 DEF TakeInv, HasTaken, Has, Ahead, Owning, Taken, Queued
    <3>2. i \in missed \/ \E e \in Daemons \ {d} : AgentOf[i] \in rows[e]
      BY <1>1, <2>1, <2>2, <2>3, <3>1 DEF OrderInv, Overtaken
    <3>3. QED
      BY <3>2, OrderIsFixed, RowsGrow DEF OrderInv
  <2>4. CASE Quiet
    <3>1. Performed(j)
      BY <1>1, <2>4 DEF Quiet, Performed
    <3>2. phase[d] \in Ahead /\ current[d] = i
      BY <1>1, <2>4 DEF Quiet, Ahead, Owning
    <3>3. QED
      BY <2>3, <3>1, <3>2
  <2>5. ASSUME NEW e \in Daemons, NEW k \in Intents, GrantedTo(e, k)
        PROVE  i \in missed' \/ \E f \in Daemons \ {d} : AgentOf[i] \in rows'[f]
    <3>1. Performed(j)
      BY <1>1, <2>5 DEF GrantedTo, Performed
    <3>2. CASE d = e
      <4>1. status[i] = "pending" /\ i \in Queued
        BY <1>1, <2>5, <3>2 DEF GrantedTo, Queued
      <4>2. i \in missed
        BY <1>1, <2>1, <2>2, <3>1, <4>1 DEF OrderInv, QueueInv, Passed
      <4>3. QED
        BY <4>2, OrderIsFixed DEF OrderInv
    <3>3. CASE d # e
      <4>1. phase[d] \in Ahead /\ current[d] = i
        BY <1>1, <2>5, <3>3 DEF GrantedTo, TypeInv, TypeOK
      <4>2. QED
        BY <2>3, <3>1, <4>1
    <3>4. QED
      BY <3>2, <3>3
  <2>6. ASSUME NEW e \in Daemons, NEW k \in Intents, PerformedBy(e, k), AgentOf[k] \in rows[e]
        PROVE  i \in missed' \/ \E f \in Daemons \ {d} : AgentOf[i] \in rows'[f]
    <3>1. d # e /\ phase[d] \in Ahead /\ current[d] = i
      BY <1>1, <2>6 DEF PerformedBy, TypeInv, TypeOK
    <3>2. CASE j = k
      <4>1. AgentOf[i] \in rows[e]
        BY <1>1, <2>6, <3>2 DEF Before
      <4>2. QED
        BY <3>1, <4>1, RowsGrow
    <3>3. CASE j # k
      <4>1. Performed(j)
        BY <1>1, <2>6, <3>3, PerformedStays DEF PerformedBy
      <4>2. QED
        BY <2>3, <3>1, <4>1
    <3>4. QED
      BY <3>2, <3>3
  <2>7. QED
    BY <2>4, <2>5, <2>6, StepsAtHome
<1>2. QED
  BY <1>1 DEF Overtaken

LEMMA OrderStep == TypeInv /\ TakeInv /\ HomeInv /\ OrderInv /\ [Next]_vars => OrderInv'
BY OvertakenStep, QueueStep DEF OrderInv

(* A write of an agent that takes effect after a later one had been passed *)
(* over by a drain.                                                        *)
THEOREM OvertakenWereMissed == Spec => OrderedUnlessMissed
<1> DEFINE Step == \A d \in Daemons, i, j \in Intents :
                     /\ runs'[<<d, i>>] > runs[<<d, i>>] /\ Performed(j)
                     /\ AgentOf[i] = AgentOf[j] /\ seq[i] < seq[j]
                     => i \in missed
<1>1. TypeInv /\ HomeInv /\ OrderInv /\ [Next]_vars => Step
  <2> SUFFICES ASSUME TypeInv, HomeInv, OrderInv, [Next]_vars,
                      NEW d \in Daemons, NEW i \in Intents, NEW j \in Intents,
                      runs'[<<d, i>>] > runs[<<d, i>>], Performed(j), Before(i, j)
               PROVE  i \in missed
    BY DEF Before
  <2>1. <<d, i>> \in Drains /\ runs[<<d, i>>] \in Nat
    BY DEF Drains, TypeInv, TypeOK
  <2>2. runs' # runs
    BY <2>1
  <2>3. PICK e \in Daemons, k \in Intents : PerformedBy(e, k) /\ AgentOf[k] \in rows[e]
    BY <2>2, StepsAtHome DEF Quiet, GrantedTo
  <2>4. <<d, i>> # <<e, k>> => runs'[<<d, i>>] = runs[<<d, i>>]
    BY <2>1, <2>3 DEF PerformedBy, Performs, TypeInv, TypeOK
  <2>5. d = e /\ i = k
    BY <2>1, <2>4
  <2>6. i \in missed \/ \E f \in Daemons \ {d} : AgentOf[i] \in rows[f]
    BY <2>3, <2>5 DEF PerformedBy, OrderInv, Overtaken
  <2>7. QED
    BY <2>3, <2>5, <2>6 DEF HomeInv, OneHome
<1>2. TypeInv /\ HomeInv /\ OrderInv /\ [Next]_vars => [Step]_vars
  BY <1>1
<1>3. QED
  BY <1>2, TypeInit, TypeStep, TakeInit, TakeStep, HomeInit, HomeStep, OrderInit, OrderStep, PTL
  DEF Spec, OrderedUnlessMissed
-----------------------------------------------------------------------------
(***************************************************************************)
(* Drains that wait for a turn.                                            *)
(***************************************************************************)

(* A drain waits for a turn only while its daemon runs it, the turn is one *)
(* a drain began, no other drain waits for it (its end wakes only one) and *)
(* a turn a drain began has a drain that waits for it; an approval is open *)
(* only while its agent is in a turn.  Whatever else dies, stops or is     *)
(* revoked, no drain waits for a turn that is over, which is the safety    *)
(* half of StopEnds (#execute awaits the whole turn).                      *)
WaitsForTurn ==
  /\ \A d \in Daemons, a \in Agents : Awaits(d, a) => turn[a] = "drain" /\ a \in owns[d]
  /\ \A a \in Agents : turn[a] = "drain" => \E d \in Daemons : Awaits(d, a)
  /\ \A a \in open : turn[a] # "none"
OneWaits ==
  \A d, e \in Daemons, a \in Agents : Awaits(d, a) /\ Awaits(e, a) => d = e
NobodyWaitsInVain == WaitsForTurn /\ OneWaits

(* An agent is owned by one daemon.                                        *)
LEMMA OneOwner ==
  ASSUME TypeInv, HomeInv, NEW d \in Daemons, NEW e \in Daemons, NEW a, a \in owns[d] \cap owns[e]
  PROVE  d = e
BY DEF HomeInv, Housed, OneHome

(* Nothing moves but drains that do not wait, and approvals are settled.   *)
LEMMA WaitsKept ==
  ASSUME WaitsForTurn, turn' = turn, open' \subseteq open,
         \A e \in Daemons : owns[e] \subseteq owns'[e],
         \A e \in Daemons : \/ phase[e] # "turn" /\ phase'[e] # "turn"
                            \/ phase'[e] = phase[e] /\ current'[e] = current[e]
  PROVE  WaitsForTurn'
<1>1. \A e \in Daemons, a \in Agents : Awaits(e, a)' <=> Awaits(e, a)
  BY DEF Awaits
<1> QED BY <1>1 DEF WaitsForTurn

LEMMA DrainKeepsWaits ==
  ASSUME TypeInv, WaitsForTurn, NEW d \in Daemons, Drain(d), ~(Execute(d) /\ Prompt(d, current[d]))
  PROVE  WaitsForTurn'
<1>1. /\ todo[d] \in SUBSET Intents /\ DrainTypes
      /\ \A S \in SUBSET Intents : \A left :
            Continue(d, S, left) => phase'[d] # "turn"
              /\ \A e \in Daemons \ {d} : phase'[e] = phase[e] /\ current'[e] = current[e]
  BY DrainTyped DEF TypeInv, TypeOK, Continue
<1>2. ASSUME NEW p, p # "turn", phase' = [phase EXCEPT ![d] = p], current' = current
      PROVE  phase'[d] # "turn" /\ \A e \in Daemons \ {d} : phase'[e] = phase[e] /\ current'[e] = current[e]
  BY <1>2 DEF TypeInv, TypeOK
<1>3. phase[d] # "turn" /\ phase'[d] # "turn"
      /\ \A e \in Daemons \ {d} : phase'[e] = phase[e] /\ current'[e] = current[e]
  <2>1. CASE Poll(d) \/ PullFails(d)
    BY <1>2, <2>1 DEF Poll, PullFails
  <2>2. CASE Pulled(d)
    <3>1. {i \in Intents : status[i] = "pending"} \in SUBSET Intents
      OBVIOUS
    <3> QED BY <1>1, <2>2, <3>1 DEF Pulled
  <2>3. CASE ClaimServed(d)
    BY <1>2, <2>3 DEF ClaimServed
  <2>4. CASE ClaimFails(d) \/ AckServed(d) \/ AckFails(d) \/ GoesOn(d) \/ Refuse(d) \/ CreateFails(d)
    BY <1>1, <2>4 DEF ClaimFails, AckServed, AckFails, GoesOn, Refuse, CreateFails
  <2>5. CASE CreateBinds(d) \/ CreateEnds(d)
    BY <1>2, <2>5 DEF CreateBinds, CreateEnds, Sleeps
  <2>6. CASE Execute(d)
    <3>1. \E p \in {"acking", "creating"} : Sleeps(d, p)
      BY <2>6 DEF Execute, Cancel, Decide, Create
    <3> QED BY <1>2, <2>6, <3>1 DEF Execute, Sleeps
  <2> QED BY <2>1, <2>2, <2>3, <2>4, <2>5, <2>6 DEF Drain, Call, Work
<1>4. turn' = turn /\ open' \subseteq open
  BY DEF Drain, Call, Work, Poll, Pulled, PullFails, ClaimServed, ClaimFails, AckServed, AckFails,
         GoesOn, Refuse, CreateFails, CreateBinds, CreateEnds, Execute, Cancel, Decide, Create, agentVars
<1>5. \A e \in Daemons : owns[e] \subseteq owns'[e]
  BY DEF Drain, Call, Work, Poll, Pulled, PullFails, ClaimServed, ClaimFails, AckServed, AckFails,
         GoesOn, Refuse, CreateFails, CreateBinds, CreateEnds, Execute, lifeVars, TypeInv, TypeOK
<1> QED BY <1>3, <1>4, <1>5, WaitsKept

LEMMA PromptKeepsWaits ==
  ASSUME TypeInv, WaitsForTurn, NEW d \in Daemons, Execute(d), Prompt(d, current[d])
  PROVE  WaitsForTurn'
<1>1. PICK a \in Agents : current[d] \in Intents /\ a = AgentOf[current[d]]
  BY IntentsAssumption DEF Execute, TypeInv, HoldsIntent, Holding
<1>2. /\ phase[d] = "granted" /\ a \in owns[d] /\ turn[a] = "none"
  BY <1>1 DEF Execute, Prompt, Accepts
<1>3. /\ turn' = [turn EXCEPT ![a] = "drain"] /\ phase' = [phase EXCEPT ![d] = "turn"]
      /\ UNCHANGED <<open, owns, current>>
  BY <1>1 DEF Execute, Prompt, Sleeps, lifeVars
<1>4. Awaits(d, a)' /\ \A b \in Agents : Awaits(d, b)' => b = a
  BY <1>1, <1>3 DEF Awaits, TypeInv, TypeOK
<1>5. \A e \in Daemons \ {d}, b \in Agents : Awaits(e, b)' <=> Awaits(e, b)
  BY <1>3 DEF Awaits, TypeInv, TypeOK
<1>6. \A b \in Agents : turn'[b] = IF b = a THEN "drain" ELSE turn[b]
  BY <1>3 DEF TypeInv, TypeOK
<1>7. \A b \in Agents : ~Awaits(d, b)
  BY <1>2 DEF Awaits
<1>8. \A e \in Daemons, b \in Agents : Awaits(e, b)' => turn'[b] = "drain" /\ b \in owns'[e]
  BY <1>2, <1>3, <1>4, <1>5, <1>6 DEF WaitsForTurn
<1>9. \A b \in Agents : turn'[b] = "drain" => \E e \in Daemons : Awaits(e, b)'
  <2> SUFFICES ASSUME NEW b \in Agents, turn'[b] = "drain" PROVE \E e \in Daemons : Awaits(e, b)'
    OBVIOUS
  <2>1. CASE b = a
    BY <1>4, <2>1
  <2>2. CASE b # a
    <3>1. PICK e \in Daemons : Awaits(e, b)
      BY <1>6, <2>2 DEF WaitsForTurn
    <3>2. Awaits(e, b)'
      BY <1>5, <1>7, <3>1
    <3> QED BY <3>2
  <2> QED BY <2>1, <2>2
<1>10. \A b \in open' : turn'[b] # "none"
  BY <1>3, <1>6 DEF WaitsForTurn, TypeInv, TypeOK
<1> QED BY <1>8, <1>9, <1>10 DEF WaitsForTurn

(* What takes agents of S away from daemon d ends their turns, and no      *)
(* drain waits for any of them afterwards.                                 *)
LEMMA TakingAwayKeepsWaits ==
  ASSUME TypeInv, HomeInv, WaitsForTurn, NEW d \in Daemons, NEW S \in SUBSET owns[d],
         turn' = [a \in Agents |-> IF a \in S THEN "none" ELSE turn[a]],
         open' \subseteq open \ S,
         owns' = [owns EXCEPT ![d] = @ \ S],
         \A e \in Daemons \ {d} : phase'[e] = phase[e] /\ current'[e] = current[e],
         \/ /\ phase'[d] = phase[d] /\ current'[d] = current[d]
            /\ \A a \in S : ~Awaits(d, a)
         \/ /\ phase'[d] # "turn"
            /\ \A a \in Agents : Awaits(d, a) => a \in S
  PROVE  WaitsForTurn'
<1>1. /\ S \subseteq Agents
      /\ \A e \in Daemons \ {d} : owns'[e] = owns[e]
      /\ owns'[d] = owns[d] \ S
  BY DEF TypeInv, TypeOK
<1>2. ASSUME NEW e \in Daemons, NEW b \in Agents, b \in S, Awaits(e, b) PROVE e = d
  BY <1>2, OneOwner DEF WaitsForTurn
<1>3. ASSUME NEW e \in Daemons, NEW b \in Agents
      PROVE  Awaits(e, b)' <=> Awaits(e, b) /\ b \notin S
  <2>1. CASE e = d
    BY <2>1 DEF Awaits
  <2>2. CASE e # d
    BY <1>2, <2>2 DEF Awaits
  <2> QED BY <2>1, <2>2
<1>4. \A e \in Daemons, b \in Agents : Awaits(e, b)' => turn'[b] = "drain" /\ b \in owns'[e]
  BY <1>1, <1>3 DEF WaitsForTurn
<1>5. \A b \in Agents : turn'[b] = "drain" => \E e \in Daemons : Awaits(e, b)'
  BY <1>3 DEF WaitsForTurn
<1>6. \A b \in open' : turn'[b] # "none"
  BY DEF WaitsForTurn, TypeInv, TypeOK
<1> QED BY <1>4, <1>5, <1>6 DEF WaitsForTurn

LEMMA LifeKeepsWaits ==
  ASSUME TypeInv, HomeInv, WaitsForTurn, NEW d \in Daemons, Life(d) PROVE WaitsForTurn'
<1>1. CASE Restart(d) \/ Stop(d)
  BY <1>1, WaitsKept DEF Restart, Stop, drainVars, agentVars
<1>2. ASSUME Emptied(d), phase'[d] = "idle",
             \A e \in Daemons \ {d} : phase'[e] = phase[e] /\ current'[e] = current[e]
      PROVE  WaitsForTurn'
  <2>1. owns' = [owns EXCEPT ![d] = @ \ owns[d]]
    BY <1>2 DEF Emptied
  <2>2. \A a \in Agents : Awaits(d, a) => a \in owns[d]
    BY DEF WaitsForTurn
  <2> QED BY <1>2, <2>1, <2>2, TakingAwayKeepsWaits DEF Emptied
<1>3. CASE Crash(d)
  BY <1>2, <1>3 DEF Crash, TypeInv, TypeOK
<1>4. CASE StopReturns(d)
  BY <1>2, <1>4 DEF StopReturns, drainVars
<1> QED BY <1>1, <1>3, <1>4 DEF Life

LEMMA HostsKeepWaits ==
  ASSUME TypeInv, HomeInv, WaitsForTurn, NEW d \in Daemons, NEW a \in Agents, HostDies(d, a)
  PROVE  WaitsForTurn'
<1>1. /\ a \in owns[d]
      /\ turn' = [b \in Agents |-> IF b \in {a} THEN "none" ELSE turn[b]]
      /\ open' = open \ {a} /\ owns' = [owns EXCEPT ![d] = @ \ {a}]
  BY DEF HostDies, TypeInv, TypeOK
<1>2. CASE Awaits(d, a)
  <2>1. phase' = [phase EXCEPT ![d] = "failed"] /\ current' = current
    BY <1>2 DEF HostDies, Sleeps
  <2>2. \A b \in Agents : Awaits(d, b) => b \in {a}
    BY <1>2 DEF Awaits
  <2> QED BY <1>1, <2>1, <2>2, TakingAwayKeepsWaits DEF TypeInv, TypeOK
<1>3. CASE ~Awaits(d, a)
  <2>1. phase' = phase /\ current' = current
    BY <1>3 DEF HostDies, drainVars
  <2> QED BY <1>1, <1>3, <2>1, TakingAwayKeepsWaits
<1> QED BY <1>2, <1>3

LEMMA TurnsKeepWaits ==
  ASSUME TypeInv, HomeInv, WaitsForTurn, NEW a \in Agents, TurnEnds(a) PROVE WaitsForTurn'
<1>1. /\ turn' = [turn EXCEPT ![a] = "none"] /\ a \notin open /\ open' = open
      /\ \A b \in Agents : turn'[b] = IF b = a THEN "none" ELSE turn[b]
      /\ owns' = owns
  BY DEF TurnEnds, lifeVars, TypeInv, TypeOK
<1>2. \A e \in Daemons, b \in Agents : Awaits(e, b)' <=> Awaits(e, b) /\ b # a
  <2>1. ASSUME NEW d \in Daemons, Awaits(d, a), Sleeps(d, "acking")
        PROVE  \A e \in Daemons, b \in Agents : Awaits(e, b)' <=> Awaits(e, b) /\ b # a
    <3>1. \A e \in Daemons : Awaits(e, a) => e = d
      BY <2>1, OneOwner DEF WaitsForTurn
    <3>2. /\ phase'[d] = "acking" /\ current' = current
          /\ \A e \in Daemons \ {d} : phase'[e] = phase[e]
      BY <2>1 DEF Sleeps, TypeInv, TypeOK
    <3> QED BY <2>1, <3>1, <3>2 DEF Awaits
  <2>2. ASSUME \A d \in Daemons : ~Awaits(d, a), UNCHANGED drainVars
        PROVE  \A e \in Daemons, b \in Agents : Awaits(e, b)' <=> Awaits(e, b) /\ b # a
    <3>1. \A e \in Daemons, b \in Agents : Awaits(e, b)' <=> Awaits(e, b)
      BY <2>2 DEF Awaits, drainVars
    <3> QED BY <2>2, <3>1
  <2> QED BY <2>1, <2>2 DEF TurnEnds
<1> QED BY <1>1, <1>2 DEF WaitsForTurn, TypeInv, TypeOK

LEMMA AgentsKeepWaits ==
  ASSUME TypeInv, WaitsForTurn,
         \/ \E d \in Daemons, a \in Agents : ClientPrompt(d, a)
         \/ \E a \in Agents : Ask(a) \/ Close(a)
         \/ \E d \in Daemons, v \in Devices : Revoke(d, v)
         \/ \E i \in Intents, n \in 0..QuestionBound : Enqueue(i, n)
         \/ UNCHANGED vars
  PROVE  WaitsForTurn'
<1>1. UNCHANGED <<phase, current, owns>>
  BY DEF ClientPrompt, Ask, Close, Revoke, Enqueue, vars, drainVars, lifeVars
<1>2. \A e \in Daemons, b \in Agents : Awaits(e, b)' <=> Awaits(e, b)
  BY <1>1 DEF Awaits
<1>3. ASSUME NEW d \in Daemons, NEW a \in Agents, ClientPrompt(d, a) PROVE WaitsForTurn'
  <2>1. \A b \in Agents : turn'[b] = IF b = a THEN "client" ELSE turn[b]
    BY <1>3 DEF ClientPrompt, TypeInv, TypeOK
  <2>2. turn[a] = "none" /\ open' = open
    BY <1>3 DEF ClientPrompt
  <2> QED BY <1>1, <1>2, <2>1, <2>2 DEF WaitsForTurn, TypeInv, TypeOK
<1>4. ASSUME NEW a \in Agents, Ask(a) PROVE WaitsForTurn'
  BY <1>1, <1>2, <1>4 DEF Ask, WaitsForTurn
<1>5. ASSUME turn' = turn, open' \subseteq open PROVE WaitsForTurn'
  BY <1>1, <1>2, <1>5 DEF WaitsForTurn
<1> QED BY <1>3, <1>4, <1>5 DEF Close, Revoke, Enqueue, vars, agentVars

THEOREM NobodyIsLeftWaiting == Spec => []NobodyWaitsInVain
<1>1. Init => WaitsForTurn
  BY DEF Init, WaitsForTurn, Awaits
<1>2. TypeInv /\ HomeInv /\ WaitsForTurn /\ [Next]_vars => WaitsForTurn'
  BY DrainKeepsWaits, PromptKeepsWaits, LifeKeepsWaits, HostsKeepWaits, TurnsKeepWaits,
     AgentsKeepWaits DEF Next
<1>3. ASSUME TypeInv, HomeInv, WaitsForTurn PROVE NobodyWaitsInVain
  BY <1>3, OneOwner DEF NobodyWaitsInVain, OneWaits, WaitsForTurn
<1> QED
  BY <1>1, <1>2, <1>3, TypeInit, TypeStep, TakeInit, TakeStep, HomeInit, HomeStep, PTL DEF Spec
=============================================================================
