-------------------------- MODULE ModelAccessProofs --------------------------
(***************************************************************************)
(* Proofs about ModelAccess, for any containers, requests and ceilings.    *)
(***************************************************************************)
EXTENDS ModelAccess, FiniteSetTheorems, TLAPS

(* Containers whose grant is held, unless it has expired.                  *)
Granted == {"minted", "activating", "failed", "live"}

(* Containers for which a broker may have been made.                       *)
Counted == {c \in Containers : prov[c] \notin {"none", "granting"}}

(* TypeOK, and a broker is made only for a grant.                          *)
TypeInv == TypeOK /\ made <= Cardinality(Counted)

LEMMA CountedIsFinite == IsFiniteSet(Counted) /\ Cardinality(Counted) \in Nat
  BY AccessAssumption, FS_Subset, FS_CardinalityType DEF AccessAssumption, Counted

(* The two variables TypeInv counts with.                                  *)
LEMMA CountedGrows ==
  ASSUME TypeInv, NEW c \in Containers, prov[c] \in {"none", "granting"},
         \A x \in Containers \ {c} : prov'[x] = prov[x],
         prov'[c] \notin {"none", "granting"}
  PROVE  /\ Cardinality(Counted') = Cardinality(Counted) + 1
         /\ Cardinality(Counted') <= Cardinality(Containers)
<1>1. Counted' = Counted \cup {c} /\ c \notin Counted
  BY DEF Counted
<1>2. Cardinality(Counted') = Cardinality(Counted) + 1
  BY <1>1, CountedIsFinite, FS_AddElement
<1>3. Counted' \subseteq Containers
  BY DEF Counted
<1>4. QED
  BY <1>2, <1>3, AccessAssumption, FS_Subset DEF AccessAssumption

LEMMA CountedStays ==
  ASSUME TypeInv, \A x \in Containers : prov[x] \in {"none", "granting"} <=> prov'[x] \in {"none", "granting"}
  PROVE  Cardinality(Counted') = Cardinality(Counted)
<1>1. Counted' = Counted
  BY DEF Counted
<1>2. QED
  BY <1>1

LEMMA Numbers ==
  /\ Attempts \in Nat /\ Attempts > 0 /\ MaxConcurrent \in Nat /\ MaxRequests \in Nat
  /\ Cardinality(Containers) \in Nat
  /\ None \notin Brokers /\ None \notin Containers
  BY AccessAssumption, FS_CardinalityType DEF AccessAssumption, Brokers

LEMMA ListensType ==
  ASSUME tries \in [Brokers -> 0..Attempts], NEW b, Listens(b)
  PROVE  tries' \in [Brokers -> 0..Attempts]
<1>1. Attempts \in 0..Attempts
  BY Numbers
<1> DEFINE joins == socket = b \/ tries[b] > 0 \/ b \in probing
<1>2. tries' = [tries EXCEPT ![b] = IF joins THEN @ ELSE Attempts]
  BY DEF Listens
<1> HIDE DEF joins
<1>3. QED
  BY <1>1, <1>2

LEMMA TypeInit == Init => TypeInv
<1> SUFFICES ASSUME Init PROVE TypeInv
  OBVIOUS
<1>1. made \in 0..Cardinality(Containers) /\ tries \in [Brokers -> 0..Attempts]
  BY Numbers DEF Init
<1>2. /\ prov \in [Containers -> Provisioning] /\ grants \in [Brokers -> SUBSET Containers]
      /\ stage \in [Requests -> Stages]
  BY DEF Init, Provisioning, Stages
<1>3. inFlight \in [Containers -> Int] /\ used \in [Containers -> Int]
  BY DEF Init
<1>4. TypeOK
  BY <1>1, <1>2, <1>3 DEF Init, TypeOK
<1>5. made <= Cardinality(Counted)
  <2>1. made = 0
    BY DEF Init
  <2>2. QED
    BY <2>1, CountedIsFinite
<1>6. QED
  BY <1>4, <1>5 DEF TypeInv

LEMMA ProvisionKeepsTypes ==
  ASSUME TypeInv, NEW c \in Containers, Provision(c)
  PROVE  TypeInv'
<1> USE DEF TypeInv, TypeOK
<1>1. CASE GrantBegins(c)
  <2>1. Cardinality(Counted') = Cardinality(Counted)
    BY <1>1, CountedStays DEF GrantBegins, Moves
  <2>2. QED
    BY <1>1, <2>1 DEF GrantBegins, Moves, hostVars, brokerVars, grantVars, requestVars, Provisioning
<1>2. CASE GrantMints(c)
  <2> DEFINE b == IF current = None THEN made + 1 ELSE current
  <2>1. /\ Cardinality(Counted') = Cardinality(Counted) + 1
        /\ Cardinality(Counted') <= Cardinality(Containers)
    BY <1>2, CountedGrows DEF GrantMints, Moves
  <2>2. b \in Brokers
    <3>1. made + 1 \in Brokers
      BY <2>1, Numbers, CountedIsFinite DEF Brokers
    <3>2. QED
      BY <3>1
  <2>3. made' \in 0..Cardinality(Containers) /\ made' <= Cardinality(Counted')
    BY <1>2, <2>1, Numbers, CountedIsFinite DEF GrantMints
  <2>4. tries' \in [Brokers -> 0..Attempts]
    BY <1>2, ListensType DEF GrantMints
  <2>5. grants' \in [Brokers -> SUBSET Containers]
    <3>1. grants' = [grants EXCEPT ![b] = @ \cup {c}]
      BY <1>2 DEF GrantMints
    <3> HIDE DEF b
    <3>2. QED
      BY <3>1
  <2>6. prov' \in [Containers -> Provisioning]
    BY <1>2 DEF GrantMints, Moves, Provisioning
  <2>7. QED
    BY <1>2, <2>2, <2>3, <2>4, <2>5, <2>6 DEF GrantMints, requestVars
<1>3. CASE GrantFails(c)
  <2>1. Cardinality(Counted') = Cardinality(Counted) + 1
    BY <1>3, CountedGrows DEF GrantFails, Moves
  <2>2. QED
    BY <1>3, <2>1, CountedIsFinite
    DEF GrantFails, Moves, brokerVars, grantVars, requestVars, Provisioning
<1>4. CASE Runs(c)
  <2>1. Cardinality(Counted') = Cardinality(Counted)
    BY <1>4, CountedStays DEF Runs
  <2>2. QED
    BY <1>4, <2>1 DEF Runs, brokerVars, grantVars, requestVars
<1>5. CASE Activate(c)
  <2>1. prov[c] = "minted" /\ \/ prov' = [prov EXCEPT ![c] = "live"]
                              \/ prov' = [prov EXCEPT ![c] = "activating"]
    BY <1>5 DEF Activate, Moves
  <2>2. prov' \in [Containers -> Provisioning]
    BY <2>1 DEF Provisioning
  <2>3. Cardinality(Counted') = Cardinality(Counted)
    BY <2>1, CountedStays
  <2>4. tries' \in [Brokers -> 0..Attempts]
    BY <1>5, ListensType DEF Activate
  <2>5. bound' \in BOOLEAN
    BY <1>5 DEF Activate
  <2>6. QED
    BY <1>5, <2>2, <2>3, <2>4, <2>5 DEF Activate, grantVars, requestVars
<1>6. QED
  BY <1>1, <1>2, <1>3, <1>4, <1>5 DEF Provision

LEMMA BindKeepsTypes ==
  ASSUME TypeInv, NEW b \in Brokers, Bind(b)
  PROVE  TypeInv'
<1> USE DEF TypeInv, TypeOK
<1>1. ASSUME NEW to \in {"live", "failed"}, Settle(b, to)
      PROVE  prov' \in [Containers -> Provisioning] /\ Cardinality(Counted') = Cardinality(Counted)
  <2>1. \A x \in Containers : prov'[x] \in {prov[x], to} /\ (prov'[x] # prov[x] => prov[x] = "activating")
    BY <1>1 DEF Settle, Waiting
  <2>2. prov' \in [Containers -> Provisioning]
    BY <1>1 DEF Settle, Waiting, Provisioning
  <2>3. QED
    BY <2>1, <2>2, CountedStays
<1>2. CASE Binds(b)
  <2>1. prov' \in [Containers -> Provisioning] /\ Cardinality(Counted') = Cardinality(Counted)
    BY <1>1, <1>2 DEF Binds
  <2>2. tries' \in [Brokers -> 0..Attempts]
    BY <1>2, Numbers DEF Binds
  <2>3. QED
    BY <1>2, <2>1, <2>2 DEF Binds, grantVars, requestVars
<1>3. CASE BindFails(b)
  <2>1. tries' \in [Brokers -> 0..Attempts]
    BY <1>3, Numbers DEF BindFails
  <2>2. probing' \subseteq Brokers
    BY <1>3 DEF BindFails
  <2>3. Cardinality(Counted') = Cardinality(Counted)
    BY <1>3, CountedStays DEF BindFails, hostVars
  <2>4. QED
    BY <1>3, <2>1, <2>2, <2>3 DEF BindFails, hostVars, grantVars, requestVars
<1>4. CASE GivesUp(b)
  <2>1. prov' \in [Containers -> Provisioning] /\ Cardinality(Counted') = Cardinality(Counted)
    BY <1>1, <1>4 DEF GivesUp
  <2>2. QED
    BY <1>4, <2>1 DEF GivesUp, grantVars, requestVars
<1>5. QED
  BY <1>2, <1>3, <1>4 DEF Bind

LEMMA EndsKeepTypes ==
  ASSUME TypeInv,
         \/ \E c \in Containers : Expire(c) \/ Release(c) \/ Removed(c)
         \/ \E b \in Brokers : Purge(b)
  PROVE  TypeInv'
<1> USE DEF TypeInv, TypeOK
<1>1. ASSUME NEW c \in Containers, Expire(c)
      PROVE  TypeInv'
  <2>1. Cardinality(Counted') = Cardinality(Counted)
    BY <1>1, CountedStays DEF Expire, hostVars
  <2>2. QED
    BY <1>1, <2>1 DEF Expire, hostVars, brokerVars, requestVars
<1>2. ASSUME NEW c \in Containers, Release(c)
      PROVE  TypeInv'
  <2>1. prov[c] \in {"minted", "failed", "live"} /\ prov' = [prov EXCEPT ![c] = "released"]
    BY <1>2 DEF Release
  <2>2. prov' \in [Containers -> Provisioning] /\ Cardinality(Counted') = Cardinality(Counted)
    BY <2>1, CountedStays DEF Provisioning
  <2>3. CASE UNCHANGED <<current, bound, socket, grants, revoked>>
    BY <1>2, <2>2, <2>3 DEF Release, requestVars
  <2>4. ASSUME NEW b \in Brokers,
               revoked' = revoked \cup (grants[b] \cap {c}),
               grants' = [grants EXCEPT ![b] = @ \ (expired \cup {c})],
               LastGrantEnds(b) \/ UNCHANGED <<current, bound, socket>>
        PROVE  TypeInv'
    <3>1. revoked' \subseteq Containers /\ grants' \in [Brokers -> SUBSET Containers]
      BY <2>4
    <3>2. current' \in Brokers \cup {None} /\ bound' \in BOOLEAN /\ socket' \in Brokers \cup {None}
      BY <2>4 DEF LastGrantEnds
    <3>3. QED
      BY <1>2, <2>2, <3>1, <3>2 DEF Release, requestVars
  <2>5. QED
    BY <1>2, <2>3, <2>4 DEF Release
<1>3. ASSUME NEW c \in Containers, Removed(c)
      PROVE  TypeInv'
  <2>1. prov' \in [Containers -> Provisioning] /\ Cardinality(Counted') = Cardinality(Counted)
    BY <1>3, CountedStays DEF Removed, Moves, Provisioning
  <2>2. QED
    BY <1>3, <2>1 DEF Removed, brokerVars, grantVars, requestVars
<1>4. ASSUME NEW b \in Brokers, Purge(b)
      PROVE  TypeInv'
  <2>1. Cardinality(Counted') = Cardinality(Counted)
    BY <1>4, CountedStays DEF Purge, hostVars
  <2>2. grants' \in [Brokers -> SUBSET Containers]
    BY <1>4 DEF Purge
  <2>3. QED
    BY <1>4, <2>1, <2>2 DEF Purge, hostVars, brokerVars, requestVars
<1>5. QED
  BY <1>1, <1>2, <1>3, <1>4

LEMMA RequestsKeepTypes ==
  ASSUME TypeInv, NEW r \in Requests, Serve(r) \/ \E c \in Containers : Admit(r, c)
  PROVE  TypeInv'
<1> USE DEF TypeInv, TypeOK
<1>1. UNCHANGED <<hostVars, brokerVars, grantVars>>
  BY DEF Serve, BodyRead, RefusedLocally, Dispatch, Answered, GatewayEnds, StreamEnds, EndsAgain,
         Admit
<1>2. Cardinality(Counted') = Cardinality(Counted)
  BY <1>1, CountedStays DEF hostVars
<1>3. stage' \in [Requests -> Stages]
  BY DEF Serve, BodyRead, RefusedLocally, Dispatch, Answered, GatewayEnds, StreamEnds, EndsAgain,
         Admit, Reaches, Stages, TypeInv, TypeOK
<1>4. by' \in [Requests -> Containers \cup {None}] /\ forwarded' \subseteq Requests
  BY DEF Serve, BodyRead, RefusedLocally, Dispatch, Answered, GatewayEnds, StreamEnds, EndsAgain,
         Admit
<1>5. settled' \subseteq Requests
  BY DEF Serve, BodyRead, RefusedLocally, Dispatch, Answered, GatewayEnds, StreamEnds, EndsAgain,
         Admit, Refunds, Releases
<1>6. Owed(r) \in Int
  BY DEF Owed
<1>7. inFlight' \in [Containers -> Int] /\ used' \in [Containers -> Int]
  BY <1>6 DEF Serve, BodyRead, RefusedLocally, Dispatch, Answered, GatewayEnds, StreamEnds,
              EndsAgain, Admit, Refunds, Releases, Reserves
<1>8. QED
  BY <1>1, <1>2, <1>3, <1>4, <1>5, <1>7 DEF hostVars, brokerVars, grantVars

LEMMA TypeStep == TypeInv /\ [Next]_vars => TypeInv'
<1> SUFFICES ASSUME TypeInv, [Next]_vars PROVE TypeInv'
  OBVIOUS
<1>1. CASE UNCHANGED vars
  <2>1. Counted' = Counted
    BY <1>1 DEF vars, hostVars, Counted
  <2>2. QED
    BY <1>1, <2>1 DEF vars, hostVars, brokerVars, grantVars, requestVars, TypeInv, TypeOK
<1>2. QED
  BY <1>1, ProvisionKeepsTypes, BindKeepsTypes, EndsKeepTypes, RequestsKeepTypes DEF Next

(* The variables keep their types; no more brokers are made than there are *)
(* containers.                                                             *)
THEOREM TypeCorrect == Spec => []TypeOK
<1>1. TypeInv => TypeOK
  BY DEF TypeInv
<1>2. QED
  BY <1>1, TypeInit, TypeStep, PTL DEF Spec

-----------------------------------------------------------------------------
(***************************************************************************)
(* The address and the grants on it.                                       *)
(***************************************************************************)

(* Only the broker in use has grants; the address counts as bound only     *)
(* while that broker has it; a provision in progress or done has its grant *)
(* there, unless it has expired; and nobody is live at an unbound address. *)
OneBroker   == \A b \in Brokers : b # current => grants[b] = {}
BoundServes == bound => current # None /\ socket = current
GrantsHeld  == \A c \in Containers :
                 prov[c] \in Granted /\ c \notin expired => current # None /\ c \in grants[current]
HeldGranted == \A b \in Brokers : \A c \in grants[b] : prov[c] \in Granted
LiveBound   == \A c \in Containers : prov[c] = "live" /\ c \notin expired => bound
LiveExpires == \A c \in expired : prov[c] \in {"live", "released", "gone"}

ServiceInv ==
  OneBroker /\ BoundServes /\ GrantsHeld /\ HeldGranted /\ LiveBound /\ LiveExpires

LEMMA ServiceInit == Init => ServiceInv
  BY DEF Init, ServiceInv, OneBroker, BoundServes, GrantsHeld, HeldGranted, LiveBound,
         LiveExpires, Granted

LEMMA ProvisionKeepsService ==
  ASSUME TypeInv, TypeInv', ServiceInv, NEW c \in Containers, Provision(c)
  PROVE  ServiceInv'
<1> USE DEF ServiceInv, OneBroker, BoundServes, GrantsHeld, HeldGranted, LiveBound,
            LiveExpires, Granted, Moves
<1> USE DEF TypeInv, TypeOK
<1>1. CASE GrantBegins(c)
  BY <1>1 DEF GrantBegins, brokerVars, grantVars
<1>2. CASE GrantMints(c)
  <2> DEFINE b == IF current = None THEN made + 1 ELSE current
  <2>1. b \in Brokers /\ b # None /\ current' = b
    BY <1>2, Numbers DEF GrantMints
  <2>2. grants' = [grants EXCEPT ![b] = @ \cup {c}]
    BY <1>2 DEF GrantMints
  <2>3. b = current \/ (current = None /\ grants[b] = {})
    BY <2>1
  <2>4. prov[c] = "granting" /\ prov' = [prov EXCEPT ![c] = "minted"]
        /\ UNCHANGED <<bound, socket, expired>>
    BY <1>2 DEF GrantMints
  <2> HIDE DEF b
  <2>5. OneBroker'
    <3>1. ASSUME NEW x \in Brokers, x # b
          PROVE  grants'[x] = {}
      <4>1. x # current
        BY <2>3, <3>1, Numbers
      <4>2. grants[x] = {}
        BY <4>1
      <4>3. QED
        BY <2>2, <3>1, <4>2
    <3>2. QED
      BY <2>1, <3>1
  <2>6. BoundServes' /\ LiveBound' /\ LiveExpires'
    BY <2>1, <2>3, <2>4
  <2>7. GrantsHeld'
    BY <2>1, <2>2, <2>3, <2>4
  <2>8. HeldGranted'
    BY <2>1, <2>2, <2>4
  <2>9. QED
    BY <2>5, <2>6, <2>7, <2>8
<1>3. CASE GrantFails(c)
  BY <1>3 DEF GrantFails, brokerVars, grantVars
<1>4. CASE Runs(c)
  BY <1>4 DEF Runs, brokerVars, grantVars
<1>5. CASE Activate(c)
  <2>1. prov[c] = "minted" /\ UNCHANGED <<current, socket, grants, expired>>
    BY <1>5 DEF Activate, grantVars
  <2>2. current # None /\ c \in grants[current]
    BY <2>1
  <2>3. \/ prov' = [prov EXCEPT ![c] = "live"] /\ bound' = TRUE /\ socket = current
        \/ prov' = [prov EXCEPT ![c] = "activating"] /\ bound' = bound
    BY <1>5 DEF Activate
  <2>4. QED
    BY <2>1, <2>2, <2>3
<1>6. QED
  BY <1>1, <1>2, <1>3, <1>4, <1>5 DEF Provision

LEMMA BindKeepsService ==
  ASSUME TypeInv, ServiceInv, NEW b \in Brokers, Bind(b)
  PROVE  ServiceInv'
<1> USE DEF ServiceInv, OneBroker, BoundServes, GrantsHeld, HeldGranted, LiveBound,
            LiveExpires, Granted
<1> USE DEF TypeInv, TypeOK
<1>1. \A c \in Waiting(b) : b = current /\ prov[c] = "activating"
  BY DEF Waiting
<1>2. CASE Binds(b)
  <2>1. ~bound /\ socket' = b /\ UNCHANGED <<current, grants, expired>>
    BY <1>2 DEF Binds, Free, grantVars
  <2>2. bound' = (Waiting(b) # {})
    BY <1>2, <2>1 DEF Binds
  <2>3. \A c \in Containers : prov'[c] = IF c \in Waiting(b) THEN "live" ELSE prov[c]
    BY <1>2 DEF Binds, Settle
  <2>4. BoundServes'
    <3>1. b # None
      BY Numbers
    <3>2. CASE Waiting(b) = {}
      BY <2>2, <3>2
    <3>3. CASE Waiting(b) # {}
      BY <1>1, <2>1, <3>1, <3>3
    <3>4. QED
      BY <3>2, <3>3
  <2>5. LiveBound' /\ GrantsHeld' /\ LiveExpires'
    BY <1>1, <2>1, <2>2, <2>3
  <2>6. OneBroker' /\ HeldGranted'
    BY <1>1, <2>1, <2>3
  <2>7. QED
    BY <2>4, <2>5, <2>6
<1>3. CASE BindFails(b)
  BY <1>3 DEF BindFails, hostVars, grantVars
<1>4. CASE GivesUp(b)
  <2>1. UNCHANGED <<current, bound, socket, grants, expired>>
    BY <1>4 DEF GivesUp, grantVars
  <2>2. \A c \in Containers : prov'[c] = IF c \in Waiting(b) THEN "failed" ELSE prov[c]
    BY <1>4 DEF GivesUp, Settle
  <2>3. QED
    BY <1>1, <2>1, <2>2
<1>5. QED
  BY <1>2, <1>3, <1>4 DEF Bind

LEMMA EndsKeepService ==
  ASSUME TypeInv, ServiceInv,
         \/ \E c \in Containers : Expire(c) \/ Release(c) \/ Removed(c)
         \/ \E b \in Brokers : Purge(b)
  PROVE  ServiceInv'
<1> USE DEF ServiceInv, OneBroker, BoundServes, GrantsHeld, HeldGranted, LiveBound,
            LiveExpires, Granted
<1> USE DEF TypeInv, TypeOK
<1>1. ASSUME NEW c \in Containers, Expire(c)
      PROVE  ServiceInv'
  BY <1>1 DEF Expire, hostVars, brokerVars
<1>2. ASSUME NEW c \in Containers, Release(c)
      PROVE  ServiceInv'
  <2>1. /\ prov[c] \in {"minted", "failed", "live"}
        /\ prov' = [prov EXCEPT ![c] = "released"] /\ UNCHANGED expired
    BY <1>2 DEF Release
  <2>2. CASE current = None /\ UNCHANGED <<current, bound, socket, grants>>
    BY <2>1, <2>2, Numbers
  <2>3. ASSUME NEW b \in Brokers, current = b,
               grants' = [grants EXCEPT ![b] = @ \ (expired \cup {c})],
               grants[b] \subseteq expired \cup {c}, LastGrantEnds(b)
        PROVE  ServiceInv'
    <3>1. \A x \in Containers : prov'[x] \in Granted /\ x \notin expired' => FALSE
      BY <2>1, <2>3
    <3>2. \A x \in Brokers : grants'[x] = {}
      BY <2>3
    <3>3. bound' = FALSE /\ current' = None
      BY <2>3 DEF LastGrantEnds
    <3>4. LiveExpires'
      BY <2>1
    <3>5. QED
      BY <3>1, <3>2, <3>3, <3>4
  <2>4. ASSUME NEW b \in Brokers, current = b,
               grants' = [grants EXCEPT ![b] = @ \ (expired \cup {c})],
               UNCHANGED <<current, bound, socket>>
        PROVE  ServiceInv'
    <3>1. OneBroker' /\ BoundServes' /\ LiveBound' /\ LiveExpires'
      BY <2>1, <2>4
    <3>2. GrantsHeld'
      BY <2>1, <2>4
    <3>3. HeldGranted'
      BY <2>1, <2>4
    <3>4. QED
      BY <3>1, <3>2, <3>3
  <2>5. QED
    BY <1>2, <2>2, <2>3, <2>4 DEF Release
<1>3. ASSUME NEW c \in Containers, Removed(c)
      PROVE  ServiceInv'
  BY <1>3 DEF Removed, Moves, brokerVars, grantVars
<1>4. ASSUME NEW b \in Brokers, Purge(b)
      PROVE  ServiceInv'
  BY <1>4 DEF Purge, hostVars, brokerVars
<1>5. QED
  BY <1>1, <1>2, <1>3, <1>4

LEMMA RequestsLeaveService ==
  ASSUME NEW r \in Requests, Serve(r) \/ \E c \in Containers : Admit(r, c)
  PROVE  UNCHANGED <<hostVars, brokerVars, grantVars>>
BY DEF Serve, BodyRead, RefusedLocally, Dispatch, Answered, GatewayEnds, StreamEnds, EndsAgain,
         Admit

LEMMA ServiceStep == TypeInv /\ TypeInv' /\ ServiceInv /\ [Next]_vars => ServiceInv'
<1> SUFFICES ASSUME TypeInv, TypeInv', ServiceInv, [Next]_vars PROVE ServiceInv'
  OBVIOUS
<1>1. CASE UNCHANGED <<hostVars, brokerVars, grantVars>>
  BY <1>1 DEF hostVars, brokerVars, grantVars, ServiceInv, OneBroker, BoundServes, GrantsHeld,
              HeldGranted, LiveBound, LiveExpires
<1>2. QED
  BY <1>1, ProvisionKeepsService, BindKeepsService, EndsKeepService, RequestsLeaveService
  DEF Next, vars

(* A container that was handed over is served until its grant expires,     *)
(* whoever shares its address and whichever bind loops are left over.      *)
THEOREM ActivatedAreServed == Spec => []ActivatedIsServed
<1>1. TypeInv /\ ServiceInv => ActivatedIsServed
  BY DEF TypeInv, TypeOK, ServiceInv, LiveBound, BoundServes, GrantsHeld, Granted,
         ActivatedIsServed, Authenticates
<1>2. QED
  BY <1>1, TypeInit, TypeStep, ServiceInit, ServiceStep, PTL DEF Spec

-----------------------------------------------------------------------------
(***************************************************************************)
(* Requests and the grants they were admitted under.                       *)
(***************************************************************************)

(* A request under way has its container; one that may still be sent was   *)
(* admitted under a grant that is held, or is aborted, or has expired; and *)
(* the reservation of one that has ended, and of no other, is settled.     *)
HasOwner(r) == stage[r] # "none" => by[r] \in Containers
Covered(r)  == stage[r] \in {"body", "bearer"} =>
                 prov[by[r]] \in Granted \/ by[r] \in revoked \cup expired
Settles(r)  == r \in settled <=> stage[r] \in {"ended", "done"}

RequestInv == \A r \in Requests : HasOwner(r) /\ Covered(r) /\ Settles(r)

LEMMA RequestInit == Init => RequestInv
  BY DEF Init, RequestInv, HasOwner, Covered, Settles

(* A step of the host or of a broker takes no held grant away unheard.     *)
LEMMA GrantsAreWatched ==
  ASSUME TypeInv, ServiceInv, NEW c \in Containers,
         prov[c] \in Granted \/ c \in revoked \cup expired,
         \/ \E x \in Containers : Provision(x) \/ Expire(x) \/ Release(x) \/ Removed(x)
         \/ \E b \in Brokers : Bind(b) \/ Purge(b)
  PROVE  prov'[c] \in Granted \/ c \in (revoked \cup expired)'
<1> USE DEF Granted, TypeInv, TypeOK
<1>1. ASSUME NEW x \in Containers, Provision(x)
      PROVE  prov'[c] \in Granted \/ c \in (revoked \cup expired)'
  BY <1>1 DEF Provision, GrantBegins, GrantMints, GrantFails, Runs, Activate, Moves, grantVars
<1>2. ASSUME NEW x \in Containers, Expire(x) \/ Removed(x)
      PROVE  prov'[c] \in Granted \/ c \in (revoked \cup expired)'
  BY <1>2 DEF Expire, Removed, Moves, hostVars, grantVars
<1>3. ASSUME NEW x \in Containers, Release(x)
      PROVE  prov'[c] \in Granted \/ c \in (revoked \cup expired)'
  <2>1. prov' = [prov EXCEPT ![x] = "released"] /\ expired' = expired /\ revoked \subseteq revoked'
    BY <1>3 DEF Release
  <2>2. CASE c # x
    BY <2>1, <2>2
  <2>3. CASE c = x /\ c \notin revoked \cup expired
    <3>1. current # None /\ c \in grants[current]
      BY <2>3 DEF ServiceInv, GrantsHeld
    <3>2. revoked' = revoked \cup (grants[current] \cap {c})
      BY <1>3, <2>3, <3>1 DEF Release
    <3>3. QED
      BY <3>1, <3>2
  <2>4. QED
    BY <2>1, <2>2, <2>3
<1>4. ASSUME NEW b \in Brokers, Bind(b) \/ Purge(b)
      PROVE  prov'[c] \in Granted \/ c \in (revoked \cup expired)'
  BY <1>4 DEF Bind, Binds, BindFails, GivesUp, Purge, Settle, Waiting, hostVars, grantVars
<1>5. QED
  BY <1>1, <1>2, <1>3, <1>4

LEMMA HostLeavesRequests ==
  ASSUME \/ \E x \in Containers : Provision(x) \/ Expire(x) \/ Release(x) \/ Removed(x)
         \/ \E b \in Brokers : Bind(b) \/ Purge(b)
  PROVE  UNCHANGED requestVars
BY DEF Provision, GrantBegins, GrantMints, GrantFails, Runs, Activate, Expire, Release, Removed,
       Bind, Binds, BindFails, GivesUp, Purge

LEMMA RequestStep == TypeInv /\ ServiceInv /\ RequestInv /\ [Next]_vars => RequestInv'
<1> SUFFICES ASSUME TypeInv, ServiceInv, RequestInv, [Next]_vars,
                    NEW q \in Requests
             PROVE  HasOwner(q)' /\ Covered(q)' /\ Settles(q)'
  BY DEF RequestInv
<1> USE DEF RequestInv, HasOwner, Covered, Settles
<1>1. CASE UNCHANGED vars
  BY <1>1 DEF vars, hostVars, grantVars, requestVars
<1>2. CASE \/ \E x \in Containers : Provision(x) \/ Expire(x) \/ Release(x) \/ Removed(x)
           \/ \E b \in Brokers : Bind(b) \/ Purge(b)
  <2>1. UNCHANGED <<stage, by, settled>>
    BY <1>2, HostLeavesRequests DEF requestVars
  <2>2. QED
    BY <1>2, <2>1, GrantsAreWatched
<1>3. ASSUME NEW r \in Requests, Serve(r)
      PROVE  HasOwner(q)' /\ Covered(q)' /\ Settles(q)'
  <2>1. UNCHANGED <<prov, revoked, expired>>
    BY <1>3, RequestsLeaveService DEF hostVars, grantVars
  <2>2. by' = by /\ stage[r] # "none" /\ (stage'[r] \in {"body", "bearer"} => stage[r] = "body")
        /\ \A x \in Requests \ {r} : stage'[x] = stage[x]
    BY <1>3 DEF Serve, BodyRead, RefusedLocally, Dispatch, Answered, GatewayEnds, StreamEnds,
                EndsAgain, Reaches, TypeInv, TypeOK
  <2>3. Settles(q)'
    BY <1>3 DEF Serve, BodyRead, RefusedLocally, Dispatch, Answered, GatewayEnds, StreamEnds,
                EndsAgain, Reaches, Refunds, Releases, TypeInv, TypeOK
  <2>4. QED
    BY <2>1, <2>2, <2>3
<1>4. ASSUME NEW r \in Requests, NEW c \in Containers, Admit(r, c)
      PROVE  HasOwner(q)' /\ Covered(q)' /\ Settles(q)'
  <2>1. UNCHANGED <<prov, revoked, expired>>
    BY <1>4, RequestsLeaveService DEF hostVars, grantVars
  <2>2. /\ by' = [by EXCEPT ![r] = c] /\ stage' = [stage EXCEPT ![r] = "body"]
        /\ settled' = settled /\ stage[r] = "none"
    BY <1>4 DEF Admit
  <2>3. prov[c] \in Granted
    BY <1>4 DEF Admit, Authenticates, TypeInv, TypeOK, ServiceInv, HeldGranted
  <2>4. QED
    BY <2>1, <2>2, <2>3 DEF TypeInv, TypeOK
<1>5. QED
  BY <1>1, <1>2, <1>3, <1>4 DEF Next

(* Only Dispatch sends to the gateway, and not under an aborted grant.     *)
LEMMA SentUnaborted ==
  ASSUME [Next]_vars, NEW r \in forwarded' \ forwarded
  PROVE  stage[r] = "bearer" /\ by' = by /\ prov' = prov /\ by[r] \notin revoked /\ r \in Requests
<1>1. CASE \E q \in Requests : Dispatch(q)
  BY <1>1 DEF Dispatch, Aborted, hostVars
<1>2. CASE UNCHANGED forwarded
  BY <1>2
<1>3. QED
  BY <1>1, <1>2, HostLeavesRequests
  DEF Next, vars, requestVars, Serve, BodyRead, RefusedLocally, Answered, GatewayEnds, StreamEnds, EndsAgain,
         Admit

(* Once a container's grant is released nothing of the container goes to   *)
(* the gateway, unless the grant had expired by itself.                    *)
THEOREM ReleasedAreSilent == Spec => ReleasedIsSilent
<1>1. RequestInv /\ [Next]_vars =>
        [\A r \in forwarded' \ forwarded :
           prov[by[r]] \in {"released", "gone"} => by[r] \in expired]_vars
  BY SentUnaborted DEF RequestInv, Covered, Granted
<1>2. QED
  BY <1>1, TypeInit, TypeStep, ServiceInit, ServiceStep, RequestInit, RequestStep, PTL
  DEF Spec, ReleasedIsSilent

-----------------------------------------------------------------------------
(***************************************************************************)
(* The books of a grant.                                                   *)
(***************************************************************************)

(* What went to the gateway has left admission; and the ceilings, which    *)
(* are about the books, hold of the requests because the books balance.    *)
ForwardedLeft == \A r \in forwarded : stage[r] \in {"gateway", "stream", "ended", "done"}
Ceilings(c)   == /\ inFlight[c] <= MaxConcurrent /\ used[c] <= MaxRequests
                 /\ Cardinality(Sent(c)) <= MaxRequests

BooksInv == ForwardedLeft /\ BooksBalance /\ \A c \in Containers : Ceilings(c)

LEMMA BooksAreFinite ==
  ASSUME TypeInv, NEW c \in Containers
  PROVE  /\ IsFiniteSet(Reserved(c)) /\ IsFiniteSet(Upstream(c)) /\ IsFiniteSet(Sent(c))
         /\ Cardinality(Reserved(c)) \in Nat /\ Cardinality(Upstream(c)) \in Nat
         /\ Cardinality(Sent(c)) \in Nat
<1>1. /\ Reserved(c) \subseteq Requests /\ Upstream(c) \subseteq Requests
      /\ Sent(c) \subseteq Requests
  BY DEF Reserved, Upstream, Sent, TypeInv, TypeOK
<1>2. IsFiniteSet(Requests)
  BY AccessAssumption DEF AccessAssumption
<1>3. QED
  BY <1>1, <1>2, FS_Subset, FS_CardinalityType

LEMMA BooksInit == Init => BooksInv
<1> SUFFICES ASSUME Init PROVE BooksInv
  OBVIOUS
<1>1. ASSUME NEW c \in Containers
      PROVE  /\ Reserved(c) = {} /\ Upstream(c) = {} /\ Sent(c) = {}
             /\ inFlight[c] = 0 /\ used[c] = 0
  BY DEF Init, Reserved, Upstream, Sent
<1>2. Cardinality({}) = 0
  BY FS_EmptySet
<1>3. BooksBalance
  BY <1>1, <1>2 DEF BooksBalance
<1>4. \A c \in Containers : Ceilings(c)
  BY <1>1, <1>2, Numbers, AccessAssumption DEF Ceilings, AccessAssumption
<1>5. ForwardedLeft
  BY DEF Init, ForwardedLeft
<1>6. QED
  BY <1>3, <1>4, <1>5 DEF BooksInv

(* A step that touches no request of c, and revokes at most, keeps its     *)
(* books.                                                                  *)
LEMMA SameBooks ==
  ASSUME BooksInv, NEW c \in Containers, revoked \subseteq revoked',
         Reserved(c)' = Reserved(c), Upstream(c)' = Upstream(c), Sent(c)' = Sent(c),
         inFlight'[c] = inFlight[c], used'[c] = used[c]
  PROVE  /\ inFlight'[c] = Cardinality(Reserved(c)') + Cardinality(Upstream(c)')
         /\ c \notin revoked' => used'[c] = Cardinality(Reserved(c)') + Cardinality(Sent(c)')
         /\ Ceilings(c)'
BY DEF BooksInv, BooksBalance, Ceilings

LEMMA BooksSuffice ==
  ASSUME ForwardedLeft',
         \A c \in Containers :
           /\ inFlight'[c] = Cardinality(Reserved(c)') + Cardinality(Upstream(c)')
           /\ c \notin revoked' => used'[c] = Cardinality(Reserved(c)') + Cardinality(Sent(c)')
           /\ Ceilings(c)'
  PROVE  BooksInv'
BY DEF BooksInv, BooksBalance

LEMMA AdmitKeepsBooks ==
  ASSUME TypeInv, BooksInv, NEW r \in Requests, NEW c \in Containers, Admit(r, c)
  PROVE  BooksInv'
<1>1. /\ stage[r] = "none" /\ stage' = [stage EXCEPT ![r] = "body"]
      /\ by' = [by EXCEPT ![r] = c] /\ UNCHANGED <<revoked, forwarded>>
      /\ inFlight' = [inFlight EXCEPT ![c] = @ + 1] /\ used' = [used EXCEPT ![c] = @ + 1]
      /\ inFlight[c] < MaxConcurrent /\ used[c] < MaxRequests
  BY DEF Admit, Reserves, Admissible, grantVars
<1>2. /\ stage \in [Requests -> Stages]
      /\ by \in [Requests -> Containers \cup {None}] /\ forwarded \subseteq Requests
      /\ inFlight \in [Containers -> Int] /\ used \in [Containers -> Int]
  BY DEF TypeInv, TypeOK
<1>3. r \notin forwarded /\ ForwardedLeft'
  BY <1>1, <1>2 DEF BooksInv, ForwardedLeft
<1>4. ASSUME NEW x \in Containers
      PROVE  /\ Upstream(x)' = Upstream(x) /\ Sent(x)' = Sent(x)
             /\ Reserved(x)' = IF x = c THEN Reserved(x) \cup {r} ELSE Reserved(x)
             /\ r \notin Reserved(x)
  <2>1. Upstream(x)' = Upstream(x)
    BY <1>1, <1>2 DEF Upstream
  <2>2. Sent(x)' = Sent(x)
    BY <1>1, <1>2, <1>3 DEF Sent
  <2>3. /\ Reserved(x)' = IF x = c THEN Reserved(x) \cup {r} ELSE Reserved(x)
        /\ r \notin Reserved(x)
    BY <1>1, <1>2 DEF Reserved
  <2>4. QED
    BY <2>1, <2>2, <2>3
<1>5. ASSUME NEW x \in Containers
      PROVE  /\ inFlight'[x] = Cardinality(Reserved(x)') + Cardinality(Upstream(x)')
             /\ x \notin revoked' => used'[x] = Cardinality(Reserved(x)') + Cardinality(Sent(x)')
             /\ Ceilings(x)'
  <2>1. CASE x # c
    BY <1>1, <1>2, <1>4, <2>1, SameBooks
  <2>2. CASE x = c
    <3>1. Cardinality(Reserved(c)') = Cardinality(Reserved(c)) + 1
      BY <1>4, BooksAreFinite, FS_AddElement
    <3>2. /\ Cardinality(Upstream(c)') = Cardinality(Upstream(c))
          /\ Cardinality(Sent(c)') = Cardinality(Sent(c))
      BY <1>4
    <3>3. inFlight'[c] = inFlight[c] + 1 /\ used'[c] = used[c] + 1 /\ revoked' = revoked
      BY <1>1, <1>2
    <3>4. /\ inFlight[c] = Cardinality(Reserved(c)) + Cardinality(Upstream(c))
          /\ c \notin revoked => used[c] = Cardinality(Reserved(c)) + Cardinality(Sent(c))
          /\ Cardinality(Sent(c)) <= MaxRequests
      BY DEF BooksInv, BooksBalance, Ceilings
    <3>5. inFlight[c] + 1 <= MaxConcurrent /\ used[c] + 1 <= MaxRequests
      BY <1>1, <1>2, Numbers
    <3>6. Ceilings(c)'
      BY <3>2, <3>3, <3>4, <3>5 DEF Ceilings
    <3>7. QED
      BY <2>2, <3>1, <3>2, <3>3, <3>4, <3>6, BooksAreFinite
  <2>3. QED
    BY <2>1, <2>2
<1>6. QED
  BY <1>3, <1>5, BooksSuffice

(* The request of a container that a step moves, and the types of what it  *)
(* is counted in.                                                          *)
LEMMA RequestTypes ==
  ASSUME TypeInv, RequestInv, NEW r \in Requests, stage[r] # "none"
  PROVE  /\ stage \in [Requests -> Stages]
         /\ by[r] \in Containers /\ forwarded \subseteq Requests
         /\ inFlight \in [Containers -> Int] /\ used \in [Containers -> Int]
         /\ stage[r] \notin {"ended", "done"} => Owed(r) = 1
         /\ stage[r] \in {"ended", "done"} => Owed(r) = 0
BY DEF TypeInv, TypeOK, RequestInv, HasOwner, Settles, Owed

(* A request waits for its bearer, or streams: it is counted as before.    *)
LEMMA ReadingKeepsBooks ==
  ASSUME TypeInv, RequestInv, BooksInv, NEW r \in Requests, BodyRead(r) \/ Answered(r)
  PROVE  BooksInv'
<1>1. /\ UNCHANGED <<revoked, by, inFlight, used, forwarded>>
      /\ \/ stage[r] = "body" /\ stage' = [stage EXCEPT ![r] = "bearer"]
         \/ stage[r] = "gateway" /\ stage' = [stage EXCEPT ![r] = "stream"]
  BY DEF BodyRead, Answered, Reaches, grantVars
<1>2. stage[r] # "none"
  BY <1>1
<1>3. ForwardedLeft'
  BY <1>1, <1>2, RequestTypes DEF BooksInv, ForwardedLeft
<1>4. ASSUME NEW x \in Containers
      PROVE  Reserved(x)' = Reserved(x) /\ Upstream(x)' = Upstream(x) /\ Sent(x)' = Sent(x)
  BY <1>1, <1>2, RequestTypes DEF Reserved, Upstream, Sent
<1>5. QED
  BY <1>1, <1>3, <1>4, SameBooks, BooksSuffice

(* A reservation ends without a request to the gateway: it is refunded, or *)
(* the grant is revoked.                                                   *)
LEMMA RefusalKeepsBooks ==
  ASSUME TypeInv, RequestInv, BooksInv, NEW r \in Requests,
         stage[r] \in {"body", "bearer"}, Reaches(r, "done"),
         Refunds(r) \/ (by[r] \in revoked /\ Releases(r)),
         UNCHANGED <<revoked, by, forwarded>>
  PROVE  BooksInv'
<1>0. PICK c \in Containers : c = by[r]
  BY RequestTypes
<1>1. /\ stage \in [Requests -> Stages]
      /\ c \in Containers /\ forwarded \subseteq Requests
      /\ inFlight \in [Containers -> Int] /\ used \in [Containers -> Int]
  BY RequestTypes
<1>2. /\ stage' = [stage EXCEPT ![r] = "done"]
      /\ inFlight' = [inFlight EXCEPT ![c] = @ - 1]
      /\ used' = [used EXCEPT ![c] = @ - 1] \/ (c \in revoked /\ used' = used)
  BY <1>0, RequestTypes DEF Reaches, Refunds, Releases
<1>3. ForwardedLeft'
  BY <1>1, <1>2 DEF BooksInv, ForwardedLeft
<1>4. ASSUME NEW x \in Containers
      PROVE  /\ Upstream(x)' = Upstream(x) /\ Sent(x)' = Sent(x)
             /\ Reserved(x)' = IF x = c THEN Reserved(x) \ {r} ELSE Reserved(x)
  BY <1>0, <1>1, <1>2 DEF Reserved, Upstream, Sent
<1>5. r \in Reserved(c)
  BY <1>0 DEF Reserved
<1>6. ASSUME NEW x \in Containers
      PROVE  /\ inFlight'[x] = Cardinality(Reserved(x)') + Cardinality(Upstream(x)')
             /\ x \notin revoked' => used'[x] = Cardinality(Reserved(x)') + Cardinality(Sent(x)')
             /\ Ceilings(x)'
  <2>1. CASE x # c
    <3>1. inFlight'[x] = inFlight[x] /\ used'[x] = used[x]
      BY <1>1, <1>2, <2>1
    <3>2. Reserved(x)' = Reserved(x)
      BY <1>4, <2>1
    <3>3. QED
      BY <1>4, <3>1, <3>2, SameBooks
  <2>2. CASE x = c
    <3>1. Cardinality(Reserved(c)') = Cardinality(Reserved(c)) - 1
      BY <1>1, <1>4, <1>5, BooksAreFinite, FS_RemoveElement
    <3>2. /\ Cardinality(Upstream(c)') = Cardinality(Upstream(c))
          /\ Cardinality(Sent(c)') = Cardinality(Sent(c))
      BY <1>1, <1>4
    <3>3. /\ inFlight'[c] = inFlight[c] - 1 /\ used'[c] <= used[c]
          /\ used'[c] = used[c] - 1 \/ c \in revoked
      BY <1>1, <1>2
    <3>4. /\ inFlight[c] = Cardinality(Reserved(c)) + Cardinality(Upstream(c))
          /\ c \notin revoked => used[c] = Cardinality(Reserved(c)) + Cardinality(Sent(c))
          /\ inFlight[c] <= MaxConcurrent /\ used[c] <= MaxRequests
          /\ Cardinality(Sent(c)) <= MaxRequests
      BY <1>1 DEF BooksInv, BooksBalance, Ceilings
    <3>5. inFlight[c] \in Int /\ used[c] \in Int /\ inFlight'[c] \in Int /\ used'[c] \in Int
      BY <1>1, <1>2
    <3>6. Ceilings(c)'
      BY <3>2, <3>3, <3>4, <3>5, Numbers DEF Ceilings
    <3>7. QED
      BY <1>1, <2>2, <3>1, <3>2, <3>3, <3>4, <3>5, <3>6, BooksAreFinite
  <2>3. QED
    BY <2>1, <2>2
<1>7. QED
  BY <1>3, <1>6, BooksSuffice

(* A request goes to the gateway: what was reserved is spent.              *)
LEMMA SendingKeepsBooks ==
  ASSUME TypeInv, RequestInv, BooksInv, NEW r \in Requests,
         stage[r] = "bearer", Reaches(r, "gateway"), by[r] \notin revoked,
         forwarded' = forwarded \cup {r}, UNCHANGED <<revoked, by, inFlight, used>>
  PROVE  BooksInv'
<1>0. PICK c \in Containers : c = by[r]
  BY RequestTypes
<1>1. /\ stage \in [Requests -> Stages]
      /\ c \in Containers /\ forwarded \subseteq Requests
      /\ inFlight \in [Containers -> Int] /\ used \in [Containers -> Int]
  BY RequestTypes
<1>2. stage' = [stage EXCEPT ![r] = "gateway"]
  BY DEF Reaches
<1>3. ForwardedLeft' /\ r \notin forwarded
  BY <1>1, <1>2 DEF BooksInv, ForwardedLeft
<1>4. ASSUME NEW x \in Containers
      PROVE  /\ Upstream(x)' = IF x = c THEN Upstream(x) \cup {r} ELSE Upstream(x)
             /\ Sent(x)' = IF x = c THEN Sent(x) \cup {r} ELSE Sent(x)
             /\ Reserved(x)' = IF x = c THEN Reserved(x) \ {r} ELSE Reserved(x)
  <2>1. Upstream(x)' = IF x = c THEN Upstream(x) \cup {r} ELSE Upstream(x)
    BY <1>0, <1>1, <1>2 DEF Upstream
  <2>2. Sent(x)' = IF x = c THEN Sent(x) \cup {r} ELSE Sent(x)
    BY <1>0, <1>1, <1>2 DEF Sent
  <2>3. Reserved(x)' = IF x = c THEN Reserved(x) \ {r} ELSE Reserved(x)
    BY <1>0, <1>1, <1>2 DEF Reserved
  <2>4. QED
    BY <2>1, <2>2, <2>3
<1>5. r \in Reserved(c) /\ r \notin Upstream(c) /\ r \notin Sent(c)
  BY <1>0, <1>3 DEF Reserved, Upstream, Sent
<1>6. c \notin revoked
  BY <1>0
<1>7. ASSUME NEW x \in Containers
      PROVE  /\ inFlight'[x] = Cardinality(Reserved(x)') + Cardinality(Upstream(x)')
             /\ x \notin revoked' => used'[x] = Cardinality(Reserved(x)') + Cardinality(Sent(x)')
             /\ Ceilings(x)'
  <2>1. CASE x # c
    <3>1. Reserved(x)' = Reserved(x) /\ Upstream(x)' = Upstream(x) /\ Sent(x)' = Sent(x)
      BY <1>4, <2>1
    <3>2. QED
      BY <3>1, SameBooks
  <2>2. CASE x = c
    <3>1. Cardinality(Reserved(c)') = Cardinality(Reserved(c)) - 1
      BY <1>1, <1>4, <1>5, BooksAreFinite, FS_RemoveElement
    <3>2. Cardinality(Upstream(c)') = Cardinality(Upstream(c)) + 1
      BY <1>1, <1>4, <1>5, BooksAreFinite, FS_AddElement
    <3>3. Cardinality(Sent(c)') = Cardinality(Sent(c)) + 1
      BY <1>1, <1>4, <1>5, BooksAreFinite, FS_AddElement
    <3>4. Reserved(c)' = Reserved(c) \ {r} /\ IsFiniteSet(Reserved(c)')
      BY <1>1, <1>4, BooksAreFinite, FS_Subset
    <3>5. Cardinality(Reserved(c)') \in Nat
      BY <3>4, FS_CardinalityType
    <3>6. /\ inFlight[c] = Cardinality(Reserved(c)) + Cardinality(Upstream(c))
          /\ used[c] = Cardinality(Reserved(c)) + Cardinality(Sent(c))
          /\ inFlight[c] <= MaxConcurrent /\ used[c] <= MaxRequests
      BY <1>1, <1>6 DEF BooksInv, BooksBalance, Ceilings
    <3>7. /\ Cardinality(Reserved(c)) \in Nat /\ Cardinality(Upstream(c)) \in Nat
          /\ Cardinality(Sent(c)) \in Nat
      BY <1>1, BooksAreFinite
    <3>8. Ceilings(c)'
      BY <3>1, <3>3, <3>5, <3>6, <3>7, Numbers DEF Ceilings
    <3>9. QED
      BY <2>2, <3>1, <3>2, <3>3, <3>6, <3>7, <3>8
  <2>3. QED
    BY <2>1, <2>2
<1>8. QED
  BY <1>3, <1>7, BooksSuffice

(* A request of the gateway ends: its slot is free, it stays spent.        *)
LEMMA EndingKeepsBooks ==
  ASSUME TypeInv, RequestInv, BooksInv, NEW r \in Requests, GatewayEnds(r) \/ StreamEnds(r)
  PROVE  BooksInv'
<1>0. PICK c \in Containers : c = by[r]
  BY RequestTypes DEF GatewayEnds, StreamEnds
<1>1. /\ stage[r] \in {"gateway", "stream"}
      /\ stage' = [stage EXCEPT ![r] = "ended"] \/ stage' = [stage EXCEPT ![r] = "done"]
      /\ inFlight' = [inFlight EXCEPT ![c] = @ - 1]
      /\ UNCHANGED <<revoked, by, used, forwarded>>
  BY <1>0, RequestTypes DEF GatewayEnds, StreamEnds, Reaches, Releases, grantVars
<1>2. /\ stage \in [Requests -> Stages]
      /\ c \in Containers /\ forwarded \subseteq Requests
      /\ inFlight \in [Containers -> Int] /\ used \in [Containers -> Int]
  BY <1>1, RequestTypes
<1>3. ForwardedLeft'
  BY <1>1, <1>2 DEF BooksInv, ForwardedLeft
<1>4. ASSUME NEW x \in Containers
      PROVE  /\ Reserved(x)' = Reserved(x) /\ Sent(x)' = Sent(x)
             /\ Upstream(x)' = IF x = c THEN Upstream(x) \ {r} ELSE Upstream(x)
  BY <1>0, <1>1, <1>2 DEF Reserved, Upstream, Sent
<1>5. r \in Upstream(c)
  BY <1>0, <1>1 DEF Upstream
<1>6. ASSUME NEW x \in Containers
      PROVE  /\ inFlight'[x] = Cardinality(Reserved(x)') + Cardinality(Upstream(x)')
             /\ x \notin revoked' => used'[x] = Cardinality(Reserved(x)') + Cardinality(Sent(x)')
             /\ Ceilings(x)'
  <2>1. CASE x # c
    <3>1. inFlight'[x] = inFlight[x] /\ Upstream(x)' = Upstream(x)
      BY <1>1, <1>2, <1>4, <2>1
    <3>2. QED
      BY <1>1, <1>4, <3>1, SameBooks
  <2>2. CASE x = c
    <3>1. Cardinality(Upstream(c)') = Cardinality(Upstream(c)) - 1
      BY <1>2, <1>4, <1>5, BooksAreFinite, FS_RemoveElement
    <3>2. Reserved(c)' = Reserved(c) /\ Sent(c)' = Sent(c)
      BY <1>2, <1>4
    <3>3. inFlight'[c] = inFlight[c] - 1 /\ used'[c] = used[c] /\ inFlight[c] \in Int
      BY <1>1, <1>2
    <3>4. /\ inFlight[c] = Cardinality(Reserved(c)) + Cardinality(Upstream(c))
          /\ c \notin revoked => used[c] = Cardinality(Reserved(c)) + Cardinality(Sent(c))
          /\ Ceilings(c)
      BY <1>2 DEF BooksInv, BooksBalance
    <3>5. Ceilings(c)'
      BY <3>2, <3>3, <3>4, Numbers DEF Ceilings
    <3>6. QED
      BY <1>1, <1>2, <2>2, <3>1, <3>2, <3>3, <3>4, <3>5, BooksAreFinite
  <2>3. QED
    BY <2>1, <2>2
<1>7. QED
  BY <1>3, <1>6, BooksSuffice

(* The end of a stream is told again: nothing is owed any more.            *)
LEMMA SecondEndKeepsBooks ==
  ASSUME TypeInv, RequestInv, BooksInv, NEW r \in Requests, EndsAgain(r)
  PROVE  BooksInv'
<1>1. stage[r] = "ended" /\ stage' = [stage EXCEPT ![r] = "done"] /\ Owed(r) = 0
  BY RequestTypes DEF EndsAgain, Reaches
<1>2. UNCHANGED <<revoked, by, used, forwarded>>
  BY DEF EndsAgain, Releases, grantVars
<1>3. ASSUME NEW x \in Containers
      PROVE  inFlight'[x] = inFlight[x]
  BY <1>1, RequestTypes DEF EndsAgain, Releases
<1>4. ForwardedLeft'
  BY <1>1, <1>2, RequestTypes DEF BooksInv, ForwardedLeft
<1>5. ASSUME NEW x \in Containers
      PROVE  Reserved(x)' = Reserved(x) /\ Upstream(x)' = Upstream(x) /\ Sent(x)' = Sent(x)
  BY <1>1, <1>2, RequestTypes DEF Reserved, Upstream, Sent
<1>6. QED
  BY <1>2, <1>3, <1>4, <1>5, SameBooks, BooksSuffice

(* What the host and the brokers do revokes grants at most.                *)
LEMMA HostKeepsBooks ==
  ASSUME BooksInv, UNCHANGED requestVars, revoked \subseteq revoked'
  PROVE  BooksInv'
<1>1. UNCHANGED <<stage, by, inFlight, used, forwarded>>
  BY DEF requestVars
<1>2. ASSUME NEW x \in Containers
      PROVE  Reserved(x)' = Reserved(x) /\ Upstream(x)' = Upstream(x) /\ Sent(x)' = Sent(x)
  BY <1>1 DEF Reserved, Upstream, Sent
<1>3. ForwardedLeft'
  BY <1>1 DEF BooksInv, ForwardedLeft
<1>4. QED
  BY <1>1, <1>2, <1>3, SameBooks, BooksSuffice

LEMMA RevokedGrows ==
  ASSUME \/ \E x \in Containers : Provision(x) \/ Expire(x) \/ Release(x) \/ Removed(x)
         \/ \E b \in Brokers : Bind(b) \/ Purge(b)
  PROVE  revoked \subseteq revoked'
BY DEF Provision, GrantBegins, GrantMints, GrantFails, Runs, Activate, Expire, Release, Removed,
       Bind, Binds, BindFails, GivesUp, Purge, grantVars

LEMMA BooksStep == TypeInv /\ RequestInv /\ BooksInv /\ [Next]_vars => BooksInv'
<1> SUFFICES ASSUME TypeInv, RequestInv, BooksInv, [Next]_vars PROVE BooksInv'
  OBVIOUS
<1>1. CASE UNCHANGED vars
  BY <1>1, HostKeepsBooks DEF vars, grantVars
<1>2. CASE \/ \E x \in Containers : Provision(x) \/ Expire(x) \/ Release(x) \/ Removed(x)
           \/ \E b \in Brokers : Bind(b) \/ Purge(b)
  BY <1>2, HostLeavesRequests, RevokedGrows, HostKeepsBooks
<1>3. ASSUME NEW r \in Requests, RefusedLocally(r)
      PROVE  BooksInv'
  BY <1>3, RefusalKeepsBooks DEF RefusedLocally, grantVars
<1>4. ASSUME NEW r \in Requests, Dispatch(r)
      PROVE  BooksInv'
  <2>1. CASE by[r] \in revoked
    BY <1>4, <2>1, RefusalKeepsBooks DEF Dispatch, Aborted, grantVars
  <2>2. CASE by[r] \notin revoked
    BY <1>4, <2>2, SendingKeepsBooks DEF Dispatch, Aborted, grantVars
  <2>3. QED
    BY <2>1, <2>2
<1>5. QED
  BY <1>1, <1>2, <1>3, <1>4, AdmitKeepsBooks, ReadingKeepsBooks, EndingKeepsBooks,
     SecondEndKeepsBooks DEF Next, Serve

(* No exit leaks or repeats a slot of a grant, however requests of its     *)
(* container interleave and whenever it is revoked.                        *)
THEOREM BooksAlwaysBalance == Spec => []BooksBalance
<1>1. BooksInv => BooksBalance
  BY DEF BooksInv
<1>2. QED
  BY <1>1, TypeInit, TypeStep, ServiceInit, ServiceStep, RequestInit, RequestStep, BooksInit,
     BooksStep, PTL DEF Spec

(* And so the gateway never sees more of a container than its ceilings.    *)
THEOREM CeilingsAlwaysHold == Spec => []CeilingsHold
<1>1. TypeInv /\ BooksInv => CeilingsHold
  <2> SUFFICES ASSUME TypeInv, BooksInv, NEW c \in Containers
               PROVE  /\ Cardinality(Sent(c)) <= MaxRequests
                      /\ Cardinality(Upstream(c)) <= MaxConcurrent
    BY DEF CeilingsHold
  <2>1. /\ inFlight[c] = Cardinality(Reserved(c)) + Cardinality(Upstream(c))
        /\ inFlight[c] <= MaxConcurrent /\ Cardinality(Sent(c)) <= MaxRequests
    BY DEF BooksInv, BooksBalance, Ceilings
  <2>2. QED
    BY <2>1, BooksAreFinite, Numbers
<1>2. QED
  BY <1>1, TypeInit, TypeStep, ServiceInit, ServiceStep, RequestInit, RequestStep, BooksInit,
     BooksStep, PTL DEF Spec
=============================================================================
