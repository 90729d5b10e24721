----------------------------- MODULE ModelAccess -----------------------------
(***************************************************************************)
(* Model access of containers (packages/daemon/src/model-broker): a grant  *)
(* per container, the broker that serves the grants of one container       *)
(* network, its listener, and the requests it forwards to the gateway.     *)
(*                                                                         *)
(* One address of the host: containers come and go on networks that have   *)
(* it as their gateway.  It exists while one of them runs, and one socket  *)
(* at most is bound to it.  A broker's bind loop tries again and again and *)
(* is not called off when the broker is closed.                            *)
(***************************************************************************)
EXTENDS Integers, FiniteSets

CONSTANTS
  Containers,      \* each is provisioned once and has one grant
  Requests,
  None,
  Attempts,        \* tries of one bind loop (DEFAULT_BIND_ATTEMPTS)
  MaxConcurrent,
  MaxRequests

ASSUME AccessAssumption ==
  /\ IsFiniteSet(Containers) /\ IsFiniteSet(Requests)
  /\ Attempts \in Nat \ {0} /\ MaxConcurrent \in Nat \ {0} /\ MaxRequests \in Nat \ {0}
  /\ None \notin Nat \cup Containers

(* Every broker is made for a grant.                                       *)
Brokers == 1..Cardinality(Containers)

VARIABLES
  prov,       \* how far a container is provisioned
  running,    \* containers that run
  made,       \* brokers made so far
  current,    \* the address's entry in #brokers
  bound,      \* the address is in #bound
  tries,      \* what is left of a broker's bind loop, 0 when it has none
  probing,    \* brokers whose loop has failed and looks for the reason
  socket,     \* the broker whose server has the address
  grants,     \* the containers whose grants a broker holds
  expired,    \* grants past their TTL
  revoked,    \* grants whose controller is aborted
  stage,      \* a request: none, body, bearer, gateway, stream, ended or done
  by,         \* the container that sends it
  inFlight,   \* of a grant: its slots in use
  used,       \* and its requests spent
  settled,    \* requests whose reservation was refunded or released
  forwarded   \* history: requests that went to the gateway

hostVars    == <<prov, running>>
brokerVars  == <<made, current, bound, tries, probing, socket>>
grantVars   == <<grants, expired, revoked>>
requestVars == <<stage, by, inFlight, used, settled, forwarded>>
vars == <<hostVars, brokerVars, grantVars, requestVars>>

Provisioning == {"none", "granting", "minted", "activating", "failed", "live", "released", "gone"}

Stages == {"none", "body", "bearer", "gateway", "stream", "ended", "done"}

TypeOK ==
  /\ prov \in [Containers -> Provisioning]
  /\ running \subseteq Containers
  /\ made \in 0..Cardinality(Containers)
  /\ current \in Brokers \cup {None}
  /\ bound \in BOOLEAN
  /\ tries \in [Brokers -> 0..Attempts]
  /\ probing \subseteq Brokers
  /\ socket \in Brokers \cup {None}
  /\ grants \in [Brokers -> SUBSET Containers]
  /\ expired \subseteq Containers
  /\ revoked \subseteq Containers
  /\ stage \in [Requests -> Stages]
  /\ by \in [Requests -> Containers \cup {None}]
  /\ inFlight \in [Containers -> Int]
  /\ used \in [Containers -> Int]
  /\ settled \subseteq Requests
  /\ forwarded \subseteq Requests

Init ==
  /\ prov = [c \in Containers |-> "none"] /\ running = {}
  /\ made = 0 /\ current = None /\ bound = FALSE
  /\ tries = [b \in Brokers |-> 0] /\ probing = {} /\ socket = None
  /\ grants = [b \in Brokers |-> {}] /\ expired = {} /\ revoked = {}
  /\ stage = [r \in Requests |-> "none"] /\ by = [r \in Requests |-> None]
  /\ inFlight = [c \in Containers |-> 0] /\ used = [c \in Containers |-> 0]
  /\ settled = {} /\ forwarded = {}

Moves(c, from, to) == prov[c] = from /\ prov' = [prov EXCEPT ![c] = to]

-----------------------------------------------------------------------------
(***************************************************************************)
(* A container is provisioned.                                             *)
(***************************************************************************)

(* grant, up to the await of the loopback services.                        *)
GrantBegins(c) ==
  /\ Moves(c, "none", "granting")
  /\ UNCHANGED <<running, brokerVars, grantVars, requestVars>>

(* listen: it joins the loop that runs, even one that has made its last    *)
(* try, or starts one unless it serves.                                    *)
Listens(b) ==
  tries' = [tries EXCEPT ![b] = IF socket = b \/ @ > 0 \/ b \in probing THEN @ ELSE Attempts]

(* The rest of grant: the broker of the address, made on first use, begins *)
(* to listen, and mints the grant.                                         *)
GrantMints(c) ==
  LET b == IF current = None THEN made + 1 ELSE current
  IN  /\ Moves(c, "granting", "minted")
      /\ made' = IF current = None THEN b ELSE made
      /\ current' = b
      /\ Listens(b)
      /\ grants' = [grants EXCEPT ![b] = @ \cup {c}]
      /\ UNCHANGED <<running, bound, probing, socket, expired, revoked, requestVars>>

(* The services do not start: nothing has been minted.                     *)
GrantFails(c) ==
  /\ Moves(c, "granting", "gone")
  /\ UNCHANGED <<running, brokerVars, grantVars, requestVars>>

(* The container runs, with the endpoint and the token in its home.        *)
Runs(c) ==
  /\ prov[c] = "minted" /\ c \notin running
  /\ running' = running \cup {c}
  /\ UNCHANGED <<prov, brokerVars, grantVars, requestVars>>

(* activate: the address is bound, or its broker serves, or it listens.    *)
(* There is a broker: it holds the grant of c.                             *)
Activate(c) ==
  /\ c \in running
  /\ \/ /\ bound \/ socket = current
        /\ Moves(c, "minted", "live")
        /\ bound' = TRUE /\ UNCHANGED tries
     \/ /\ ~bound /\ socket # current
        /\ Moves(c, "minted", "activating")
        /\ Listens(current) /\ UNCHANGED bound
  /\ UNCHANGED <<running, made, current, probing, socket, grantVars, requestVars>>

-----------------------------------------------------------------------------
(***************************************************************************)
(* The bind loop of broker b, and who waits for it.                        *)
(***************************************************************************)
Waiting(b) == {c \in Containers : prov[c] = "activating" /\ c \in grants[b]}
Settle(b, to) == prov' = [c \in Containers |-> IF c \in Waiting(b) THEN to ELSE prov[c]]

(* Nothing else holds the address, and it exists.                          *)
Free == socket = None /\ running # {}

Binds(b) ==
  /\ tries[b] > 0 /\ Free
  /\ socket' = b
  /\ tries' = [tries EXCEPT ![b] = 0]
  /\ Settle(b, "live")
  /\ bound' = (bound \/ Waiting(b) # {})
  /\ UNCHANGED <<running, made, current, probing, grantVars, requestVars>>

(* The address is not there, or somebody has it, a probe perhaps.          *)
BindFails(b) ==
  /\ tries[b] > 0 /\ (~Free \/ probing \ {b} # {})
  /\ tries' = [tries EXCEPT ![b] = @ - 1]
  /\ probing' = IF tries[b] = 1 THEN probing \cup {b} ELSE probing
  /\ UNCHANGED <<hostVars, made, current, bound, socket, grantVars, requestVars>>

(* The reason is known, and the loop rejects.                              *)
GivesUp(b) ==
  /\ b \in probing /\ probing' = probing \ {b}
  /\ Settle(b, "failed")
  /\ UNCHANGED <<running, made, current, bound, tries, socket, grantVars, requestVars>>

-----------------------------------------------------------------------------
(***************************************************************************)
(* Grants end.                                                             *)
(***************************************************************************)

(* A grant outlives every provision: its time ends while its container runs.*)
Expire(c) ==
  /\ prov[c] = "live" /\ c \notin expired
  /\ expired' = expired \cup {c}
  /\ UNCHANGED <<hostVars, brokerVars, grants, revoked, requestVars>>

(* liveGrants drops what has expired, for status; and so does the request  *)
(* that presents it.                                                       *)
Purge(b) ==
  /\ current = b /\ grants[b] \cap expired # {}
  /\ grants' = [grants EXCEPT ![b] = @ \ expired]
  /\ UNCHANGED <<hostVars, brokerVars, expired, revoked, requestVars>>

(* Defect: the address stays in #bound.                                    *)
LastGrantKeepsBound(b) ==
  /\ current' = None /\ bound' = bound
  /\ socket' = IF socket = b THEN None ELSE socket

(* The listener comes down with the last grant.  A bind loop goes on.      *)
LastGrantEnds(b) ==
  /\ current' = None /\ bound' = FALSE
  /\ socket' = IF socket = b THEN None ELSE socket

(* release, of a container that is destroyed or could not be provisioned.  *)
Release(c) ==
  /\ prov[c] \in {"minted", "failed", "live"}
  /\ prov' = [prov EXCEPT ![c] = "released"]
  /\ \/ /\ current = None
        /\ UNCHANGED <<current, bound, socket, grants, revoked>>
     \/ \E b \in Brokers :
          /\ current = b
          /\ revoked' = revoked \cup (grants[b] \cap {c})
          /\ grants' = [grants EXCEPT ![b] = @ \ (expired \cup {c})]
          /\ IF grants[b] \subseteq expired \cup {c}
             THEN LastGrantEnds(b)
             ELSE UNCHANGED <<current, bound, socket>>
  /\ UNCHANGED <<running, made, tries, probing, expired, requestVars>>

(* The container is removed, after its grant.                              *)
Removed(c) ==
  /\ Moves(c, "released", "gone")
  /\ running' = running \ {c}
  /\ UNCHANGED <<brokerVars, grantVars, requestVars>>

-----------------------------------------------------------------------------
(***************************************************************************)
(* Requests of a container to the broker that has the address.             *)
(***************************************************************************)
Authenticates(c) == socket # None /\ c \in grants[socket] \ expired

Admissible(c) == inFlight[c] < MaxConcurrent /\ used[c] < MaxRequests

(* Defect: nothing is counted at admission.                                *)
ReservesNothing(c) == UNCHANGED <<inFlight, used>>

Reserves(c) ==
  /\ inFlight' = [inFlight EXCEPT ![c] = @ + 1]
  /\ used' = [used EXCEPT ![c] = @ + 1]

(* #fetch up to its first await.  What is denied changes nothing.          *)
Admit(r, c) ==
  /\ stage[r] = "none" /\ c \in running /\ Authenticates(c) /\ Admissible(c)
  /\ stage' = [stage EXCEPT ![r] = "body"]
  /\ by' = [by EXCEPT ![r] = c]
  /\ Reserves(c)
  /\ UNCHANGED <<hostVars, brokerVars, grantVars, settled, forwarded>>

Reaches(r, s) == stage' = [stage EXCEPT ![r] = s]

(* Defect: what is given back again counts again.                          *)
OwedAgain(r) == 1

(* Nothing is owed once the reservation is settled.                        *)
Owed(r) == IF r \in settled THEN 0 ELSE 1

(* refund gives back the slot and the request, release the slot.           *)
Refunds(r) ==
  /\ inFlight' = [inFlight EXCEPT ![by[r]] = @ - Owed(r)]
  /\ used' = [used EXCEPT ![by[r]] = @ - Owed(r)]
  /\ settled' = settled \cup {r}

Releases(r) ==
  /\ inFlight' = [inFlight EXCEPT ![by[r]] = @ - Owed(r)]
  /\ settled' = settled \cup {r}
  /\ UNCHANGED used

(* The body is read and names the model.                                   *)
BodyRead(r) ==
  /\ stage[r] = "body" /\ Reaches(r, "bearer")
  /\ UNCHANGED <<hostVars, brokerVars, grantVars, by, inFlight, used, settled, forwarded>>

(* The body is too large, no JSON or names another model, or the gateway's *)
(* credential cannot be read.                                              *)
RefusedLocally(r) ==
  /\ stage[r] \in {"body", "bearer"} /\ Reaches(r, "done") /\ Refunds(r)
  /\ UNCHANGED <<hostVars, brokerVars, grantVars, by, forwarded>>

(* Defect: the request does not carry the signal of its grant.             *)
Unsignalled(c) == FALSE

(* fetch rejects at once when the signal is aborted.                       *)
Aborted(c) == c \in revoked

Dispatch(r) ==
  /\ stage[r] = "bearer"
  /\ \/ /\ Aborted(by[r])
        /\ Reaches(r, "done") /\ Releases(r) /\ UNCHANGED forwarded
     \/ /\ ~Aborted(by[r])
        /\ Reaches(r, "gateway") /\ forwarded' = forwarded \cup {r}
        /\ UNCHANGED <<inFlight, used, settled>>
  /\ UNCHANGED <<hostVars, brokerVars, grantVars, by>>

(* The gateway answers with a stream, which has the slot from then on.     *)
Answered(r) ==
  /\ stage[r] = "gateway" /\ Reaches(r, "stream")
  /\ UNCHANGED <<hostVars, brokerVars, grantVars, by, inFlight, used, settled, forwarded>>

(* It fails, is aborted, or answers without a body: the finally releases.  *)
GatewayEnds(r) ==
  /\ stage[r] = "gateway" /\ Reaches(r, "done") /\ Releases(r)
  /\ UNCHANGED <<hostVars, brokerVars, grantVars, by, forwarded>>

(* The stream ends: flush or cancel of the meter releases.  Which of the   *)
(* hooks a runtime calls, and whether one only, is not the broker's.       *)
StreamEnds(r) ==
  /\ stage[r] = "stream" /\ Reaches(r, "ended") /\ Releases(r)
  /\ UNCHANGED <<hostVars, brokerVars, grantVars, by, forwarded>>

(* The other hook runs too.                                                *)
EndsAgain(r) ==
  /\ stage[r] = "ended" /\ Reaches(r, "done") /\ Releases(r)
  /\ UNCHANGED <<hostVars, brokerVars, grantVars, by, forwarded>>

-----------------------------------------------------------------------------
Provision(c) ==
  GrantBegins(c) \/ GrantMints(c) \/ GrantFails(c) \/ Runs(c) \/ Activate(c)
Bind(b) == Binds(b) \/ BindFails(b) \/ GivesUp(b)
Serve(r) ==
  \/ BodyRead(r) \/ RefusedLocally(r) \/ Dispatch(r) \/ Answered(r)
  \/ GatewayEnds(r) \/ StreamEnds(r) \/ EndsAgain(r)

Next ==
  \/ \E c \in Containers : Provision(c) \/ Expire(c) \/ Release(c) \/ Removed(c)
  \/ \E b \in Brokers : Bind(b) \/ Purge(b)
  \/ \E r \in Requests : Serve(r) \/ \E c \in Containers : Admit(r, c)

Spec == Init /\ [][Next]_vars

-----------------------------------------------------------------------------
(***************************************************************************)
(* Properties.                                                             *)
(***************************************************************************)
Sent(c)     == {r \in forwarded : by[r] = c}
Upstream(c) == {r \in Requests : by[r] = c /\ stage[r] \in {"gateway", "stream"}}
Reserved(c) == {r \in Requests : by[r] = c /\ stage[r] \in {"body", "bearer"}}

(* However many requests of a guest dribble their bodies at once, the      *)
(* gateway sees no more than the ceilings of its grant.                    *)
CeilingsHold ==
  \A c \in Containers :
    Cardinality(Sent(c)) <= MaxRequests /\ Cardinality(Upstream(c)) <= MaxConcurrent

(* No exit leaks a slot or gives it back twice, and a grant that is not    *)
(* revoked has spent what went to the gateway and what may still go.       *)
BooksBalance ==
  \A c \in Containers :
    /\ inFlight[c] = Cardinality(Reserved(c)) + Cardinality(Upstream(c))
    /\ c \notin revoked => used[c] = Cardinality(Reserved(c)) + Cardinality(Sent(c))

(* A container that was handed over can authenticate at its endpoint until *)
(* its grant expires, whoever shares the address, and whoever had it before.*)
ActivatedIsServed ==
  \A c \in Containers : prov[c] = "live" /\ c \notin expired => Authenticates(c)

(* Once the grant of a container is released nothing of it goes to the     *)
(* gateway, not even what was admitted before, unless the grant had        *)
(* expired.                                                                *)
ReleasedIsSilent ==
  [][\A r \in forwarded' \ forwarded :
       prov[by[r]] \in {"released", "gone"} => by[r] \in expired]_vars

(* "Cancels every upstream request this grant still has in flight"         *)
(* (broker.ts): the same of a grant that has expired.                      *)
RevocationReaches ==
  [][\A r \in forwarded' \ forwarded : prov[by[r]] \notin {"released", "gone"}]_vars

(* "The listener stays up while any grant on this address is still live,   *)
(* and comes down with the last one" (model-access.ts).                    *)
ListenerComesDown == socket # None => socket = current
=============================================================================
