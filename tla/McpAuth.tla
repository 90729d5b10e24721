------------------------------- MODULE McpAuth -------------------------------
(***************************************************************************)
(* The broker of MCP grants (packages/daemon/src/mcpauth): the only thing  *)
(* that redeems refresh tokens, for the proxied requests of sessions, for  *)
(* operators and for a sweep that refreshes ahead of expiry, over rows     *)
(* that logins, imports and forgets replace under it.                      *)
(*                                                                         *)
(* A refresh token is a generation of an authorization: each login is an   *)
(* authorization of its own, what OMP had is authorization 0, and a        *)
(* provider that rotates answers with the next generation.  Providers are  *)
(* seen through their answers, which may be any.                           *)
(***************************************************************************)
EXTENDS Naturals

CONSTANTS
  Grants,     \* ids derived from resource and account
  Exchanges,  \* exchanges that may be in flight
  Logins,     \* bound on logins, by grant
  Imports,    \* bound on imports, by grant
  GenBound    \* bound on rotations of one authorization

ASSUME BoundsAssumption ==
  /\ Logins \in [Grants -> Nat]
  /\ Imports \in [Grants -> Nat]
  /\ GenBound \in Nat

VARIABLES
  row,       \* mcp_auth_grants
  access,    \* #access: the bearer in memory
  ex,        \* exchanges, and the token each presented
  inflight,  \* #inflight, by grant
  sweeping,  \* #sweeping
  todo,      \* grants the sweep has listed and not yet looked at
  held,      \* those it listed as backing off
  awaited,   \* the exchange the sweep awaits
  listening, \* the proxy is up, and broker.start() has run
  logins,    \* logins so far
  imports,   \* imports so far
  newest     \* newest generation a row has ever held, by grant and authorization

sweepVars == <<sweeping, todo, held, awaited>>
vars == <<row, access, ex, inflight, sweepVars, listening, logins, imports, newest>>

Auths(g) == 0..Logins[g]
Gens     == 0..GenBound
Dead     == {"reauth_required", "no_refresh_grant"}
States   == Dead \cup {"healthy", "refreshing", "degraded"}

(* What a row has to refresh with: all of it, no refresh token or a server *)
(* that supports none, or no client it could name.                         *)
Means    == {"refresh", "nothing", "client"}

NoGrant    == [state |-> "none"]
NoToken    == [auth |-> "none"]
NoExchange == [auth |-> "none"]
None       == "none"

ASSUME NoneIsNoExchange == None \notin Exchanges

Rows(g)    == [state : States, auth : Auths(g), gen : Gens, means : Means, backoff : BOOLEAN]
Bearers(g) == [auth : Auths(g), gen : Gens, aged : BOOLEAN]

TypeOK ==
  /\ \A g \in Grants : row[g] \in Rows(g) \cup {NoGrant}
  /\ \A g \in Grants : access[g] \in Bearers(g) \cup {NoToken}
  /\ \A e \in Exchanges :
       \/ ex[e] = NoExchange
       \/ \E g \in Grants : ex[e] \in [grant : {g}, auth : Auths(g), gen : Gens, forced : BOOLEAN]
  /\ inflight \in [Grants -> Exchanges \cup {None}]
  /\ sweeping \in BOOLEAN
  /\ todo \subseteq Grants
  /\ held \subseteq todo
  /\ awaited \in Exchanges \cup {None}
  /\ listening \in BOOLEAN
  /\ \A g \in Grants : logins[g] \in 0..Logins[g] /\ imports[g] \in 0..Imports[g]
  /\ \A g \in Grants : newest[g] \in [Auths(g) -> Gens]

Init ==
  /\ row = [g \in Grants |-> NoGrant]
  /\ access = [g \in Grants |-> NoToken]
  /\ ex = [e \in Exchanges |-> NoExchange]
  /\ inflight = [g \in Grants |-> None]
  /\ sweeping = FALSE
  /\ todo = {}
  /\ held = {}
  /\ awaited = None
  /\ listening \in BOOLEAN
  /\ logins = [g \in Grants |-> 0]
  /\ imports = [g \in Grants |-> 0]
  /\ newest = [g \in Grants |-> [n \in Auths(g) |-> 0]]

-----------------------------------------------------------------------------
(***************************************************************************)
(* Beginning an exchange: #refresh and #exchange up to the request.        *)
(***************************************************************************)

(* Defect: no exchange is ever joined.                                     *)
NeverBusy(g) == FALSE

(* The singleflight: who asks for a grant in flight shares the answer.     *)
Busy(g) == inflight[g] # None

(* The state of a row that has not what it takes to refresh.               *)
Unrenewable(means) == IF means = "nothing" THEN "no_refresh_grant" ELSE "reauth_required"

(* The token goes out.  forced: an operator asked, backoff or not.         *)
Send(g, forced) ==
  /\ row[g].means = "refresh"
  /\ \E e \in Exchanges :
       /\ ex[e] = NoExchange
       /\ ex' = [ex EXCEPT ![e] = [grant |-> g, auth |-> row[g].auth, gen |-> row[g].gen,
                                   forced |-> forced]]
       /\ inflight' = [inflight EXCEPT ![g] = e]
  /\ row' = [row EXCEPT ![g].state = "refreshing"]

(* Nothing to send: the row says so.                                       *)
Refuse(g) ==
  /\ row[g].means # "refresh"
  /\ row' = [row EXCEPT ![g].state = Unrenewable(row[g].means)]
  /\ UNCHANGED <<ex, inflight>>

(* bearers: what is in memory when the exchange is asked for.              *)
Refresh(g, forced, bearers) ==
  \/ /\ Busy(g) \/ row[g] = NoGrant
     /\ access' = bearers
     /\ UNCHANGED <<row, ex, inflight>>
  \/ /\ ~Busy(g) /\ row[g] # NoGrant
     /\ \/ Send(g, forced) /\ access' = bearers
        \/ Refuse(g) /\ access' = [bearers EXCEPT ![g] = NoToken]

(* The row lets a session's request have an exchange.                      *)
Open(g) ==
  /\ row[g] # NoGrant
  /\ row[g].state \notin Dead
  /\ ~row[g].backoff

(* The bearer in memory will do.                                           *)
Usable(g) == access[g] # NoToken /\ ~access[g].aged

(* A session's request needs a bearer and none in memory will do.  In      *)
(* every other case nothing changes.                                       *)
AccessTokenFor(g) ==
  /\ listening
  /\ Open(g)
  /\ ~Usable(g)
  /\ Refresh(g, FALSE, access)
  /\ UNCHANGED <<sweepVars, listening, logins, imports, newest>>

(* The upstream refused a bearer the proxy sent: whatever is in memory by  *)
(* now goes, and another is asked for in the same breath.                  *)
Refused(g) ==
  /\ listening
  /\ access[g] # NoToken
  /\ LET gone == [access EXCEPT ![g] = NoToken]
     IN  \/ Open(g) /\ Refresh(g, FALSE, gone)
         \/ ~Open(g) /\ access' = gone /\ UNCHANGED <<row, ex, inflight>>
  /\ UNCHANGED <<sweepVars, listening, logins, imports, newest>>

(* An operator forces a refresh.                                           *)
RefreshNow(g) ==
  /\ Refresh(g, TRUE, access)
  /\ UNCHANGED <<sweepVars, listening, logins, imports, newest>>

-----------------------------------------------------------------------------
(***************************************************************************)
(* The sweep.                                                              *)
(***************************************************************************)

(* A bearer in memory is about to expire, and its grant was not backing    *)
(* off when the sweep listed it.                                           *)
Aging(g) == access[g] # NoToken /\ access[g].aged
Due(g, H) == Aging(g) /\ g \notin H

(* The loop over the listed grants T, of which H were backing off, up to   *)
(* the next await or to its end.  The order of the names is left open.     *)
Sweep(T, H) ==
  \/ /\ \A g \in T : ~Due(g, H)
     /\ sweeping' = FALSE
     /\ todo' = {}
     /\ held' = {}
     /\ awaited' = None
     /\ UNCHANGED <<row, access, ex, inflight>>
  \/ \E g \in T, passed \in SUBSET {h \in T : ~Due(h, H)} :
       /\ Due(g, H)
       /\ Refresh(g, FALSE, access)
       /\ sweeping' = TRUE
       /\ todo' = T \ (passed \cup {g})
       /\ held' = H \ (passed \cup {g})
       /\ awaited' = inflight'[g]

(* The timer fires and no sweep is going on: the grants are listed, the    *)
(* dead ones apart.                                                        *)
SweepBegins ==
  /\ listening
  /\ ~sweeping
  /\ LET listed == {g \in Grants : row[g] # NoGrant /\ row[g].state \notin Dead}
     IN  Sweep(listed, {g \in listed : row[g].backoff})
  /\ UNCHANGED <<listening, logins, imports, newest>>

(* The exchange the sweep awaited has ended.                               *)
SweepResumes ==
  /\ sweeping
  /\ awaited = None
  /\ Sweep(todo, held)
  /\ UNCHANGED <<listening, logins, imports, newest>>

-----------------------------------------------------------------------------
(***************************************************************************)
(* Answers of token endpoints.                                             *)
(***************************************************************************)

(* Defect: the sweep does not hear of the end.                             *)
EndUnheard(e) ==
  /\ ex' = [ex EXCEPT ![e] = NoExchange]
  /\ inflight' = [inflight EXCEPT ![ex[e].grant] = None]
  /\ UNCHANGED <<sweepVars, listening, logins, imports>>

(* The exchange ends and everybody who waits for it goes on.               *)
End(e) ==
  /\ ex' = [ex EXCEPT ![e] = NoExchange]
  /\ inflight' = [inflight EXCEPT ![ex[e].grant] = None]
  /\ awaited' = IF awaited = e THEN None ELSE awaited
  /\ UNCHANGED <<sweeping, todo, held, listening, logins, imports>>

(* Defect: an exchange that finds no row to bring up to date says nothing. *)
RenewedAnyway(e) ==
  /\ ex[e] # NoExchange
  /\ access' = [access EXCEPT ![ex[e].grant] = [auth |-> ex[e].auth, gen |-> ex[e].gen, aged |-> FALSE]]
  /\ UNCHANGED <<row, newest>>
  /\ End(e)

(* What a row has to refresh with once a token was written into it: one    *)
(* without any may now have all of it, or lack something else still.       *)
Supplied(means) == IF means = "nothing" THEN Means ELSE {means}

(* A bearer came, and perhaps a successor of the refresh token: the row is *)
(* brought up to date, and then the bearer is there to be served.          *)
Renewed(e) ==
  /\ ex[e] # NoExchange
  /\ LET g == ex[e].grant
         n == ex[e].auth
     IN  /\ row[g] # NoGrant
         /\ \E next \in {ex[e].gen, ex[e].gen + 1} \cap Gens, means \in Supplied(row[g].means) :
              /\ row' = [row EXCEPT ![g].state = "healthy", ![g].backoff = FALSE,
                                    ![g].means = IF next = ex[e].gen THEN @ ELSE means,
                                    ![g].auth = IF next = ex[e].gen THEN @ ELSE n,
                                    ![g].gen = IF next = ex[e].gen THEN @ ELSE next]
              /\ access' = [access EXCEPT ![g] = [auth |-> n, gen |-> next, aged |-> FALSE]]
              /\ newest' = IF next > newest[g][n] THEN [newest EXCEPT ![g][n] = next] ELSE newest
  /\ End(e)

(* The row as a failure that may pass leaves it.                           *)
Degraded(g) ==
  IF row[g] = NoGrant THEN row
  ELSE [row EXCEPT ![g].state = "degraded", ![g].backoff = TRUE]

(* Defect: the bearer is there to be served before the successor is        *)
(* written, which may fail.                                                *)
ServedFirst(e) ==
  /\ ex[e] # NoExchange
  /\ LET g == ex[e].grant
     IN  /\ row' = Degraded(g)
         /\ \E next \in {ex[e].gen, ex[e].gen + 1} \cap Gens :
              access' = [access EXCEPT ![g] = [auth |-> ex[e].auth, gen |-> next, aged |-> FALSE]]
  /\ UNCHANGED newest
  /\ End(e)

(* No answer, one that is no verdict, or a successor that could not be     *)
(* written, the row being gone for one: try again later.                   *)
Fails(e) ==
  /\ ex[e] # NoExchange
  /\ row' = Degraded(ex[e].grant)
  /\ UNCHANGED <<access, newest>>
  /\ End(e)

(* Defect: the bearer is kept until it expires.                            *)
BearerKept(e) ==
  /\ ex[e] # NoExchange
  /\ LET g == ex[e].grant
     IN  row' = IF row[g] = NoGrant THEN row ELSE [row EXCEPT ![g].state = "reauth_required"]
  /\ UNCHANGED <<access, newest>>
  /\ End(e)

(* The provider will never honour the token.                               *)
Definitive(e) ==
  /\ ex[e] # NoExchange
  /\ LET g == ex[e].grant
     IN  /\ row' = IF row[g] = NoGrant THEN row ELSE [row EXCEPT ![g].state = "reauth_required"]
         /\ access' = [access EXCEPT ![g] = NoToken]
  /\ UNCHANGED newest
  /\ End(e)

Answered(e) == Renewed(e) \/ Fails(e) \/ Definitive(e)

-----------------------------------------------------------------------------
(***************************************************************************)
(* Time, operators and the process.                                        *)
(***************************************************************************)

(* The bearer comes within the skew of its expiry.                         *)
Age(g) ==
  /\ Usable(g)
  /\ access' = [access EXCEPT ![g].aged = TRUE]
  /\ UNCHANGED <<row, ex, inflight, sweepVars, listening, logins, imports, newest>>

(* The backoff deadline of a grant passes.                                 *)
BackoffEnds(g) ==
  /\ row[g] # NoGrant
  /\ row[g].backoff
  /\ row' = [row EXCEPT ![g].backoff = FALSE]
  /\ held' = held \ {g}
  /\ UNCHANGED <<access, ex, inflight, sweeping, todo, awaited, listening, logins, imports, newest>>

(* The deadline the sweep has listed passes, whatever the row has become.  *)
ListedBackoffEnds(g) ==
  /\ g \in held
  /\ held' = held \ {g}
  /\ UNCHANGED <<row, access, ex, inflight, sweeping, todo, awaited, listening, logins, imports,
                 newest>>

(* A row nothing of the previous one survives in.                          *)
Fresh(state, n, means) ==
  [state |-> state, auth |-> n, gen |-> 0, means |-> means, backoff |-> FALSE]

(* A login ends: a new authorization, and its first bearer.                *)
Login(g) ==
  /\ logins[g] < Logins[g]
  /\ \E r \in {Fresh("healthy", logins[g] + 1, "refresh"),
               Fresh("healthy", logins[g] + 1, "nothing"),
               Fresh("no_refresh_grant", logins[g] + 1, "nothing")} :
       row' = [row EXCEPT ![g] = r]
  /\ access' = [access EXCEPT ![g] = [auth |-> logins[g] + 1, gen |-> 0, aged |-> FALSE]]
  /\ logins' = [logins EXCEPT ![g] = @ + 1]
  /\ UNCHANGED <<ex, inflight, sweepVars, listening, imports, newest>>

(* What OMP has is copied, whatever the row was.                           *)
Import(g) ==
  /\ imports[g] < Imports[g]
  /\ \E r \in {Fresh("healthy", 0, "refresh"), Fresh("healthy", 0, "nothing"),
               Fresh("healthy", 0, "client"), Fresh("reauth_required", 0, "client"),
               Fresh("reauth_required", 0, "nothing")} :
       row' = [row EXCEPT ![g] = r]
  /\ imports' = [imports EXCEPT ![g] = @ + 1]
  /\ UNCHANGED <<access, ex, inflight, sweepVars, listening, logins, newest>>

(* The grant is forgotten; an exchange in flight goes on.                  *)
Forget(g) ==
  /\ row[g] # NoGrant
  /\ row' = [row EXCEPT ![g] = NoGrant]
  /\ access' = [access EXCEPT ![g] = NoToken]
  /\ UNCHANGED <<ex, inflight, sweepVars, listening, logins, imports, newest>>

(* Opening the store: a row that does not say how its client is            *)
(* authenticated needs a human.  An import that is cut off between its two *)
(* writes leaves such a row healthy.                                       *)
Opened(unnamed) ==
  [g \in Grants |-> IF g \in unnamed THEN [row[g] EXCEPT !.state = "reauth_required"] ELSE row[g]]

(* Defect: rows are taken over as they are.                                *)
TakenOver(unnamed) == Opened(unnamed)

(* What start() makes of rows: no exchange is in flight.                   *)
Restarted(unnamed) ==
  [g \in Grants |-> IF Opened(unnamed)[g].state = "refreshing"
                    THEN [row[g] EXCEPT !.state = "degraded"]
                    ELSE Opened(unnamed)[g]]

(* The process ends, whatever is in flight, and the next one starts.  If   *)
(* the proxy finds its port taken, or has none, start() is not called.     *)
NextDaemon ==
  /\ listening' \in BOOLEAN
  /\ \E unnamed \in SUBSET {g \in Grants : row[g] # NoGrant /\ row[g].means # "refresh"} :
       row' = IF listening' THEN Restarted(unnamed) ELSE Opened(unnamed)
  /\ access' = [g \in Grants |-> NoToken]
  /\ ex' = [e \in Exchanges |-> NoExchange]
  /\ inflight' = [g \in Grants |-> None]
  /\ sweeping' = FALSE
  /\ todo' = {}
  /\ held' = {}
  /\ awaited' = None
  /\ UNCHANGED <<logins, imports, newest>>

-----------------------------------------------------------------------------
Next ==
  \/ \E g \in Grants :
       \/ AccessTokenFor(g) \/ Refused(g) \/ RefreshNow(g)
       \/ Age(g) \/ BackoffEnds(g) \/ ListedBackoffEnds(g)
       \/ Login(g) \/ Import(g) \/ Forget(g)
  \/ \E e \in Exchanges : Answered(e)
  \/ SweepBegins \/ SweepResumes
  \/ NextDaemon

Spec == Init /\ [][Next]_vars

(* The sweep has a timer and goes on when its await ends.                  *)
FairSpec == Spec /\ WF_vars(SweepBegins) /\ WF_vars(SweepResumes)

(* Token endpoints answer, or their connections fail.  The broker sets     *)
(* exchanges no deadline, so this is not a fairness of its own.            *)
AnswersCome == \A e \in Exchanges : WF_vars(Answered(e))

-----------------------------------------------------------------------------
(***************************************************************************)
(* Properties.                                                             *)
(***************************************************************************)

(* "One exchange per grant at a time", whatever logins, imports and        *)
(* forgets do to the row meanwhile.                                        *)
OneExchange ==
  \A e, f \in Exchanges :
    ex[e] # NoExchange /\ ex[f] # NoExchange /\ ex[e].grant = ex[f].grant => e = f

(* A refresh token is not in the hands of an exchange once its successor   *)
(* has reached the disk: no provider sees a token twice that the broker    *)
(* knew to be spent.  Said of grants that are imported at most once; what  *)
(* becomes of the others is RetryingIsSafe.                                *)
NeverRedeemsSpent ==
  \A e \in Exchanges :
    ex[e] # NoExchange => ex[e].gen = newest[ex[e].grant][ex[e].auth]

(* "The successor is on disk before the token is in a caller's hands": the *)
(* row is not behind the bearer.                                           *)
SuccessorFirst ==
  \A g \in Grants :
    access[g] # NoToken /\ row[g] # NoGrant /\ access[g].auth = row[g].auth
      => access[g].gen <= row[g].gen

(* A grant that was forgotten has no bearer, also not from an exchange     *)
(* that was in flight.                                                     *)
NoBearerWithoutGrant ==
  \A g \in Grants : access[g] # NoToken => row[g] # NoGrant

(* A row says "refreshing" only while an exchange of its grant is in       *)
(* flight in this process, unless the broker could not start.              *)
RefreshingIsInFlight ==
  listening => \A g \in Grants : row[g].state = "refreshing" => inflight[g] # None

(* "definitive stops and asks for a human": only an operator starts an     *)
(* exchange of a grant that is dead, and the sweep does not, however old   *)
(* its list is.                                                            *)
DeadGrantsStayQuiet ==
  [][\A e \in Exchanges :
       ex[e] = NoExchange /\ ex'[e] # NoExchange /\ ~ex'[e].forced
         => row[ex'[e].grant].state \notin Dead]_vars

(* While answers come, a bearer that ages in memory is replaced ahead of   *)
(* its expiry, or its grant is dead, gone or backing off, or the process   *)
(* has ended.                                                              *)
AgingEnds ==
  AnswersCome =>
    \A g \in Grants :
      listening /\ Aging(g) ~>
        \/ ~Aging(g)
        \/ row[g] = NoGrant
        \/ row[g].state \in Dead
        \/ row[g].backoff

(* "That is also what makes retrying safe": a second import of a grant     *)
(* does not make the broker present a token it knows to be spent.          *)
RetryingIsSafe ==
  \A e \in Exchanges :
    ex[e] # NoExchange /\ ex[e].auth = 0 => ex[e].gen = newest[ex[e].grant][0]
=============================================================================
