--------------------------- MODULE McpAuthProofs ---------------------------
(***************************************************************************)
(* Proofs about McpAuth, for any grants, exchanges, logins, imports and    *)
(* rotations.                                                              *)
(***************************************************************************)
EXTENDS McpAuth, TLAPS

(* TypeOK in parts, with the keys the tables began with.                   *)
RowsOK ==
  DOMAIN row = Grants /\ \A g \in Grants : row[g] \in Rows(g) \cup {NoGrant}

BearersOK(a) ==
  DOMAIN a = Grants /\ \A g \in Grants : a[g] \in Bearers(g) \cup {NoToken}

Flights(g) == [grant : {g}, auth : Auths(g), gen : Gens, forced : BOOLEAN]

FlightsOK ==
  /\ DOMAIN ex = Exchanges
  /\ \A e \in Exchanges : ex[e] = NoExchange \/ \E g \in Grants : ex[e] \in Flights(g)
  /\ inflight \in [Grants -> Exchanges \cup {None}]

SweepOK ==
  /\ sweeping \in BOOLEAN
  /\ todo \subseteq Grants
  /\ held \subseteq todo
  /\ awaited \in Exchanges \cup {None}

CountsOK ==
  /\ DOMAIN logins = Grants /\ DOMAIN imports = Grants /\ DOMAIN newest = Grants
  /\ \A g \in Grants : logins[g] \in 0..Logins[g] /\ imports[g] \in 0..Imports[g]
  /\ \A g \in Grants : newest[g] \in [Auths(g) -> Gens]

WellTyped ==
  RowsOK /\ BearersOK(access) /\ FlightsOK /\ SweepOK /\ CountsOK /\ listening \in BOOLEAN

LEMMA Bounds ==
  (\A g \in Grants : Logins[g] \in Nat /\ Imports[g] \in Nat) /\ GenBound \in Nat
  BY BoundsAssumption DEF BoundsAssumption

LEMMA WellTypedIsTyped == WellTyped => TypeOK
  BY DEF WellTyped, RowsOK, BearersOK, FlightsOK, Flights, SweepOK, CountsOK, TypeOK

LEMMA Distinct ==
  /\ \A g \in Grants : NoGrant \notin Rows(g)
  /\ \A g \in Grants : NoToken \notin Bearers(g)
  /\ \A g \in Grants : NoExchange \notin Flights(g)
  BY DEF NoGrant, NoToken, NoExchange, Rows, Bearers, Flights, States, Dead

LEMMA FlightType ==
  ASSUME FlightsOK, NEW e \in Exchanges, ex[e] # NoExchange
  PROVE  /\ ex[e].grant \in Grants
         /\ ex[e].auth \in Auths(ex[e].grant) /\ ex[e].gen \in Gens
         /\ ex[e].forced \in BOOLEAN
  BY DEF FlightsOK, Flights

LEMMA RowType ==
  ASSUME RowsOK, NEW g \in Grants, row[g] # NoGrant
  PROVE  /\ row[g].state \in States /\ row[g].auth \in Auths(g) /\ row[g].gen \in Gens
         /\ row[g].means \in Means /\ row[g].backoff \in BOOLEAN
  BY DEF RowsOK, Rows

LEMMA SuppliedType ==
  ASSUME RowsOK, NEW g \in Grants, row[g] # NoGrant
  PROVE  Supplied(row[g].means) \subseteq Means
  BY RowType DEF Supplied

(* What a renewal makes of the row of its grant.                           *)
RenewalOf(g, n, was, next, means) ==
  [row EXCEPT ![g].state = "healthy", ![g].backoff = FALSE,
              ![g].means = IF next = was THEN @ ELSE means,
              ![g].auth = IF next = was THEN @ ELSE n,
              ![g].gen = IF next = was THEN @ ELSE next]

LEMMA RenewedRow ==
  ASSUME RowsOK, NEW g \in Grants, row[g] # NoGrant,
         NEW n \in Auths(g), NEW was \in Gens, NEW next \in Gens,
         NEW means \in Means, row' = RenewalOf(g, n, was, next, means)
  PROVE  /\ RowsOK'
         /\ \A h \in Grants : h # g => row'[h] = row[h]
         /\ row'[g].state = "healthy"
         /\ row'[g].auth = IF next = was THEN row[g].auth ELSE n
         /\ row'[g].gen = IF next = was THEN row[g].gen ELSE next
<1> DEFINE auth == IF next = was THEN row[g].auth ELSE n
           gen == IF next = was THEN row[g].gen ELSE next
           with == IF next = was THEN row[g].means ELSE means
           new == [row[g] EXCEPT !.state = "healthy", !.backoff = FALSE,
                                 !.means = with, !.auth = auth, !.gen = gen]
<1>1. DOMAIN row = Grants /\ (\A h \in Grants : row[h] \in Rows(h) \cup {NoGrant})
      /\ row[g] \in Rows(g)
  BY DEF RowsOK
<1>2. auth \in Auths(g) /\ gen \in Gens /\ with \in Means
  BY <1>1 DEF Rows
<1>3. row' = [row EXCEPT ![g] = new]
  BY <1>1 DEF RenewalOf
<1> HIDE DEF auth, gen, with
<1>4. new \in Rows(g) /\ new.state = "healthy" /\ new.auth = auth /\ new.gen = gen
  BY <1>1, <1>2 DEF Rows, States
<1> HIDE DEF new
<1>5. row'[g] = new /\ \A h \in Grants : h # g => row'[h] = row[h]
  BY <1>1, <1>3
<1>6. RowsOK'
  BY <1>1, <1>3, <1>4 DEF RowsOK
<1> QED BY <1>4, <1>5, <1>6 DEF auth, gen

(* What an exchange that begins, or does not, leaves.                      *)
LEMMA RefreshType ==
  ASSUME RowsOK, FlightsOK, NEW g \in Grants, NEW forced \in BOOLEAN,
         NEW bearers, BearersOK(bearers), Refresh(g, forced, bearers)
  PROVE  RowsOK' /\ FlightsOK' /\ BearersOK(access')
<1>1. CASE Send(g, forced) /\ access' = bearers /\ row[g] # NoGrant
  <2>1. RowsOK'
    BY <1>1, RowType DEF RowsOK, Send, Rows, States
  <2>2. FlightsOK'
    BY <1>1, RowType DEF FlightsOK, Flights, Send
  <2> QED BY <1>1, <2>1, <2>2
<1>2. CASE Refuse(g) /\ access' = [bearers EXCEPT ![g] = NoToken] /\ row[g] # NoGrant
  <2>1. RowsOK'
    BY <1>2, RowType DEF RowsOK, Refuse, Unrenewable, Rows, States, Dead
  <2>2. FlightsOK' /\ BearersOK(access')
    BY <1>2 DEF FlightsOK, Refuse, BearersOK
  <2> QED BY <2>1, <2>2
<1>3. CASE access' = bearers /\ UNCHANGED <<row, ex, inflight>>
  BY <1>3 DEF RowsOK, FlightsOK
<1> QED BY <1>1, <1>2, <1>3 DEF Refresh

LEMMA SweepType ==
  ASSUME RowsOK, FlightsOK, SweepOK, BearersOK(access),
         NEW T \in SUBSET Grants, NEW H \in SUBSET T, Sweep(T, H)
  PROVE  RowsOK' /\ FlightsOK' /\ SweepOK' /\ BearersOK(access')
<1>1. CASE /\ sweeping' = FALSE /\ todo' = {} /\ held' = {} /\ awaited' = None
           /\ UNCHANGED <<row, access, ex, inflight>>
  BY <1>1 DEF RowsOK, FlightsOK, SweepOK
<1>2. ASSUME NEW g \in T, NEW passed \in SUBSET T, Refresh(g, FALSE, access),
             sweeping' = TRUE, todo' = T \ (passed \cup {g}),
             held' = H \ (passed \cup {g}), awaited' = inflight'[g]
      PROVE  RowsOK' /\ FlightsOK' /\ SweepOK' /\ BearersOK(access')
  <2>1. RowsOK' /\ FlightsOK' /\ BearersOK(access')
    BY <1>2, RefreshType
  <2>2. SweepOK'
    BY <1>2, <2>1 DEF SweepOK, FlightsOK
  <2> QED BY <2>1, <2>2
<1> QED BY <1>1, <1>2 DEF Sweep

LEMMA TypeInit == ASSUME Init PROVE WellTyped
<1>1. RowsOK /\ BearersOK(access) /\ FlightsOK /\ SweepOK
  BY DEF Init, RowsOK, BearersOK, FlightsOK, SweepOK
<1>2. CountsOK
  <2>1. /\ logins = [g \in Grants |-> 0] /\ imports = [g \in Grants |-> 0]
        /\ newest = [g \in Grants |-> [n \in Auths(g) |-> 0]]
    BY DEF Init
  <2>2. ASSUME NEW g \in Grants
        PROVE  0 \in 0..Logins[g] /\ 0 \in 0..Imports[g] /\ 0 \in Gens
    BY Bounds DEF Gens
  <2> QED BY <2>1, <2>2 DEF CountsOK
<1> QED BY <1>1, <1>2 DEF WellTyped, Init

LEMMA TypeAsk ==
  ASSUME WellTyped, NEW g \in Grants, AccessTokenFor(g) \/ Refused(g) \/ RefreshNow(g)
  PROVE  WellTyped'
<1> USE DEF WellTyped, sweepVars
<1>1. BearersOK([access EXCEPT ![g] = NoToken])
  BY DEF BearersOK
<1>2. RowsOK' /\ FlightsOK' /\ BearersOK(access')
  <2>1. CASE AccessTokenFor(g)
    BY <2>1, RefreshType DEF AccessTokenFor
  <2>2. CASE Refused(g)
    <3>1. CASE Refresh(g, FALSE, [access EXCEPT ![g] = NoToken])
      BY <1>1, <3>1, RefreshType
    <3>2. CASE access' = [access EXCEPT ![g] = NoToken] /\ UNCHANGED <<row, ex, inflight>>
      BY <1>1, <3>2 DEF RowsOK, FlightsOK
    <3> QED BY <2>2, <3>1, <3>2 DEF Refused
  <2>3. CASE RefreshNow(g)
    BY <2>3, RefreshType DEF RefreshNow
  <2> QED BY <2>1, <2>2, <2>3
<1>3. SweepOK' /\ CountsOK' /\ listening' \in BOOLEAN
  BY DEF AccessTokenFor, Refused, RefreshNow, SweepOK, CountsOK
<1> QED BY <1>2, <1>3

LEMMA TypeSweep ==
  ASSUME WellTyped, SweepBegins \/ SweepResumes PROVE WellTyped'
<1> USE DEF WellTyped
<1>1. CASE SweepBegins
  BY <1>1, SweepType DEF SweepBegins, CountsOK
<1>2. CASE SweepResumes
  BY <1>2, SweepType DEF SweepResumes, CountsOK, SweepOK
<1> QED BY <1>1, <1>2

LEMMA DegradedType ==
  ASSUME RowsOK, NEW g \in Grants, row' = Degraded(g) PROVE RowsOK'
<1> DEFINE new == [row[g] EXCEPT !.state = "degraded", !.backoff = TRUE]
<1>1. DOMAIN row = Grants /\ \A h \in Grants : row[h] \in Rows(h) \cup {NoGrant}
  BY DEF RowsOK
<1>2. row[g] # NoGrant => new \in Rows(g)
  BY <1>1 DEF Rows, States
<1>3. row' = row \/ (row[g] # NoGrant /\ row' = [row EXCEPT ![g] = new])
  BY <1>1 DEF Degraded
<1> HIDE DEF new
<1> QED BY <1>1, <1>2, <1>3 DEF RowsOK

LEMMA TypeAnswered ==
  ASSUME WellTyped, NEW e \in Exchanges, Answered(e) PROVE WellTyped'
<1> USE DEF WellTyped
<1>1. ex[e] # NoExchange /\ End(e)
  BY DEF Answered, Renewed, Fails, Definitive
<1>2. ex[e].grant \in Grants /\ ex[e].auth \in Auths(ex[e].grant) /\ ex[e].gen \in Gens
  BY <1>1, FlightType
<1>3. FlightsOK' /\ SweepOK'
  BY <1>1 DEF End, FlightsOK, SweepOK
<1>4. CASE Renewed(e)
  <2> DEFINE g == ex[e].grant
             n == ex[e].auth
  <2>1. PICK next \in {ex[e].gen, ex[e].gen + 1} \cap Gens, means \in Supplied(row[g].means) :
          /\ row' = [row EXCEPT ![g].state = "healthy", ![g].backoff = FALSE,
                                ![g].means = IF next = ex[e].gen THEN @ ELSE means,
                                ![g].auth = IF next = ex[e].gen THEN @ ELSE n,
                                ![g].gen = IF next = ex[e].gen THEN @ ELSE next]
          /\ access' = [access EXCEPT ![g] = [auth |-> n, gen |-> next, aged |-> FALSE]]
          /\ newest' = IF next > newest[g][n] THEN [newest EXCEPT ![g][n] = next] ELSE newest
    BY <1>4 DEF Renewed
  <2>2. row[g] # NoGrant
    BY <1>4 DEF Renewed
  <2>3. RowsOK'
    <3>1. g \in Grants /\ n \in Auths(g) /\ next \in Gens /\ ex[e].gen \in Gens
      BY <1>2
    <3>3. means \in Means
      BY <2>2, <3>1, SuppliedType
    <3>2. row' = RenewalOf(g, n, ex[e].gen, next, means)
      BY <2>1 DEF RenewalOf
    <3> HIDE DEF g, n
    <3> QED BY <2>2, <3>1, <3>2, <3>3, RenewedRow
  <2>4. BearersOK(access')
    BY <1>2, <2>1 DEF BearersOK, Bearers
  <2>5. CountsOK'
    BY <1>1, <1>2, <2>1 DEF CountsOK, End
  <2> QED BY <1>1, <1>3, <2>3, <2>4, <2>5 DEF End
<1>5. CASE Fails(e)
  BY <1>1, <1>2, <1>3, <1>5, DegradedType DEF Fails, End, CountsOK
<1>6. CASE Definitive(e)
  <2>1. RowsOK'
    BY <1>2, <1>6, RowType DEF Definitive, RowsOK, Rows, States, Dead
  <2>2. BearersOK(access')
    BY <1>2, <1>6 DEF Definitive, BearersOK
  <2> QED BY <1>1, <1>3, <1>6, <2>1, <2>2 DEF Definitive, End, CountsOK
<1> QED BY <1>4, <1>5, <1>6 DEF Answered

LEMMA FreshType ==
  ASSUME NEW g \in Grants, NEW state \in States, NEW n \in Auths(g), NEW means \in Means
  PROVE  Fresh(state, n, means) \in Rows(g)
  BY Bounds DEF Fresh, Rows, Gens

LEMMA TypeOperator ==
  ASSUME WellTyped, NEW g \in Grants,
         \/ Age(g) \/ BackoffEnds(g) \/ ListedBackoffEnds(g)
         \/ Login(g) \/ Import(g) \/ Forget(g)
  PROVE  WellTyped'
<1> USE DEF WellTyped, sweepVars
<1>1. CASE Age(g)
  <2>1. BearersOK(access')
    BY <1>1 DEF Age, Usable, BearersOK, Bearers
  <2> QED BY <1>1, <2>1 DEF Age, RowsOK, FlightsOK, SweepOK, CountsOK
<1>2. CASE BackoffEnds(g)
  <2>1. RowsOK'
    BY <1>2, RowType DEF BackoffEnds, RowsOK, Rows
  <2> QED BY <1>2, <2>1 DEF BackoffEnds, FlightsOK, SweepOK, CountsOK, BearersOK
<1>3. CASE Login(g)
  <2>1. logins[g] + 1 \in Auths(g) /\ logins[g] + 1 \in 0..Logins[g]
    BY <1>3, Bounds DEF Login, CountsOK, Auths
  <2>2. RowsOK'
    BY <1>3, <2>1, FreshType DEF Login, RowsOK, States, Dead, Means
  <2>3. BearersOK(access')
    BY <1>3, <2>1, Bounds DEF Login, BearersOK, Bearers, Gens
  <2>4. CountsOK'
    BY <1>3, <2>1 DEF Login, CountsOK
  <2> QED BY <1>3, <2>2, <2>3, <2>4 DEF Login, FlightsOK, SweepOK
<1>4. CASE Import(g)
  <2>1. 0 \in Auths(g)
    BY Bounds DEF Auths
  <2>2. RowsOK'
    BY <1>4, <2>1, FreshType DEF Import, RowsOK, States, Dead, Means
  <2>3. CountsOK'
    BY <1>4, Bounds DEF Import, CountsOK
  <2> QED BY <1>4, <2>2, <2>3 DEF Import, FlightsOK, SweepOK, BearersOK
<1>5. CASE Forget(g)
  BY <1>5 DEF Forget, RowsOK, BearersOK, FlightsOK, SweepOK, CountsOK
<1>6. CASE ListedBackoffEnds(g)
  BY <1>6 DEF ListedBackoffEnds, RowsOK, FlightsOK, SweepOK, CountsOK, BearersOK
<1> QED BY <1>1, <1>2, <1>3, <1>4, <1>5, <1>6

(* Rows as the next daemon finds them.                                     *)
LEMMA OpenedRows ==
  ASSUME RowsOK, NEW unnamed \in SUBSET {g \in Grants : row[g] # NoGrant /\ row[g].means # "refresh"},
         NEW g \in Grants,
         row' = Opened(unnamed) \/ row' = Restarted(unnamed)
  PROVE  /\ row[g] = NoGrant => row'[g] = NoGrant
         /\ row[g] # NoGrant =>
              /\ row'[g] \in Rows(g)
              /\ row'[g].auth = row[g].auth /\ row'[g].gen = row[g].gen
         /\ row' = Restarted(unnamed) => row'[g].state # "refreshing"
<1>1. row[g] \in Rows(g) \cup {NoGrant}
  BY DEF RowsOK
<1>2. /\ Opened(unnamed)[g] = IF g \in unnamed THEN [row[g] EXCEPT !.state = "reauth_required"]
                                ELSE row[g]
      /\ Restarted(unnamed)[g] = IF Opened(unnamed)[g].state = "refreshing"
                                  THEN [row[g] EXCEPT !.state = "degraded"]
                                  ELSE Opened(unnamed)[g]
  BY DEF Opened, Restarted
<1>3. CASE row[g] = NoGrant
  BY <1>2, <1>3 DEF NoGrant
<1>4. CASE row[g] # NoGrant
  <2>1. row[g] \in Rows(g)
    BY <1>1, <1>4
  <2>2. \A s \in States : /\ [row[g] EXCEPT !.state = s] \in Rows(g)
                          /\ [row[g] EXCEPT !.state = s].state = s
                          /\ [row[g] EXCEPT !.state = s].auth = row[g].auth
                          /\ [row[g] EXCEPT !.state = s].gen = row[g].gen
    BY <2>1 DEF Rows
  <2>3. "reauth_required" \in States /\ "degraded" \in States
    BY DEF States, Dead
  <2>4. PICK s \in States : Opened(unnamed)[g] = [row[g] EXCEPT !.state = s]
    <3>1. row[g] = [row[g] EXCEPT !.state = row[g].state] /\ row[g].state \in States
      BY <2>1 DEF Rows
    <3> QED BY <1>2, <2>3, <3>1
  <2>5. Opened(unnamed)[g].state = s
    BY <2>2, <2>4
  <2>6. CASE row' = Opened(unnamed) /\ row' # Restarted(unnamed)
    BY <1>4, <2>2, <2>4, <2>6
  <2>7. CASE row' = Restarted(unnamed) /\ s = "refreshing"
    <3>1. row'[g] = [row[g] EXCEPT !.state = "degraded"]
      BY <1>2, <2>5, <2>7
    <3> QED BY <1>4, <2>2, <2>3, <3>1
  <2>8. CASE row' = Restarted(unnamed) /\ s # "refreshing"
    <3>1. row'[g] = [row[g] EXCEPT !.state = s]
      BY <1>2, <2>4, <2>5, <2>8
    <3> QED BY <1>4, <2>2, <2>8, <3>1
  <2> QED BY <2>6, <2>7, <2>8
<1> QED BY <1>3, <1>4

LEMMA RestartedType ==
  ASSUME RowsOK, NEW unnamed \in SUBSET {g \in Grants : row[g] # NoGrant /\ row[g].means # "refresh"},
         row' = Opened(unnamed) \/ row' = Restarted(unnamed)
  PROVE  RowsOK'
<1>1. DOMAIN row' = Grants
  BY DEF Opened, Restarted
<1> QED BY <1>1, OpenedRows DEF RowsOK

LEMMA TypeNextDaemon == ASSUME WellTyped, NextDaemon PROVE WellTyped'
<1>1. RowsOK'
  BY RestartedType DEF WellTyped, NextDaemon, RowsOK
<1>2. FlightsOK' /\ SweepOK' /\ BearersOK(access') /\ CountsOK' /\ listening' \in BOOLEAN
  BY DEF WellTyped, NextDaemon, FlightsOK, SweepOK, BearersOK, CountsOK
<1> QED BY <1>1, <1>2 DEF WellTyped

LEMMA TypeStep == ASSUME WellTyped, [Next]_vars PROVE WellTyped'
<1>1. CASE UNCHANGED vars
  BY <1>1 DEF vars, sweepVars, WellTyped, RowsOK, BearersOK, FlightsOK, SweepOK, CountsOK
<1>2. CASE Next
  BY <1>2, TypeAsk, TypeOperator, TypeAnswered, TypeSweep, TypeNextDaemon DEF Next
<1> QED BY <1>1, <1>2

LEMMA WellTypedAlways == Spec => []WellTyped
<1>1. Init => WellTyped
  BY TypeInit
<1>2. WellTyped /\ [Next]_vars => WellTyped'
  BY TypeStep
<1> QED BY <1>1, <1>2, PTL DEF Spec

(* The broker's variables keep their types.                                *)
THEOREM TypeCorrect == Spec => []TypeOK
<1>1. WellTyped => TypeOK
  BY WellTypedIsTyped
<1> QED BY <1>1, WellTypedAlways, PTL

-----------------------------------------------------------------------------
(***************************************************************************)
(* What a step may be.                                                     *)
(***************************************************************************)

others == <<listening, logins, imports, newest>>

(* No bearer comes, some may go.                                           *)
Quieter == \A h \in Grants : access'[h] = access[h] \/ access'[h] = NoToken

(* Somebody begins an exchange of a grant.                                 *)
Sends(g, e, forced) ==
  /\ row[g] # NoGrant /\ row[g].means = "refresh"
  /\ inflight[g] = None /\ ex[e] = NoExchange
  /\ ex' = [ex EXCEPT ![e] = [grant |-> g, auth |-> row[g].auth, gen |-> row[g].gen,
                              forced |-> forced]]
  /\ inflight' = [inflight EXCEPT ![g] = e]
  /\ row' = [row EXCEPT ![g].state = "refreshing"]
  /\ Quieter
  /\ UNCHANGED others

(* Somebody would, and the row has not what it takes.                      *)
Refuses(g) ==
  /\ row[g] # NoGrant /\ row[g].means # "refresh"
  /\ row' = [row EXCEPT ![g].state = Unrenewable(row[g].means)]
  /\ Quieter /\ access'[g] = NoToken
  /\ UNCHANGED <<ex, inflight, others>>

Rests == Quieter /\ UNCHANGED <<row, ex, inflight, others>>

LEMMA RefreshKinds ==
  ASSUME WellTyped, NEW g \in Grants, NEW forced \in BOOLEAN,
         NEW bearers, DOMAIN bearers = Grants,
         \A h \in Grants : bearers[h] = access[h] \/ bearers[h] = NoToken,
         Refresh(g, forced, bearers), UNCHANGED others
  PROVE  (\E e \in Exchanges : Sends(g, e, forced)) \/ Refuses(g) \/ Rests
<1>1. CASE access' = bearers /\ UNCHANGED <<row, ex, inflight>>
  BY <1>1 DEF Rests, Quieter
<1>2. CASE Send(g, forced) /\ ~Busy(g) /\ row[g] # NoGrant /\ access' = bearers
  BY <1>2 DEF Send, Busy, Sends, Quieter
<1>3. CASE Refuse(g) /\ row[g] # NoGrant /\ access' = [bearers EXCEPT ![g] = NoToken]
  BY <1>3 DEF Refuse, Refuses, Quieter
<1> QED BY <1>1, <1>2, <1>3 DEF Refresh

LEMMA SweepKinds ==
  ASSUME WellTyped, NEW T \in SUBSET Grants, NEW H \in SUBSET T, Sweep(T, H),
         UNCHANGED others
  PROVE  \/ \E g \in T, e \in Exchanges : Sends(g, e, FALSE) /\ Due(g, H)
         \/ \E g \in Grants : Refuses(g)
         \/ Rests
<1>1. CASE UNCHANGED <<row, access, ex, inflight>>
  BY <1>1 DEF Rests, Quieter
<1>2. ASSUME NEW g \in T, Due(g, H), Refresh(g, FALSE, access)
      PROVE  (\E e \in Exchanges : Sends(g, e, FALSE)) \/ Refuses(g) \/ Rests
  BY <1>2, RefreshKinds DEF WellTyped, BearersOK
<1> QED BY <1>1, <1>2 DEF Sweep

LEMMA Kinds ==
  ASSUME WellTyped, [Next]_vars
  PROVE  \/ \E g \in Grants, e \in Exchanges, forced \in BOOLEAN : Sends(g, e, forced)
         \/ \E g \in Grants : Refuses(g)
         \/ Rests
         \/ \E g \in Grants : Age(g) \/ BackoffEnds(g) \/ Login(g) \/ Import(g) \/ Forget(g)
         \/ \E e \in Exchanges : Answered(e)
         \/ NextDaemon
<1> DEFINE Asked == \/ \E g \in Grants, e \in Exchanges, forced \in BOOLEAN : Sends(g, e, forced)
                    \/ \E g \in Grants : Refuses(g)
                    \/ Rests
<1>1. CASE UNCHANGED vars
  BY <1>1 DEF vars, sweepVars, Rests, Quieter, others
<1>2. ASSUME NEW g \in Grants, AccessTokenFor(g) \/ RefreshNow(g) PROVE Asked
  BY <1>2, RefreshKinds DEF AccessTokenFor, RefreshNow, WellTyped, BearersOK, others
<1>3. ASSUME NEW g \in Grants, Refused(g) PROVE Asked
  <2> DEFINE gone == [access EXCEPT ![g] = NoToken]
  <2>1. DOMAIN gone = Grants /\ \A h \in Grants : gone[h] = access[h] \/ gone[h] = NoToken
    BY DEF WellTyped, BearersOK
  <2>2. CASE Refresh(g, FALSE, gone)
    <3> HIDE DEF gone
    <3> QED BY <1>3, <2>1, <2>2, RefreshKinds DEF Refused, others
  <2>3. CASE access' = gone /\ UNCHANGED <<row, ex, inflight>>
    BY <1>3, <2>1, <2>3 DEF Refused, Rests, Quieter, others
  <2> QED BY <1>3, <2>2, <2>3 DEF Refused
<1>4. CASE SweepBegins
  BY <1>4, SweepKinds DEF SweepBegins, others
<1>5. CASE SweepResumes
  BY <1>5, SweepKinds DEF SweepResumes, others, WellTyped, SweepOK
<1>6. ASSUME NEW g \in Grants, ListedBackoffEnds(g) PROVE Rests
  BY <1>6 DEF ListedBackoffEnds, Rests, Quieter, others
<1> QED BY <1>1, <1>2, <1>3, <1>4, <1>5, <1>6 DEF Next

-----------------------------------------------------------------------------
(***************************************************************************)
(* One exchange of a grant.                                                *)
(***************************************************************************)

(* What is in flight and the map of what is in flight are the same.        *)
Matched ==
  /\ \A e \in Exchanges : ex[e] # NoExchange => inflight[ex[e].grant] = e
  /\ \A g \in Grants :
       inflight[g] # None => ex[inflight[g]] # NoExchange /\ ex[inflight[g]].grant = g

LEMMA NewFlight ==
  ASSUME NEW g, NEW n, NEW k, NEW forced
  PROVE  [grant |-> g, auth |-> n, gen |-> k, forced |-> forced] # NoExchange
  BY DEF NoExchange

LEMMA MatchedStep ==
  ASSUME WellTyped, Matched, [Next]_vars PROVE Matched'
<1>1. ASSUME NEW g \in Grants, NEW e \in Exchanges, NEW forced \in BOOLEAN, Sends(g, e, forced)
      PROVE  Matched'
  <2>1. ex'[e] # NoExchange /\ ex'[e].grant = g /\ inflight'[g] = e
    BY <1>1, NewFlight DEF Sends, WellTyped, FlightsOK
  <2>2. \A f \in Exchanges \ {e} : ex'[f] = ex[f]
    BY <1>1 DEF Sends, WellTyped, FlightsOK
  <2>3. \A h \in Grants \ {g} : inflight'[h] = inflight[h] /\ inflight[h] # e
    BY <1>1, NoneIsNoExchange DEF Sends, WellTyped, FlightsOK, Matched, NoneIsNoExchange
  <2>4. \A f \in Exchanges : ex[f] # NoExchange => ex[f].grant \in Grants \ {g}
    <3> SUFFICES ASSUME NEW f \in Exchanges, ex[f] # NoExchange
                 PROVE  ex[f].grant \in Grants \ {g}
      OBVIOUS
    <3>1. ex[f].grant \in Grants /\ inflight[ex[f].grant] = f
      BY FlightType DEF WellTyped, Matched
    <3>2. inflight[g] = None /\ f # None
      BY <1>1, NoneIsNoExchange DEF Sends, NoneIsNoExchange
    <3> QED BY <3>1, <3>2
  <2>5. ASSUME NEW f \in Exchanges, ex'[f] # NoExchange PROVE inflight'[ex'[f].grant] = f
    BY <2>1, <2>2, <2>3, <2>4, <2>5 DEF Matched
  <2>6. ASSUME NEW h \in Grants, inflight'[h] # None
        PROVE  ex'[inflight'[h]] # NoExchange /\ ex'[inflight'[h]].grant = h
    <3>1. CASE h = g
      BY <2>1, <3>1
    <3>2. CASE h # g
      <4>1. inflight[h] \in Exchanges \ {e} /\ inflight'[h] = inflight[h]
        BY <2>3, <2>6, <3>2 DEF WellTyped, FlightsOK
      <4> QED BY <2>2, <2>6, <4>1 DEF Matched
    <3> QED BY <3>1, <3>2
  <2> QED BY <2>5, <2>6 DEF Matched
<1>2. CASE UNCHANGED <<ex, inflight>>
  BY <1>2 DEF Matched
<1>3. ASSUME NEW g \in Grants, Refuses(g) PROVE Matched'
  BY <1>2, <1>3 DEF Refuses
<1>4. ASSUME NEW g \in Grants, Age(g) \/ BackoffEnds(g) \/ Login(g) \/ Import(g) \/ Forget(g)
      PROVE  Matched'
  BY <1>2, <1>4 DEF Age, BackoffEnds, Login, Import, Forget
<1>5. ASSUME NEW e \in Exchanges, Answered(e) PROVE Matched'
  <2> DEFINE g == ex[e].grant
  <2>1. ex[e] # NoExchange /\ End(e)
    BY <1>5 DEF Answered, Renewed, Fails, Definitive
  <2>2. g \in Grants /\ inflight[g] = e
    BY <2>1, FlightType DEF WellTyped, Matched
  <2>3. ex'[e] = NoExchange /\ inflight'[g] = None
    BY <2>1, <2>2 DEF End, WellTyped, FlightsOK
  <2>4. \A f \in Exchanges \ {e} : ex'[f] = ex[f]
    BY <2>1 DEF End, WellTyped, FlightsOK
  <2>5. \A h \in Grants \ {g} : inflight'[h] = inflight[h]
    BY <2>1 DEF End, WellTyped, FlightsOK
  <2>6. \A h \in Grants \ {g} : inflight[h] # e
    BY <2>1, NoneIsNoExchange DEF Matched, NoneIsNoExchange
  <2>7. ASSUME NEW f \in Exchanges, ex'[f] # NoExchange PROVE inflight'[ex'[f].grant] = f
    <3>1. f # e /\ ex'[f] = ex[f] /\ ex[f] # NoExchange
      BY <2>3, <2>4, <2>7
    <3>2. inflight[ex[f].grant] = f /\ ex[f].grant \in Grants
      BY <3>1, FlightType DEF Matched, WellTyped
    <3> HIDE DEF g
    <3> QED BY <2>2, <2>5, <3>1, <3>2
  <2>8. ASSUME NEW h \in Grants, inflight'[h] # None
        PROVE  ex'[inflight'[h]] # NoExchange /\ ex'[inflight'[h]].grant = h
    <3>1. h # g /\ inflight'[h] = inflight[h] /\ inflight[h] \in Exchanges \ {e}
      BY <2>3, <2>5, <2>6, <2>8 DEF WellTyped, FlightsOK
    <3> HIDE DEF g
    <3> QED BY <2>4, <2>8, <3>1 DEF Matched
  <2> QED BY <2>7, <2>8 DEF Matched
<1>6. CASE NextDaemon
  BY <1>6 DEF NextDaemon, Matched
<1> QED BY <1>1, <1>2, <1>3, <1>4, <1>5, <1>6, Kinds DEF Rests

LEMMA MatchedAlways == Spec => [](WellTyped /\ Matched)
<1>1. Init => Matched
  BY DEF Init, Matched
<1>2. WellTyped /\ Matched /\ [Next]_vars => Matched'
  BY MatchedStep
<1> QED BY <1>1, <1>2, WellTypedAlways, PTL DEF Spec

(* No two exchanges of one grant are in flight, whatever replaces its row  *)
(* meanwhile: the map is the lock, not the row.                            *)
THEOREM Singleflight == Spec => []OneExchange
<1>1. Matched => OneExchange
  BY DEF Matched, OneExchange
<1> QED BY <1>1, MatchedAlways, PTL

-----------------------------------------------------------------------------
(***************************************************************************)
(* Bearers, and rows that say "refreshing".                                *)
(***************************************************************************)

(* What an answer leaves of the row and the bearer of its grant, and of    *)
(* those of the others.                                                    *)
LEMMA AnswerKinds ==
  ASSUME WellTyped, NEW e \in Exchanges, Answered(e), NEW g \in Grants
  PROVE  /\ row[g] = NoGrant => row'[g] = NoGrant
         /\ row[g] # NoGrant => row'[g] # NoGrant
         /\ g # ex[e].grant =>
              row'[g] = row[g] /\ access'[g] = access[g] /\ inflight'[g] = inflight[g]
         /\ g = ex[e].grant =>
              /\ row'[g].state # "refreshing"
              /\ \/ access'[g] = access[g] /\ row'[g].state \notin Dead
                 \/ access'[g] = access[g] /\ row'[g] = NoGrant
                 \/ access'[g] = NoToken
                 \/ row[g] # NoGrant /\ row'[g].state \notin Dead
<1>1. ex[e].grant \in Grants
  BY FlightType DEF WellTyped, Answered, Renewed, Fails, Definitive
<1>2. DOMAIN row = Grants /\ DOMAIN access = Grants /\ DOMAIN inflight = Grants
  BY DEF WellTyped, RowsOK, BearersOK, FlightsOK
<1>3. NoGrant.state \notin Dead /\ NoGrant.state # "refreshing"
  BY DEF NoGrant, Dead
<1>4. row[g] # NoGrant => row[g] \in Rows(g)
  BY DEF WellTyped, RowsOK
<1>5. \A r \in Rows(g) : r # NoGrant
  BY Distinct
<1>6. CASE Renewed(e)
  <2>1. row[ex[e].grant] # NoGrant
    BY <1>6 DEF Renewed
  <2>2. g = ex[e].grant => row'[g].state = "healthy"
    <3>1. ex[e] # NoExchange
      BY <1>6 DEF Renewed
    <3>2. ex[e].auth \in Auths(ex[e].grant) /\ ex[e].gen \in Gens
      BY <3>1, FlightType DEF WellTyped
    <3>3. PICK next \in {ex[e].gen, ex[e].gen + 1} \cap Gens,
               means \in Supplied(row[ex[e].grant].means) :
            row' = RenewalOf(ex[e].grant, ex[e].auth, ex[e].gen, next, means)
      BY <1>6 DEF Renewed, RenewalOf
    <3>4. RowsOK /\ next \in Gens /\ means \in Means
      BY <1>1, <2>1, <3>3, SuppliedType DEF WellTyped
    <3>5. row'[ex[e].grant].state = "healthy"
      BY <1>1, <2>1, <3>2, <3>3, <3>4, RenewedRow
    <3> QED BY <3>5
  <2>3. g # ex[e].grant => row'[g] = row[g] /\ access'[g] = access[g] /\ inflight'[g] = inflight[g]
    BY <1>1, <1>2, <1>6 DEF Renewed, End
  <2> QED BY <2>1, <2>2, <2>3 DEF Dead, NoGrant
<1>7. CASE Fails(e)
  <2>1. access' = access /\ row' = Degraded(ex[e].grant)
    BY <1>7 DEF Fails
  <2>2. g # ex[e].grant => row'[g] = row[g] /\ inflight'[g] = inflight[g]
    BY <1>1, <1>2, <1>7, <2>1 DEF Fails, End, Degraded
  <2>3. g = ex[e].grant /\ row[g] # NoGrant => row'[g].state = "degraded"
    BY <1>1, <1>2, <1>4, <2>1 DEF Degraded, Rows
  <2>4. g = ex[e].grant /\ row[g] = NoGrant => row'[g] = NoGrant
    BY <2>1 DEF Degraded
  <2> QED BY <1>3, <2>1, <2>2, <2>3, <2>4 DEF Dead, NoGrant
<1>8. CASE Definitive(e)
  <2>1. g # ex[e].grant => row'[g] = row[g] /\ access'[g] = access[g] /\ inflight'[g] = inflight[g]
    BY <1>1, <1>2, <1>8 DEF Definitive, End
  <2>2. g = ex[e].grant => access'[g] = NoToken
    BY <1>1, <1>2, <1>8 DEF Definitive
  <2>3. g = ex[e].grant /\ row[g] # NoGrant => row'[g].state = "reauth_required"
    BY <1>1, <1>2, <1>4, <1>8 DEF Definitive, Rows
  <2>4. g = ex[e].grant /\ row[g] = NoGrant => row'[g] = NoGrant
    BY <1>8 DEF Definitive
  <2> QED BY <1>3, <2>1, <2>2, <2>3, <2>4 DEF NoGrant
<1> QED BY <1>6, <1>7, <1>8 DEF Answered

LEMMA BearerStep ==
  ASSUME WellTyped, NoBearerWithoutGrant, [Next]_vars PROVE NoBearerWithoutGrant'
<1> SUFFICES ASSUME NEW h \in Grants, access'[h] # NoToken PROVE row'[h] # NoGrant
  BY DEF NoBearerWithoutGrant
<1>1. \A g \in Grants : row[g] # NoGrant =>
        \A k : [row EXCEPT ![g].state = k][h] = NoGrant => row[h] = NoGrant
  <2> SUFFICES ASSUME NEW g \in Grants, row[g] # NoGrant, NEW k,
                      [row EXCEPT ![g].state = k][h] = NoGrant
               PROVE  row[h] = NoGrant
    OBVIOUS
  <2>1. CASE h = g
    <3>1. DOMAIN row[g] = {"state", "auth", "gen", "means", "backoff"}
      BY DEF WellTyped, RowsOK, Rows
    <3>2. DOMAIN NoGrant = {"state"}
      BY DEF NoGrant
    <3>3. DOMAIN [row EXCEPT ![g].state = k][h] = DOMAIN row[g]
      BY <2>1 DEF WellTyped, RowsOK
    <3> QED BY <3>1, <3>2, <3>3
  <2>2. CASE h # g
    BY <2>2 DEF WellTyped, RowsOK
  <2> QED BY <2>1, <2>2
<1>2. Quieter => access[h] # NoToken /\ row[h] # NoGrant
  BY DEF Quieter, NoBearerWithoutGrant
<1>3. ASSUME NEW g \in Grants, NEW e \in Exchanges, NEW forced \in BOOLEAN, Sends(g, e, forced)
      PROVE  row'[h] # NoGrant
  BY <1>1, <1>2, <1>3 DEF Sends
<1>4. ASSUME NEW g \in Grants, Refuses(g) PROVE row'[h] # NoGrant
  BY <1>1, <1>2, <1>4 DEF Refuses
<1>5. CASE Rests
  BY <1>2, <1>5 DEF Rests
<1>6. ASSUME NEW g \in Grants, Age(g) \/ BackoffEnds(g) \/ Login(g) \/ Import(g) \/ Forget(g)
      PROVE  row'[h] # NoGrant
  <2> USE DEF WellTyped, RowsOK, BearersOK
  <2>1. CASE Age(g)
    BY <1>6, <2>1 DEF Age, Usable, NoBearerWithoutGrant
  <2>2. CASE BackoffEnds(g)
    <3>1. row'[h] = row[h] \/ row'[h] \in Rows(h)
      BY <2>2, RowType DEF BackoffEnds, Rows
    <3> QED BY <2>2, <3>1, Distinct DEF BackoffEnds, NoBearerWithoutGrant
  <2>3. CASE Login(g) \/ Import(g)
    <3>1. row'[h] = row[h] \/ \E s, n, m : row'[h] = Fresh(s, n, m)
      BY <2>3 DEF Login, Import
    <3>2. \A s, n, m : Fresh(s, n, m) # NoGrant
      BY DEF Fresh, NoGrant
    <3>3. h # g => access'[h] = access[h] /\ row'[h] = row[h]
      BY <2>3 DEF Login, Import
    <3>4. h = g => \E s, n, m : row'[h] = Fresh(s, n, m)
      BY <2>3 DEF Login, Import
    <3> QED BY <3>2, <3>3, <3>4 DEF NoBearerWithoutGrant
  <2>4. CASE Forget(g)
    BY <2>4 DEF Forget, NoBearerWithoutGrant
  <2> QED BY <1>6, <2>1, <2>2, <2>3, <2>4
<1>7. ASSUME NEW e \in Exchanges, Answered(e) PROVE row'[h] # NoGrant
  BY <1>7, AnswerKinds DEF NoBearerWithoutGrant
<1>8. CASE NextDaemon
  BY <1>8 DEF NextDaemon
<1> QED BY <1>3, <1>4, <1>5, <1>6, <1>7, <1>8, Kinds

(* A forgotten grant has no bearer: an exchange that finds no row ends     *)
(* without one.                                                            *)
THEOREM ForgottenIsForgotten == Spec => []NoBearerWithoutGrant
<1>1. Init => NoBearerWithoutGrant
  BY DEF Init, NoBearerWithoutGrant
<1>2. WellTyped /\ NoBearerWithoutGrant /\ [Next]_vars => NoBearerWithoutGrant'
  BY BearerStep
<1> QED BY <1>1, <1>2, WellTypedAlways, PTL DEF Spec

LEMMA StatesOfRows ==
  ASSUME WellTyped, NEW g \in Grants, NEW k, NEW h \in Grants
  PROVE  /\ h = g /\ row[g] # NoGrant => [row EXCEPT ![g].state = k][h].state = k
         /\ h # g => [row EXCEPT ![g].state = k][h] = row[h]
  BY DEF WellTyped, RowsOK, Rows

LEMMA RefreshingStep ==
  ASSUME WellTyped, RefreshingIsInFlight, [Next]_vars PROVE RefreshingIsInFlight'
<1> SUFFICES ASSUME listening', NEW h \in Grants, row'[h].state = "refreshing"
             PROVE  inflight'[h] # None
  BY DEF RefreshingIsInFlight
<1>1. ASSUME NEW g \in Grants, NEW e \in Exchanges, NEW forced \in BOOLEAN, Sends(g, e, forced)
      PROVE  inflight'[h] # None
  <2>1. inflight'[g] # None
    BY <1>1, NoneIsNoExchange DEF Sends, WellTyped, FlightsOK, NoneIsNoExchange
  <2>2. h # g => row'[h] = row[h] /\ inflight'[h] = inflight[h]
    BY <1>1, StatesOfRows DEF Sends, WellTyped, FlightsOK
  <2> QED BY <1>1, <2>1, <2>2 DEF Sends, others, RefreshingIsInFlight
<1>2. ASSUME NEW g \in Grants, Refuses(g) PROVE inflight'[h] # None
  <2>1. h # g
    <3>1. Unrenewable(row[g].means) # "refreshing"
      BY DEF Unrenewable
    <3>2. row'[g].state = Unrenewable(row[g].means)
      BY <1>2, StatesOfRows DEF Refuses
    <3> QED BY <3>1, <3>2
  <2> QED BY <1>2, <2>1, StatesOfRows DEF Refuses, others, RefreshingIsInFlight
<1>3. CASE Rests
  BY <1>3 DEF Rests, others, RefreshingIsInFlight
<1>4. ASSUME NEW g \in Grants, Age(g) \/ BackoffEnds(g) \/ Login(g) \/ Import(g) \/ Forget(g)
      PROVE  inflight'[h] # None
  <2>1. listening' = listening /\ inflight' = inflight
    BY <1>4 DEF Age, BackoffEnds, Login, Import, Forget
  <2>2. row[h].state = "refreshing"
    <3>1. CASE Age(g)
      BY <3>1 DEF Age
    <3>2. CASE BackoffEnds(g)
      BY <3>2 DEF BackoffEnds, WellTyped, RowsOK, Rows
    <3>3. CASE Login(g)
      BY <3>3 DEF Login, Fresh, WellTyped, RowsOK
    <3>4. CASE Import(g)
      BY <3>4 DEF Import, Fresh, WellTyped, RowsOK
    <3>5. CASE Forget(g)
      BY <3>5 DEF Forget, NoGrant, WellTyped, RowsOK
    <3> QED BY <1>4, <3>1, <3>2, <3>3, <3>4, <3>5
  <2> QED BY <2>1, <2>2 DEF RefreshingIsInFlight
<1>5. ASSUME NEW e \in Exchanges, Answered(e) PROVE inflight'[h] # None
  <2>1. h # ex[e].grant /\ row'[h] = row[h] /\ inflight'[h] = inflight[h]
    BY <1>5, AnswerKinds
  <2>2. listening' = listening
    BY <1>5 DEF Answered, Renewed, Fails, Definitive, End
  <2> QED BY <2>1, <2>2 DEF RefreshingIsInFlight
<1>6. CASE NextDaemon
  <2>1. PICK unnamed \in SUBSET {g \in Grants : row[g] # NoGrant /\ row[g].means # "refresh"} :
          row' = Restarted(unnamed)
    BY <1>6 DEF NextDaemon
  <2>2. row'[h].state # "refreshing"
    BY <2>1, OpenedRows DEF WellTyped
  <2> QED BY <2>2
<1> QED BY <1>1, <1>2, <1>3, <1>4, <1>5, <1>6, Kinds

(* A row does not say "refreshing" of a refresh nobody is waiting for.     *)
THEOREM NoPhantomRefresh == Spec => []RefreshingIsInFlight
<1>1. Init => RefreshingIsInFlight
  BY DEF Init, RefreshingIsInFlight, NoGrant
<1>2. WellTyped /\ RefreshingIsInFlight /\ [Next]_vars => RefreshingIsInFlight'
  BY RefreshingStep
<1> QED BY <1>1, <1>2, WellTypedAlways, PTL DEF Spec

-----------------------------------------------------------------------------
(***************************************************************************)
(* Dead grants.                                                            *)
(***************************************************************************)

(* A dead grant that could still be refreshed has no bearer that could     *)
(* age, which is what keeps a stale list of the sweep harmless.            *)
DeadHaveNoBearer ==
  \A g \in Grants :
    row[g].state \in Dead /\ row[g].means = "refresh" => access[g] = NoToken

LEMMA DeadStep ==
  ASSUME WellTyped, DeadHaveNoBearer, [Next]_vars PROVE DeadHaveNoBearer'
<1> SUFFICES ASSUME NEW h \in Grants, row'[h].state \in Dead, row'[h].means = "refresh"
             PROVE  access'[h] = NoToken
  BY DEF DeadHaveNoBearer
<1>1. ASSUME NEW g \in Grants, NEW e \in Exchanges, NEW forced \in BOOLEAN, Sends(g, e, forced)
      PROVE  access'[h] = NoToken
  <2>1. h # g /\ row'[h] = row[h]
    BY <1>1, StatesOfRows DEF Sends, Dead
  <2> QED BY <1>1, <2>1 DEF Sends, Quieter, DeadHaveNoBearer
<1>2. ASSUME NEW g \in Grants, Refuses(g) PROVE access'[h] = NoToken
  <2>1. h # g => row'[h] = row[h]
    BY <1>2, StatesOfRows DEF Refuses
  <2> QED BY <1>2, <2>1 DEF Refuses, Quieter, DeadHaveNoBearer
<1>3. CASE Rests
  BY <1>3 DEF Rests, Quieter, DeadHaveNoBearer
<1>4. ASSUME NEW g \in Grants, Age(g) \/ BackoffEnds(g) \/ Login(g) \/ Import(g) \/ Forget(g)
      PROVE  access'[h] = NoToken
  <2> USE DEF WellTyped, RowsOK, BearersOK
  <2>1. CASE Age(g)
    BY <2>1 DEF Age, Usable, DeadHaveNoBearer
  <2>2. CASE BackoffEnds(g)
    BY <2>2 DEF BackoffEnds, Rows, DeadHaveNoBearer
  <2>3. CASE Login(g)
    BY <2>3 DEF Login, Fresh, Dead, DeadHaveNoBearer
  <2>4. CASE Import(g)
    BY <2>4 DEF Import, Fresh, Dead, DeadHaveNoBearer
  <2>5. CASE Forget(g)
    BY <2>5 DEF Forget, DeadHaveNoBearer
  <2> QED BY <1>4, <2>1, <2>2, <2>3, <2>4, <2>5
<1>5. ASSUME NEW e \in Exchanges, Answered(e) PROVE access'[h] = NoToken
  BY <1>5, AnswerKinds DEF DeadHaveNoBearer, NoGrant, Dead
<1>6. CASE NextDaemon
  BY <1>6 DEF NextDaemon
<1> QED BY <1>1, <1>2, <1>3, <1>4, <1>5, <1>6, Kinds

(* Only somebody who may begins an exchange.                               *)
LEMMA WhoSends ==
  ASSUME WellTyped, DeadHaveNoBearer, [Next]_vars, NEW e \in Exchanges,
         ex[e] = NoExchange, ex'[e] # NoExchange, ~ex'[e].forced
  PROVE  row[ex'[e].grant].state \notin Dead
<1> DEFINE Goal == row[ex'[e].grant].state \notin Dead
<1>1. ASSUME NEW g \in Grants, NEW f \in Exchanges, NEW forced \in BOOLEAN, Sends(g, f, forced)
      PROVE  ex'[e].grant = g /\ ex'[e].forced = forced
  BY <1>1 DEF Sends, WellTyped, FlightsOK
<1>2. ASSUME NEW g \in Grants, AccessTokenFor(g) PROVE Goal
  <2>1. PICK f \in Exchanges : Sends(g, f, FALSE)
    BY <1>2, RefreshKinds DEF AccessTokenFor, WellTyped, BearersOK, others, Refuses, Rests
  <2> QED BY <1>1, <1>2, <2>1 DEF AccessTokenFor, Open
<1>3. ASSUME NEW g \in Grants, Refused(g) PROVE Goal
  <2> DEFINE gone == [access EXCEPT ![g] = NoToken]
  <2>1. Open(g) /\ Refresh(g, FALSE, gone)
    BY <1>3 DEF Refused
  <2>2. DOMAIN gone = Grants /\ \A h \in Grants : gone[h] = access[h] \/ gone[h] = NoToken
    BY DEF WellTyped, BearersOK
  <2>3. UNCHANGED others
    BY <1>3 DEF Refused, others
  <2>4. PICK f \in Exchanges : Sends(g, f, FALSE)
    <3> HIDE DEF gone
    <3> QED BY <2>1, <2>2, <2>3, RefreshKinds DEF Refuses, Rests
  <2> QED BY <1>1, <2>1, <2>4 DEF Open
<1>4. ASSUME NEW g \in Grants, RefreshNow(g) PROVE FALSE
  <2>1. PICK f \in Exchanges : Sends(g, f, TRUE)
    BY <1>4, RefreshKinds DEF RefreshNow, WellTyped, BearersOK, others, Refuses, Rests
  <2> QED BY <1>1, <2>1
<1>5. ASSUME NEW T \in SUBSET Grants, NEW H \in SUBSET T, Sweep(T, H), UNCHANGED others
      PROVE  Goal
  <2>1. PICK g \in T, f \in Exchanges : Sends(g, f, FALSE) /\ Due(g, H)
    BY <1>5, SweepKinds DEF Refuses, Rests
  <2> QED BY <1>1, <2>1 DEF Sends, Due, Aging, DeadHaveNoBearer
<1>6. CASE SweepBegins
  BY <1>5, <1>6 DEF SweepBegins, others
<1>7. CASE SweepResumes
  BY <1>5, <1>7 DEF SweepResumes, others, WellTyped, SweepOK
<1>8. ~UNCHANGED ex
  OBVIOUS
<1>9. \A g \in Grants : ~(\/ Age(g) \/ BackoffEnds(g) \/ ListedBackoffEnds(g)
                         \/ Login(g) \/ Import(g) \/ Forget(g))
  BY <1>8 DEF Age, BackoffEnds, ListedBackoffEnds, Login, Import, Forget
<1>10. \A f \in Exchanges : ~Answered(f)
  BY DEF Answered, Renewed, Fails, Definitive, End, WellTyped, FlightsOK
<1>11. ~NextDaemon
  BY DEF NextDaemon
<1> QED BY <1>2, <1>3, <1>4, <1>6, <1>7, <1>8, <1>9, <1>10, <1>11 DEF Next, vars

(* A dead grant is left alone by everybody but an operator, by a sweep     *)
(* with an old list too.                                                   *)
THEOREM DeadAreLeftAlone == Spec => DeadGrantsStayQuiet
<1>1. Init => DeadHaveNoBearer
  BY DEF Init, DeadHaveNoBearer
<1>2. WellTyped /\ DeadHaveNoBearer /\ [Next]_vars => DeadHaveNoBearer'
  BY DeadStep
<1>3. WellTyped /\ DeadHaveNoBearer /\ [Next]_vars =>
        [\A e \in Exchanges :
           ex[e] = NoExchange /\ ex'[e] # NoExchange /\ ~ex'[e].forced
             => row[ex'[e].grant].state \notin Dead]_vars
  BY WhoSends
<1> QED BY <1>1, <1>2, <1>3, WellTypedAlways, PTL DEF Spec, DeadGrantsStayQuiet

-----------------------------------------------------------------------------
(***************************************************************************)
(* Spent tokens.  What OMP has is copied at most once: a second copy is    *)
(* what RetryingIsSafe is about.                                           *)
(***************************************************************************)
ImportsOnce == \A g \in Grants : Imports[g] <= 1

(* The authorization has been given, or copied.                            *)
Used(g, n) == n <= logins[g] /\ (n = 0 => imports[g] = 1)

(* Rows and exchanges hold the newest token of their authorization, and no *)
(* bearer came with a newer one.                                           *)
UnusedUnrotated ==
  \A g \in Grants : \A n \in Auths(g) : ~Used(g, n) => newest[g][n] = 0
RowsCurrent ==
  \A g \in Grants : row[g] # NoGrant =>
    row[g].gen = newest[g][row[g].auth] /\ Used(g, row[g].auth)
FlightsCurrent ==
  \A e \in Exchanges : ex[e] # NoExchange =>
    ex[e].gen = newest[ex[e].grant][ex[e].auth] /\ Used(ex[e].grant, ex[e].auth)
BearersBehind ==
  \A g \in Grants : access[g] # NoToken =>
    access[g].gen <= newest[g][access[g].auth]

Current == UnusedUnrotated /\ RowsCurrent /\ FlightsCurrent /\ BearersBehind

LEMMA CurrentAsked ==
  ASSUME WellTyped, Current, Quieter, UNCHANGED others,
         \A h \in Grants : \/ row'[h] = row[h]
                           \/ row[h] # NoGrant /\ row'[h].auth = row[h].auth /\ row'[h].gen = row[h].gen,
         \A f \in Exchanges : \/ ex'[f] = ex[f] \/ ex'[f] = NoExchange
                              \/ \E g \in Grants : /\ row[g] # NoGrant /\ ex'[f].grant = g
                                                    /\ ex'[f].auth = row[g].auth
                                                    /\ ex'[f].gen = row[g].gen
  PROVE  Current'
<1>1. \A g, n : Used(g, n)' <=> Used(g, n)
  BY DEF Used, others
<1>2. newest' = newest
  BY DEF others
<1>3. UnusedUnrotated'
  BY <1>1, <1>2 DEF UnusedUnrotated, Current
<1>4. RowsCurrent'
  BY <1>1, <1>2 DEF RowsCurrent, Current
<1>5. FlightsCurrent'
  BY <1>1, <1>2 DEF RowsCurrent, FlightsCurrent, Current
<1>6. BearersBehind'
  BY <1>2 DEF BearersBehind, Current, Quieter
<1> QED BY <1>3, <1>4, <1>5, <1>6 DEF Current

UsedNext(g, n) == n <= logins'[g] /\ (n = 0 => imports'[g] = 1)

(* An authorization nobody has used yet takes the row.                     *)
LEMMA CurrentReplaced ==
  ASSUME WellTyped, Current, NEW g \in Grants, NEW new \in Auths(g),
         ~Used(g, new), UsedNext(g, new),
         \A h \in Grants : \A n \in Auths(h) : Used(h, n) => UsedNext(h, n),
         newest' = newest, ex' = ex,
         row'[g].auth = new, row'[g].gen = 0,
         access'[g] = access[g] \/ (access'[g].auth = new /\ access'[g].gen = 0),
         \A h \in Grants : h # g => row'[h] = row[h] /\ access'[h] = access[h]
  PROVE  Current'
<1> USE DEF WellTyped
<1>1. newest[g][new] = 0
  BY DEF Current, UnusedUnrotated
<1>2. UnusedUnrotated'
  BY DEF UnusedUnrotated, Current, Used, UsedNext
<1>3. RowsCurrent'
  <2> SUFFICES ASSUME NEW h \in Grants, row'[h] # NoGrant
               PROVE  row'[h].gen = newest[h][row'[h].auth] /\ UsedNext(h, row'[h].auth)
    BY DEF RowsCurrent, Used, UsedNext
  <2>1. CASE h = g
    BY <1>1, <2>1
  <2>2. CASE h # g
    BY <2>2, RowType DEF Current, RowsCurrent
  <2> QED BY <2>1, <2>2
<1>4. FlightsCurrent'
  BY FlightType DEF Current, FlightsCurrent, Used, UsedNext
<1>5. BearersBehind'
  BY <1>1 DEF Current, BearersBehind
<1> QED BY <1>2, <1>3, <1>4, <1>5 DEF Current

LEMMA CurrentLogin ==
  ASSUME WellTyped, Current, NEW g \in Grants, Login(g) PROVE Current'
<1> DEFINE new == logins[g] + 1
<1>1. logins[g] \in Nat /\ Logins[g] \in Nat /\ logins[g] < Logins[g]
  BY Bounds DEF WellTyped, CountsOK, Login
<1>2. new \in Auths(g)
  BY <1>1 DEF Auths
<1>3. imports' = imports /\ logins'[g] = new /\ \A h \in Grants : h # g => logins'[h] = logins[h]
  BY DEF Login, WellTyped, CountsOK
<1>4. ~Used(g, new) /\ UsedNext(g, new)
  BY <1>1, <1>3 DEF Used, UsedNext
<1>5. \A h \in Grants : \A n \in Auths(h) : Used(h, n) => UsedNext(h, n)
  <2> SUFFICES ASSUME NEW h \in Grants, NEW n \in Auths(h), Used(h, n) PROVE UsedNext(h, n)
    OBVIOUS
  <2>1. n \in Nat
    BY Bounds DEF Auths
  <2>2. CASE h = g
    BY <1>1, <1>3, <2>1, <2>2 DEF Used, UsedNext
  <2>3. CASE h # g
    BY <1>3, <2>3 DEF Used, UsedNext
  <2> QED BY <2>2, <2>3
<1>6. row'[g].auth = new /\ row'[g].gen = 0 /\ access'[g].auth = new /\ access'[g].gen = 0
  BY DEF Login, Fresh, WellTyped, RowsOK, BearersOK
<1>7. \A h \in Grants : h # g => row'[h] = row[h] /\ access'[h] = access[h]
  BY DEF Login, WellTyped, RowsOK, BearersOK
<1>8. newest' = newest /\ ex' = ex
  BY DEF Login
<1> HIDE DEF new
<1> QED BY <1>2, <1>4, <1>5, <1>6, <1>7, <1>8, CurrentReplaced

LEMMA CurrentImport ==
  ASSUME WellTyped, Current, ImportsOnce, NEW g \in Grants, Import(g) PROVE Current'
<1>1. imports[g] = 0
  <2>1. imports[g] \in 0..Imports[g] /\ imports[g] < Imports[g]
    BY DEF WellTyped, CountsOK, Import
  <2>2. Imports[g] \in Nat /\ Imports[g] <= 1
    BY Bounds DEF ImportsOnce
  <2> QED BY <2>1, <2>2
<1>2. 0 \in Auths(g) /\ logins[g] \in Nat
  BY Bounds DEF Auths, WellTyped, CountsOK
<1>3. logins' = logins /\ imports'[g] = 1 /\ \A h \in Grants : h # g => imports'[h] = imports[h]
  BY <1>1 DEF Import, WellTyped, CountsOK
<1>4. ~Used(g, 0) /\ UsedNext(g, 0)
  BY <1>1, <1>2, <1>3 DEF Used, UsedNext
<1>5. \A h \in Grants : \A n \in Auths(h) : Used(h, n) => UsedNext(h, n)
  BY <1>3 DEF Used, UsedNext
<1>6. row'[g].auth = 0 /\ row'[g].gen = 0
  BY DEF Import, Fresh, WellTyped, RowsOK
<1>7. /\ access'[g] = access[g]
      /\ \A h \in Grants : h # g => row'[h] = row[h] /\ access'[h] = access[h]
  BY DEF Import, WellTyped, RowsOK
<1>8. newest' = newest /\ ex' = ex
  BY DEF Import
<1> QED BY <1>2, <1>4, <1>5, <1>6, <1>7, <1>8, CurrentReplaced

(* What a renewal makes of the newest generation of its authorization.     *)
LEMMA NewestRaised ==
  ASSUME CountsOK, NEW g \in Grants, NEW n \in Auths(g), NEW next \in Gens,
         newest[g][n] <= next,
         newest' = IF next > newest[g][n] THEN [newest EXCEPT ![g][n] = next] ELSE newest
  PROVE  /\ newest'[g][n] = next
         /\ \A h \in Grants : h # g => newest'[h] = newest[h]
         /\ \A k \in Auths(g) : k # n => newest'[g][k] = newest[g][k]
         /\ next = newest[g][n] => newest' = newest
<1>1. DOMAIN newest = Grants /\ newest[g] \in [Auths(g) -> Gens]
  BY DEF CountsOK
<1>2. newest[g][n] \in Nat /\ next \in Nat
  BY <1>1 DEF Gens
<1>3. CASE next > newest[g][n]
  <2>1. newest' = [newest EXCEPT ![g][n] = next]
    BY <1>3
  <2>2. newest'[g] = [newest[g] EXCEPT ![n] = next]
    BY <1>1, <2>1
  <2>3. \A h \in Grants : h # g => newest'[h] = newest[h]
    BY <1>1, <2>1
  <2>4. next # newest[g][n]
    BY <1>2, <1>3
  <2> QED BY <1>1, <2>2, <2>3, <2>4
<1>4. CASE ~(next > newest[g][n])
  BY <1>2, <1>4
<1> QED BY <1>3, <1>4

LEMMA CurrentRenewed ==
  ASSUME WellTyped, Matched, Current, NEW e \in Exchanges, Renewed(e)
  PROVE  Current'
<1> USE DEF WellTyped
<1> DEFINE g == ex[e].grant
           n == ex[e].auth
<1>1. /\ ex[e] # NoExchange /\ row[g] # NoGrant /\ End(e)
      /\ g \in Grants /\ n \in Auths(g) /\ ex[e].gen \in Gens
  BY FlightType DEF Renewed
<1>2. PICK next \in {ex[e].gen, ex[e].gen + 1} \cap Gens, means \in Supplied(row[g].means) :
        /\ row' = [row EXCEPT ![g].state = "healthy", ![g].backoff = FALSE,
                              ![g].means = IF next = ex[e].gen THEN @ ELSE means,
                              ![g].auth = IF next = ex[e].gen THEN @ ELSE n,
                              ![g].gen = IF next = ex[e].gen THEN @ ELSE next]
        /\ access' = [access EXCEPT ![g] = [auth |-> n, gen |-> next, aged |-> FALSE]]
        /\ newest' = IF next > newest[g][n] THEN [newest EXCEPT ![g][n] = next] ELSE newest
  BY DEF Renewed
<1>3. ex[e].gen = newest[g][n] /\ Used(g, n)
  BY <1>1 DEF Current, FlightsCurrent
<1>4. \A h, k : Used(h, k)' <=> Used(h, k)
  BY <1>1 DEF End, Used
<1>5. ex[e].gen \in Nat /\ next \in Nat /\ newest[g][n] <= next
  BY <1>1, <1>3 DEF Gens
<1>6. /\ newest'[g][n] = next
      /\ \A h \in Grants : h # g => newest'[h] = newest[h]
      /\ \A k \in Auths(g) : k # n => newest'[g][k] = newest[g][k]
      /\ next = ex[e].gen => newest' = newest
  <2>1. newest' = IF next > newest[g][n] THEN [newest EXCEPT ![g][n] = next] ELSE newest
    BY <1>2
  <2> HIDE DEF g, n
  <2> QED BY <1>1, <1>3, <1>5, <2>1, NewestRaised
<1>8. \A f \in Exchanges : ex'[f] # NoExchange => ex'[f] = ex[f] /\ ex[f].grant # g
  <2>1. \A f \in Exchanges : f # e => ex'[f] = ex[f]
    BY <1>1 DEF End, FlightsOK
  <2>2. ex'[e] = NoExchange
    BY <1>1 DEF End, FlightsOK
  <2> QED BY <1>1, <2>1, <2>2 DEF Matched
<1>10. RowsCurrent'
  <2> HIDE DEF g, n
  <2>1. /\ \A h \in Grants : h # g => row'[h] = row[h]
        /\ row'[g].auth = IF next = ex[e].gen THEN row[g].auth ELSE n
        /\ row'[g].gen = IF next = ex[e].gen THEN row[g].gen ELSE next
    <3>1. row' = RenewalOf(g, n, ex[e].gen, next, means)
      BY <1>2 DEF RenewalOf, g, n
    <3>2. means \in Means
      BY <1>1, <1>2, SuppliedType
    <3> QED BY <1>1, <3>1, <3>2, RenewedRow
  <2>2. row'[g].gen = newest'[g][row'[g].auth] /\ Used(g, row'[g].auth)
    <3>1. row[g].gen = newest[g][row[g].auth] /\ Used(g, row[g].auth)
      BY <1>1 DEF Current, RowsCurrent
    <3>2. CASE next = ex[e].gen
      BY <1>6, <2>1, <3>1, <3>2
    <3>3. CASE next # ex[e].gen
      BY <1>3, <1>6, <2>1, <3>3
    <3> QED BY <3>2, <3>3
  <2> QED BY <1>1, <1>4, <1>6, <2>1, <2>2 DEF Current, RowsCurrent
<1>11. UnusedUnrotated'
  <2> HIDE DEF g, n
  <2> QED BY <1>3, <1>4, <1>6 DEF Current, UnusedUnrotated
<1>12. FlightsCurrent'
  BY <1>4, <1>6, <1>8, FlightType DEF Current, FlightsCurrent
<1>13. BearersBehind'
  <2>1. \A h \in Grants : h # g => access'[h] = access[h]
    BY <1>1, <1>2 DEF BearersOK
  <2>2. access'[g].auth = n /\ access'[g].gen = next
    BY <1>1, <1>2 DEF BearersOK
  <2> HIDE DEF g, n
  <2> QED BY <1>5, <1>6, <2>1, <2>2 DEF Current, BearersBehind
<1> QED BY <1>10, <1>11, <1>12, <1>13 DEF Current

LEMMA CurrentStep ==
  ASSUME WellTyped, Matched, Current, ImportsOnce, [Next]_vars PROVE Current'
<1> USE DEF WellTyped, RowsOK, BearersOK, FlightsOK
<1>1. ASSUME NEW g \in Grants, NEW e \in Exchanges, NEW forced \in BOOLEAN, Sends(g, e, forced)
      PROVE  Current'
  <2>1. \A h \in Grants : \/ row'[h] = row[h]
                          \/ /\ row[h] # NoGrant
                             /\ row'[h].auth = row[h].auth /\ row'[h].gen = row[h].gen
    BY <1>1 DEF Sends, Rows
  <2>2. \A f \in Exchanges : \/ ex'[f] = ex[f]
                             \/ /\ row[g] # NoGrant /\ ex'[f].grant = g
                                /\ ex'[f].auth = row[g].auth /\ ex'[f].gen = row[g].gen
    BY <1>1 DEF Sends
  <2> QED BY <1>1, <2>1, <2>2, CurrentAsked DEF Sends
<1>2. ASSUME NEW g \in Grants, Refuses(g) PROVE Current'
  <2>1. \A h \in Grants : \/ row'[h] = row[h]
                          \/ /\ row[h] # NoGrant
                             /\ row'[h].auth = row[h].auth /\ row'[h].gen = row[h].gen
    BY <1>2 DEF Refuses, Rows
  <2> QED BY <1>2, <2>1, CurrentAsked DEF Refuses, others
<1>3. CASE Rests
  BY <1>3, CurrentAsked DEF Rests
<1>4. ASSUME NEW g \in Grants, Age(g) PROVE Current'
  <2>1. newest' = newest /\ ex' = ex /\ row' = row /\ \A h, k : Used(h, k)' <=> Used(h, k)
    BY <1>4 DEF Age, Used
  <2>2. \A h \in Grants : access'[h].auth = access[h].auth /\ access'[h].gen = access[h].gen
                          /\ (access[h] = NoToken => access'[h] = NoToken)
    BY <1>4 DEF Age, Usable, Bearers
  <2> QED BY <2>1, <2>2 DEF Current, UnusedUnrotated, RowsCurrent, FlightsCurrent, BearersBehind
<1>5. ASSUME NEW g \in Grants, BackoffEnds(g) \/ Forget(g) PROVE Current'
  <2>1. newest' = newest /\ ex' = ex /\ \A h, k : Used(h, k)' <=> Used(h, k)
    BY <1>5 DEF BackoffEnds, Forget, Used
  <2>2. \A h \in Grants : \/ row'[h] = row[h] \/ row'[h] = NoGrant
                          \/ /\ row[h] # NoGrant
                             /\ row'[h].auth = row[h].auth /\ row'[h].gen = row[h].gen
    BY <1>5 DEF BackoffEnds, Forget, Rows
  <2>3. Quieter
    BY <1>5 DEF BackoffEnds, Forget, Quieter
  <2> QED BY <2>1, <2>2, <2>3
          DEF Current, UnusedUnrotated, RowsCurrent, FlightsCurrent, BearersBehind, Quieter
<1>6. ASSUME NEW e \in Exchanges, Fails(e) \/ Definitive(e) PROVE Current'
  <2>1. newest' = newest /\ \A h, k : Used(h, k)' <=> Used(h, k)
    BY <1>6 DEF Fails, Definitive, End, Used
  <2>2. \A f \in Exchanges : ex'[f] = ex[f] \/ ex'[f] = NoExchange
    BY <1>6 DEF Fails, Definitive, End
  <2>3. \A h \in Grants : \/ row'[h] = row[h]
                          \/ /\ row[h] # NoGrant
                             /\ row'[h].auth = row[h].auth /\ row'[h].gen = row[h].gen
    BY <1>6 DEF Fails, Definitive, Degraded, Rows
  <2>4. Quieter
    BY <1>6 DEF Fails, Definitive, Quieter
  <2> QED BY <2>1, <2>2, <2>3, <2>4
          DEF Current, UnusedUnrotated, RowsCurrent, FlightsCurrent, BearersBehind, Quieter
<1>7. CASE NextDaemon
  <2>1. newest' = newest /\ \A h, k : Used(h, k)' <=> Used(h, k)
    BY <1>7 DEF NextDaemon, Used
  <2>2. \A h \in Grants : \/ row'[h] = row[h]
                          \/ /\ row[h] # NoGrant
                             /\ row'[h].auth = row[h].auth /\ row'[h].gen = row[h].gen
    BY <1>7, OpenedRows DEF NextDaemon
  <2> QED BY <1>7, <2>1, <2>2
          DEF NextDaemon, Current, UnusedUnrotated, RowsCurrent, FlightsCurrent, BearersBehind
<1> QED BY <1>1, <1>2, <1>3, <1>4, <1>5, <1>6, <1>7, CurrentLogin, CurrentImport,
           CurrentRenewed, Kinds
        DEF Answered

LEMMA CurrentAlways == ASSUME ImportsOnce PROVE Spec => []Current
<1>1. Init => Current
  <2> SUFFICES ASSUME Init PROVE Current
    OBVIOUS
  <2>1. \A g \in Grants : newest[g] = [n \in Auths(g) |-> 0]
    BY DEF Init
  <2>2. /\ \A g \in Grants : row[g] = NoGrant /\ access[g] = NoToken
        /\ \A e \in Exchanges : ex[e] = NoExchange
    BY DEF Init
  <2> QED BY <2>1, <2>2
          DEF Current, UnusedUnrotated, RowsCurrent, FlightsCurrent, BearersBehind
<1>2. WellTyped /\ Matched /\ Current /\ [Next]_vars => Current'
  BY CurrentStep
<1> QED BY <1>1, <1>2, MatchedAlways, PTL DEF Spec

(* No exchange is left holding a token whose successor the broker knows,   *)
(* if no grant is imported twice.                                          *)
THEOREM SpentStaySpent == ASSUME ImportsOnce PROVE Spec => []NeverRedeemsSpent
<1>1. Current => NeverRedeemsSpent
  BY DEF Current, FlightsCurrent, NeverRedeemsSpent
<1> QED BY <1>1, CurrentAlways, PTL

(* The row is not behind the bearer that is served for it.                 *)
THEOREM StoredBeforeServed == ASSUME ImportsOnce PROVE Spec => []SuccessorFirst
<1>1. Current => SuccessorFirst
  BY DEF Current, RowsCurrent, BearersBehind, SuccessorFirst
<1> QED BY <1>1, CurrentAlways, PTL
=============================================================================
