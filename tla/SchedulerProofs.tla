--------------------------- MODULE SchedulerProofs ---------------------------
(***************************************************************************)
(* Theorems about Scheduler, for any number of routines, runs and actions. *)
(*                                                                         *)
(* The inductive invariant is TypeOK with Table, which ties the row of a   *)
(* run to the run itself: open and of the same routine while the run is in *)
(* flight and drain has not settled it, final in every other case.         *)
(***************************************************************************)
EXTENDS Scheduler, TLAPS

Mirrors(r) ==
  /\ row[r] \in Records
  /\ row[r].state \in Open
  /\ row[r].routine = run[r].routine
  /\ run[r].state \in Open

Table ==
  /\ \A r \in Runs : phase[r] \in Awaits => run[r] \in Records /\ at[r] \in Actions
  /\ \A r \in Runs : phase[r] = "none" => row[r] = NoRun
  /\ settled \subseteq InFlight
  /\ drain # "done" => settled = {}
  /\ drain = "done" => InFlight \subseteq settled
  /\ \A r \in InFlight \ settled : Mirrors(r)
  /\ \A r \in Runs : row[r].state \in Open => r \in InFlight \ settled

IInv == TypeOK /\ Table

(***************************************************************************)
(* Records.                                                                *)
(***************************************************************************)

(* Records and the missing one are apart.                                  *)
LEMMA NoRunApart == NoRun \notin Records /\ NoRun.state \notin RunStates
BY DEF NoRun, Records, RunStates, Open, Closed

(* Cutting short leaves nothing open.                                      *)
LEMMA CutShortType ==
  ASSUME NEW acts \in [Actions -> RunStates]
  PROVE  /\ CutShort(acts) \in [Actions -> RunStates]
         /\ \A i \in Actions : CutShort(acts)[i] \notin Open
BY DEF CutShort, RunStates, Open, Closed

(* Outcomes are final states.                                              *)
LEMMA OutcomeClosed ==
  ASSUME NEW acts
  PROVE  Outcome(acts) \in Closed /\ ForcedOutcome(acts) \in Closed
BY DEF Outcome, ForcedOutcome, Closed

(* A walked record is one of the same routine, final behind the end.       *)
LEMMA WalkedType ==
  ASSUME NEW rec \in Records, NEW i, NEW to
  PROVE  /\ Walked(rec, i, to) \in Records
         /\ Walked(rec, i, to).routine = rec.routine
         /\ to \in Actions => Walked(rec, i, to).state = rec.state
         /\ to \notin Actions => Walked(rec, i, to).state \in Closed
<1>1. Passed(rec.acts, i, to) \in [Actions -> RunStates]
  BY DEF Passed, Records, RunStates, Open, Closed
<1>2. Outcome(Passed(rec.acts, i, to)) \in Closed
  BY OutcomeClosed
<1>3. Closed \subseteq RunStates
  BY DEF RunStates
<1> QED
  BY <1>1, <1>2, <1>3 DEF Walked, Records

(* Settling by force gives a final record of the same routine.             *)
LEMMA ForcedType ==
  ASSUME NEW rec \in Records
  PROVE  Forced(rec) \in Records /\ Forced(rec).routine = rec.routine /\ Forced(rec).state \in Closed
<1>1. CutShort(rec.acts) \in [Actions -> RunStates]
  BY CutShortType DEF Records
<1>2. ForcedOutcome(CutShort(rec.acts)) \in Closed
  BY OutcomeClosed
<1>3. rec.state \in Open \cup Closed
  BY DEF Records, RunStates
<1> QED
  BY <1>1, <1>2, <1>3 DEF Forced, Records, RunStates

(* The next daemon leaves final records of the same routines.              *)
LEMMA ReconciledType ==
  ASSUME NEW rec \in Records \cup {NoRun}
  PROVE  /\ Reconciled(rec) \in Records \cup {NoRun}
         /\ Reconciled(rec).state \notin Open
         /\ rec = NoRun <=> Reconciled(rec) = NoRun
         /\ rec # NoRun => Reconciled(rec).routine = rec.routine
         /\ rec.state \notin Open => Reconciled(rec) = rec
<1>1. CASE rec = NoRun
  BY <1>1 DEF Reconciled, NoRun, Open, Records
<1>2. CASE rec \in Records
  <2>1. CutShort(rec.acts) \in [Actions -> RunStates]
    BY <1>2, CutShortType DEF Records
  <2>2. /\ Reconciled(rec) \in Records
        /\ Reconciled(rec).state \notin Open
        /\ Reconciled(rec).routine = rec.routine
    BY <1>2, <2>1 DEF Reconciled, Records, RunStates, Open, Closed
  <2>3. rec.state \notin Open => Reconciled(rec) = rec
    BY DEF Reconciled
  <2> QED
    BY <1>2, <2>2, <2>3, NoRunApart
<1> QED
  BY <1>1, <1>2

(* What a fired run starts with.                                           *)
LEMMA BegunType ==
  ASSUME NEW t \in Routines, NEW from, NEW to
  PROVE  /\ Begun(t, from, to) \in Records
         /\ Begun(t, from, to).routine = t
         /\ Begun(t, from, to).state \in Open => ~Skips(t) /\ to \in Actions
<1>1. CASE Skips(t)
  BY <1>1 DEF Begun, Records, RunStates, Closed, Open
<1>2. CASE ~Skips(t)
  <2> DEFINE rec == [routine |-> t, state |-> "queued", acts |-> NewActs(from)]
  <2>1. rec \in Records
    BY DEF Records, NewActs, RunStates, Open, Closed
  <2>2. /\ Walked(rec, 1, to) \in Records
        /\ Walked(rec, 1, to).routine = rec.routine
        /\ to \notin Actions => Walked(rec, 1, to).state \in Closed
    BY <2>1, WalkedType
  <2> QED
    BY <1>2, <2>2 DEF Begun, Open, Closed
<1> QED
  BY <1>1, <1>2

(* An answer to the action a run sleeps in keeps its type and its routine. *)
LEMMA WithType ==
  ASSUME NEW r \in Runs, run[r] \in Records, NEW o \in RunStates
  PROVE  /\ With(r, o) \in Records
         /\ With(r, o).routine = run[r].routine
         /\ With(r, o).state = run[r].state
BY DEF With, Records

(* #recordRun of one run.                                                  *)
LEMMA RecordedOne ==
  ASSUME NEW r \in Runs, NEW rec, row \in [Runs -> Records \cup {NoRun}]
  PROVE  Recorded([q \in {r} |-> rec]) = IF r \in settled THEN row ELSE [row EXCEPT ![r] = rec]
BY DEF Recorded

(***************************************************************************)
(* Steps of one run.  In flight it is left behind with a final record, or  *)
(* sleeps in another await; either way its row is its own unless settled.  *)
(***************************************************************************)

Writes(r, rec) == row' = IF r \in settled THEN row ELSE [row EXCEPT ![r] = rec]

Leaves(r) ==
  /\ \E rec \in Records : /\ rec.routine = run[r].routine
                          /\ rec.state \in Closed
                          /\ Writes(r, rec)
  /\ run' = [run EXCEPT ![r] = NoRun]
  /\ phase' = [phase EXCEPT ![r] = "over"]
  /\ at' = [at EXCEPT ![r] = 0]
  /\ interrupted' = interrupted \ {r}
  /\ settled' = settled \ {r}

Sleeps(r, p) ==
  /\ \E rec \in Records : /\ rec.routine = run[r].routine
                          /\ r \notin settled => rec.state \in Open
                          /\ run' = [run EXCEPT ![r] = rec]
  /\ \/ row' = row
     \/ \E rec \in Records : /\ rec.routine = run[r].routine
                             /\ r \notin settled => rec.state \in Open
                             /\ Writes(r, rec)
  /\ phase' = [phase EXCEPT ![r] = p]
  /\ \E i \in Actions : at' = [at EXCEPT ![r] = i]
  /\ interrupted' = interrupted
  /\ settled' = settled

Moves(r) ==
  /\ phase[r] \in Awaits
  /\ \/ Leaves(r)
     \/ \E p \in {"cancel", "stop", "unwind"} : Sleeps(r, p)
     \/ ~Cut(r) /\ \E p \in {"create", "turn"} : Sleeps(r, p)
  /\ live' \subseteq Runs \X Actions
  /\ UNCHANGED <<def, due, drain>>

(* The loop, after an action whose outcome is in rec.                      *)
LEMMA ProceedMoves ==
  ASSUME IInv, NEW r \in Runs, phase[r] \in Awaits, NEW rec \in Records, NEW i \in Nat,
         rec.routine = run[r].routine, rec.state = run[r].state, Proceed(r, rec, i)
  PROVE  Leaves(r) \/ (~Cut(r) /\ Sleeps(r, "create"))
<1>1. row \in [Runs -> Records \cup {NoRun}]
  BY DEF IInv, TypeOK
<1>2. r \notin settled => rec.state \in Open
  BY DEF IInv, Table, Mirrors, InFlight
<1>3. ASSUME NEW end \in Records, end.routine = rec.routine, end.state \in Closed, Leave(r, end)
      PROVE  Leaves(r)
  <2>1. Writes(r, end)
    BY <1>1, <1>3, RecordedOne DEF Leave, Writes
  <2> QED BY <1>3, <2>1 DEF Leave, Leaves
<1>4. CASE Cut(r)
  <2> DEFINE end == [rec EXCEPT !.state = "failed", !.acts = CutShort(@)]
  <2>1. end \in Records /\ end.routine = rec.routine /\ end.state \in Closed
    BY CutShortType DEF Records, RunStates, Closed
  <2> QED
    BY <1>3, <1>4, <2>1 DEF Proceed
<1>5. CASE ~Cut(r)
  <2>1. PICK to \in Heads(rec.acts, i) :
          IF to \in Actions
          THEN /\ Sleep(r, Walked(rec, i, to), "create")
               /\ row' = Recorded([q \in {r} |-> Walked(rec, i, to)])
               /\ at' = [at EXCEPT ![r] = to]
          ELSE Leave(r, Walked(rec, i, to))
    BY <1>5 DEF Proceed
  <2>2. /\ Walked(rec, i, to) \in Records
        /\ Walked(rec, i, to).routine = rec.routine
        /\ to \in Actions => Walked(rec, i, to).state = rec.state
        /\ to \notin Actions => Walked(rec, i, to).state \in Closed
    BY WalkedType
  <2>3. CASE to \in Actions
    <3>1. Writes(r, Walked(rec, i, to))
      BY <1>1, <2>1, <2>3, RecordedOne DEF Writes
    <3> QED
      BY <1>2, <1>5, <2>1, <2>2, <2>3, <3>1 DEF Sleep, Sleeps
  <2>4. CASE to \notin Actions
    BY <1>3, <2>1, <2>2, <2>4
  <2> QED
    BY <2>3, <2>4
<1> QED
  BY <1>4, <1>5

(* Whatever an await of a run answers, the run moves.                      *)
LEMMA AnswerMoves ==
  ASSUME IInv, NEW r \in Runs, Answer(r) \/ Deadline(r)
  PROVE  Moves(r)
<1>1. phase[r] \in Awaits
  BY DEF Answer, Created, NotCreated, TurnEnds, TurnFails, Deadline, Cancelled, Stopped, Unwound, Awaits
<1>2. /\ run[r] \in Records
      /\ at[r] \in Actions
      /\ row \in [Runs -> Records \cup {NoRun}]
      /\ at \in [Runs -> 0..ActionCount]
      /\ live \subseteq Runs \X Actions
      /\ at[r] + 1 \in Nat
  BY <1>1, CountAssumption DEF IInv, TypeOK, Table, Actions
<1>3. r \notin settled => run[r].state \in Open
  BY <1>1 DEF IInv, Table, Mirrors, InFlight
<1>4. at = [at EXCEPT ![r] = at[r]]
  BY <1>2
<1>5. \A o \in RunStates : /\ With(r, o) \in Records
                           /\ With(r, o).routine = run[r].routine
                           /\ With(r, o).state = run[r].state
  BY <1>2, WithType
<1>6. ASSUME NEW o \in RunStates, NEW p, Sleep(r, With(r, o), p), UNCHANGED <<row, at>>
      PROVE  Sleeps(r, p)
  BY <1>2, <1>3, <1>4, <1>5, <1>6 DEF Sleep, Sleeps
<1>7. ASSUME NEW p, Sleep(r, run[r], p), UNCHANGED <<row, at>>
      PROVE  Sleeps(r, p)
  BY <1>2, <1>3, <1>4, <1>7 DEF Sleep, Sleeps
<1>8. ASSUME NEW rec \in Records, rec.routine = run[r].routine, rec.state = run[r].state,
             Proceed(r, rec, at[r] + 1)
      PROVE  Leaves(r) \/ (~Cut(r) /\ Sleeps(r, "create"))
  BY <1>1, <1>2, <1>8, ProceedMoves
<1>9. ASSUME Retire(r)
      PROVE  Moves(r)
  BY <1>1, <1>2, <1>8, <1>9 DEF Retire, Moves
<1>10. CASE Created(r)
  <2> DEFINE rec == [With(r, "running") EXCEPT !.state = "running"]
             cut == [rec EXCEPT !.acts[at[r]] = "failed"]
  <2>1. /\ rec \in Records /\ rec.routine = run[r].routine /\ rec.state \in Open
        /\ cut \in Records /\ cut.routine = run[r].routine /\ cut.state \in Open
    BY <1>2, <1>5 DEF Records, RunStates, Open, Closed
  <2>2. Writes(r, rec)
    BY <1>2, <1>10, RecordedOne DEF Created, Writes
  <2>3. live' \subseteq Runs \X Actions /\ UNCHANGED <<def, due, at, drain>>
    BY <1>2, <1>10 DEF Created
  <2>4. CASE Cut(r)
    <3>1. Sleep(r, cut, "stop")
      BY <1>10, <2>4 DEF Created
    <3>2. Sleeps(r, "stop")
      BY <1>2, <1>4, <2>1, <2>2, <2>3, <3>1 DEF Sleep, Sleeps
    <3> QED
      BY <1>1, <2>3, <3>2 DEF Moves
  <2>5. CASE ~Cut(r)
    <3>1. Sleep(r, rec, "turn")
      BY <1>10, <2>5 DEF Created
    <3>2. Sleeps(r, "turn")
      BY <1>2, <1>4, <2>1, <2>2, <2>3, <3>1 DEF Sleep, Sleeps
    <3> QED
      BY <1>1, <2>3, <2>5, <3>2 DEF Moves
  <2> QED
    BY <2>4, <2>5
<1>11. "failed" \in RunStates /\ "succeeded" \in RunStates /\ "timed_out" \in RunStates
  BY DEF RunStates, Closed
<1>12. CASE NotCreated(r)
  BY <1>1, <1>2, <1>5, <1>8, <1>11, <1>12 DEF NotCreated, Moves
<1>13. CASE TurnEnds(r)
  BY <1>1, <1>2, <1>6, <1>11, <1>13 DEF TurnEnds, Moves
<1>14. CASE TurnFails(r)
  BY <1>1, <1>2, <1>6, <1>11, <1>14 DEF TurnFails, Moves
<1>15. CASE Deadline(r)
  BY <1>1, <1>2, <1>7, <1>15 DEF Deadline, Moves
<1>16. CASE Cancelled(r)
  BY <1>1, <1>2, <1>6, <1>11, <1>16 DEF Cancelled, Moves
<1>17. CASE Stopped(r)
  <2>1. CASE Retire(r)
    BY <1>9, <2>1
  <2>2. CASE ~Retire(r)
    <3>1. Sleep(r, run[r], "unwind") /\ UNCHANGED <<def, due, row, at, drain>> /\ live' \subseteq live
      BY <1>17, <2>2 DEF Stopped
    <3>2. Sleeps(r, "unwind")
      BY <1>7, <3>1
    <3> QED
      BY <1>1, <1>2, <3>1, <3>2 DEF Moves
  <2> QED
    BY <2>1, <2>2
<1>18. CASE Unwound(r)
  BY <1>9, <1>18 DEF Unwound
<1> QED
  BY <1>10, <1>12, <1>13, <1>14, <1>15, <1>16, <1>17, <1>18 DEF Answer

(***************************************************************************)
(* Firing.                                                                 *)
(***************************************************************************)

(* Runs S, new until now, begin with the records recs for owner.           *)
Fires(S, owner, recs) ==
  /\ drain = "no"
  /\ \A r \in S : recs[r].state \in Open => ~Skips(owner[r])
  /\ row' = [r \in Runs |-> IF r \in S THEN recs[r] ELSE row[r]]
  /\ run' = [r \in Runs |-> IF r \in S /\ recs[r].state \in Open THEN recs[r] ELSE run[r]]
  /\ phase' = [r \in Runs |-> IF r \in S
                              THEN IF recs[r].state \in Open THEN "create" ELSE "over"
                              ELSE phase[r]]
  /\ at' \in [Runs -> 0..ActionCount]
  /\ \A r \in Runs : IF r \in S /\ recs[r].state \in Open
                     THEN at'[r] \in Actions ELSE at'[r] = at[r]
  /\ UNCHANGED <<def, live, interrupted, settled, drain>>

LEMMA FireFires ==
  ASSUME IInv, NEW S \in SUBSET Fresh, NEW owner \in [S -> Routines], NEW from, Fire(owner, from)
  PROVE  \E recs \in [S -> Records] :
           /\ \A r \in S : recs[r].routine = owner[r]
           /\ Fires(S, owner, recs)
<1>1. DOMAIN owner = S /\ S \subseteq Runs
  BY DEF Fresh
<1>2. PICK to \in [DOMAIN owner -> Heads(NewActs(from), 1)] :
        LET recs   == [r \in DOMAIN owner |-> Begun(owner[r], from, to[r])]
            asleep == {r \in DOMAIN owner : recs[r].state \in Open}
        IN  /\ row' = Recorded(recs)
            /\ run' = [r \in Runs |-> IF r \in asleep THEN recs[r] ELSE run[r]]
            /\ phase' = [r \in Runs |-> IF r \in asleep THEN "create"
                                        ELSE IF r \in DOMAIN owner THEN "over" ELSE phase[r]]
            /\ at' = [r \in Runs |-> IF r \in asleep THEN to[r] ELSE at[r]]
  BY DEF Fire
<1> DEFINE recs == [r \in DOMAIN owner |-> Begun(owner[r], from, to[r])]
<1>3. \A r \in S : /\ recs[r] \in Records
                   /\ recs[r].routine = owner[r]
                   /\ recs[r].state \in Open => ~Skips(owner[r]) /\ to[r] \in Actions
  BY <1>1, BegunType
<1>4. drain = "no" /\ settled = {} /\ UNCHANGED <<def, live, interrupted, settled, drain>>
  BY DEF Fire, IInv, Table
<1>5. recs \in [S -> Records] /\ DOMAIN recs = S
  BY <1>1, <1>3
<1> HIDE DEF recs
<1>6. row' = [r \in Runs |-> IF r \in S THEN recs[r] ELSE row[r]]
  BY <1>1, <1>2, <1>4, <1>5 DEF Recorded, recs
<1>7. /\ run' = [r \in Runs |-> IF r \in S /\ recs[r].state \in Open THEN recs[r] ELSE run[r]]
      /\ phase' = [r \in Runs |-> IF r \in S
                                  THEN IF recs[r].state \in Open THEN "create" ELSE "over"
                                  ELSE phase[r]]
      /\ at' = [r \in Runs |-> IF r \in S /\ recs[r].state \in Open THEN to[r] ELSE at[r]]
  BY <1>1, <1>2, <1>5 DEF recs
<1>8. at \in [Runs -> 0..ActionCount] /\ Actions \subseteq 0..ActionCount
  BY CountAssumption DEF IInv, TypeOK, Actions
<1>9. /\ at' \in [Runs -> 0..ActionCount]
      /\ \A r \in Runs : IF r \in S /\ recs[r].state \in Open
                         THEN at'[r] \in Actions ELSE at'[r] = at[r]
  BY <1>3, <1>7, <1>8
<1> QED
  BY <1>3, <1>4, <1>5, <1>6, <1>7, <1>9 DEF Fires

(* A routine fires at most one run in a piece, and only while it is on.    *)
FiresOne ==
  \E S \in SUBSET Fresh : \E owner \in [S -> Routines] : \E recs \in [S -> Records] :
    /\ \A r \in S : recs[r].routine = owner[r] /\ On(owner[r])
    /\ \A r, q \in S : owner[r] = owner[q] => r = q
    /\ Fires(S, owner, recs)
    /\ due' \in [Routines -> {"no", "armed", "due"}]

LEMMA OneFires ==
  ASSUME IInv, NEW t \in Routines, NEW r \in Fresh, NEW from, On(t),
         Fire([q \in {r} |-> t], from), UNCHANGED due
  PROVE  FiresOne
<1> DEFINE S     == {r}
           owner == [q \in S |-> t]
<1>1. S \in SUBSET Fresh /\ owner \in [S -> Routines]
  OBVIOUS
<1>2. PICK recs \in [S -> Records] : (\A q \in S : recs[q].routine = owner[q]) /\ Fires(S, owner, recs)
  BY <1>1, FireFires
<1>3. due' \in [Routines -> {"no", "armed", "due"}]
  BY DEF IInv, TypeOK
<1>4. \A q \in S : owner[q] = t
  OBVIOUS
<1> HIDE DEF owner
<1> QED
  BY <1>1, <1>2, <1>3, <1>4 DEF FiresOne

LEMMA FiringFires ==
  ASSUME IInv,
         \/ Tick
         \/ \E t \in Routines, r \in Runs :
              FireWebhook(t, r) \/ \E from \in Actions : RunNow(t, r, from)
  PROVE  FiresOne
<1>1. CASE Tick
  <2> DEFINE Due == {t \in Routines : On(t) /\ due[t] = "due" /\ def[t].trigger # "broken"}
  <2>0. PICK S \in SUBSET Fresh : \E owner \in [S -> Due] :
          /\ \A r, q \in S : owner[r] = owner[q] => r = q
          /\ Fire(owner, 1)
    BY <1>1 DEF Tick
  <2>1. PICK owner \in [S -> Due] :
          /\ \A r, q \in S : owner[r] = owner[q] => r = q
          /\ Fire(owner, 1)
    BY <2>0
  <2>2. owner \in [S -> Routines] /\ \A r \in S : On(owner[r])
    OBVIOUS
  <2>3. PICK recs \in [S -> Records] : (\A r \in S : recs[r].routine = owner[r]) /\ Fires(S, owner, recs)
    BY <2>1, <2>2, FireFires
  <2>4. due' \in [Routines -> {"no", "armed", "due"}]
    BY <1>1 DEF Tick, IInv, TypeOK
  <2> QED
    BY <2>1, <2>2, <2>3, <2>4 DEF FiresOne
<1>2. ASSUME NEW t \in Routines, NEW r \in Runs, FireWebhook(t, r)
      PROVE  FiresOne
  BY <1>2, OneFires DEF FireWebhook
<1>3. ASSUME NEW t \in Routines, NEW r \in Runs, NEW from \in Actions, RunNow(t, r, from)
      PROVE  FiresOne
  BY <1>3, OneFires DEF RunNow
<1> QED
  BY <1>1, <1>2, <1>3

(***************************************************************************)
(* The shape of a step.                                                    *)
(***************************************************************************)

(* Every step moves a run, fires, writes definitions, or is the daemon's.  *)
LEMMA Steps ==
  ASSUME IInv, [Next]_vars
  PROVE  \/ \E r \in Runs : Moves(r)
         \/ FiresOne
         \/ \E t \in Routines : Clock(t) \/ WriteRoutine(t) \/ Delete(t)
         \/ DrainBegins \/ DrainWaits \/ DrainSettles
         \/ NextDaemon
         \/ UNCHANGED vars
<1>1. ASSUME NEW r \in Runs, Answer(r) \/ Deadline(r)
      PROVE  Moves(r)
  BY <1>1, AnswerMoves
<1> QED
  BY <1>1, FiringFires DEF Next

(***************************************************************************)
(* The invariant is inductive.                                             *)
(***************************************************************************)

LEMMA InitInv == Init => IInv
<1> SUFFICES ASSUME Init PROVE IInv
  OBVIOUS
<1>1. TypeOK
  BY CountAssumption DEF Init, TypeOK
<1>2. InFlight = {}
  BY DEF Init, InFlight, Awaits
<1>3. Table
  BY <1>2, NoRunApart DEF Init, Table, Awaits, RunStates
<1> QED
  BY <1>1, <1>3 DEF IInv

LEMMA MovesInv ==
  ASSUME IInv, NEW r \in Runs, Moves(r)
  PROVE  IInv'
<1>1. /\ phase[r] \in Awaits
      /\ live' \subseteq Runs \X Actions
      /\ UNCHANGED <<def, due, drain>>
      /\ r \in InFlight
  BY DEF Moves, InFlight
<1>2. Actions \subseteq 0..ActionCount /\ 0 \in 0..ActionCount
  BY CountAssumption DEF Actions
<1>3. CASE Leaves(r)
  <2>1. PICK rec \in Records : /\ rec.routine = run[r].routine
                               /\ rec.state \in Closed
                               /\ Writes(r, rec)
    BY <1>3 DEF Leaves
  <2>2. /\ run' = [run EXCEPT ![r] = NoRun]
        /\ phase' = [phase EXCEPT ![r] = "over"]
        /\ at' = [at EXCEPT ![r] = 0]
        /\ interrupted' = interrupted \ {r}
        /\ settled' = settled \ {r}
    BY <1>3 DEF Leaves
  <2>3. row' \in [Runs -> Records \cup {NoRun}]
    BY <2>1 DEF Writes, IInv, TypeOK
  <2>4. TypeOK'
    BY <1>1, <1>2, <2>2, <2>3 DEF IInv, TypeOK
  <2>5. InFlight' = InFlight \ {r}
    BY <2>2 DEF InFlight, IInv, TypeOK, Awaits
  <2>6. row'[r].state \notin Open
    BY <1>1, <2>1 DEF Writes, IInv, TypeOK, Table, Open, Closed
  <2>7. \A q \in Runs \ {r} : /\ row'[q] = row[q] /\ run'[q] = run[q]
                              /\ phase'[q] = phase[q] /\ at'[q] = at[q]
    BY <2>1, <2>2 DEF Writes, IInv, TypeOK
  <2>8. phase'[r] = "over"
    BY <2>2 DEF IInv, TypeOK
  <2>9. Table'
    <3>1. \A q \in Runs : phase'[q] \in Awaits => run'[q] \in Records /\ at'[q] \in Actions
      BY <2>7, <2>8 DEF IInv, Table, Awaits
    <3>2. \A q \in Runs : phase'[q] = "none" => row'[q] = NoRun
      BY <2>7, <2>8 DEF IInv, Table
    <3>3. /\ settled' \subseteq InFlight'
          /\ drain' # "done" => settled' = {}
          /\ drain' = "done" => InFlight' \subseteq settled'
      BY <1>1, <2>2, <2>5 DEF IInv, Table
    <3>4. \A q \in InFlight' \ settled' : Mirrors(q)'
      BY <2>2, <2>5, <2>7 DEF IInv, Table, Mirrors, InFlight
    <3>5. \A q \in Runs : row'[q].state \in Open => q \in InFlight' \ settled'
      BY <2>2, <2>5, <2>6, <2>7 DEF IInv, Table
    <3> QED
      BY <3>1, <3>2, <3>3, <3>4, <3>5 DEF Table
  <2> QED
    BY <2>4, <2>9 DEF IInv
<1>4. ASSUME NEW p \in Awaits, Sleeps(r, p)
      PROVE  IInv'
  <2>1. PICK rec \in Records : /\ rec.routine = run[r].routine
                               /\ r \notin settled => rec.state \in Open
                               /\ run' = [run EXCEPT ![r] = rec]
    BY <1>4 DEF Sleeps
  <2>2. PICK i \in Actions : at' = [at EXCEPT ![r] = i]
    BY <1>4 DEF Sleeps
  <2>3. /\ phase' = [phase EXCEPT ![r] = p]
        /\ interrupted' = interrupted
        /\ settled' = settled
        /\ \/ row' = row
           \/ \E new \in Records : /\ new.routine = run[r].routine
                                   /\ r \notin settled => new.state \in Open
                                   /\ Writes(r, new)
    BY <1>4 DEF Sleeps
  <2>4. row' \in [Runs -> Records \cup {NoRun}]
    BY <2>3 DEF Writes, IInv, TypeOK
  <2>5. TypeOK'
    BY <1>1, <1>2, <2>1, <2>2, <2>3, <2>4 DEF IInv, TypeOK
  <2>6. InFlight' = InFlight
    BY <1>1, <2>3 DEF InFlight, IInv, TypeOK
  <2>7. \A q \in Runs \ {r} : /\ row'[q] = row[q] /\ run'[q] = run[q]
                              /\ phase'[q] = phase[q] /\ at'[q] = at[q]
    BY <2>1, <2>2, <2>3 DEF Writes, IInv, TypeOK
  <2>8. phase'[r] = p /\ run'[r] = rec /\ at'[r] = i
    BY <2>1, <2>2, <2>3 DEF IInv, TypeOK
  <2>9. r \in settled => row' = row
    BY <2>3 DEF Writes
  <2>10. r \notin settled => Mirrors(r)'
    <3> SUFFICES ASSUME r \notin settled PROVE Mirrors(r)'
      OBVIOUS
    <3>1. Mirrors(r)
      BY <1>1 DEF IInv, Table
    <3>2. CASE row' = row
      BY <2>1, <2>8, <3>1, <3>2 DEF Mirrors
    <3>3. CASE row' # row
      <4>1. PICK new \in Records : /\ new.routine = run[r].routine
                                   /\ new.state \in Open
                                   /\ Writes(r, new)
        BY <2>3, <3>3
      <4>2. row'[r] = new
        BY <4>1 DEF Writes, IInv, TypeOK
      <4> QED
        BY <2>1, <2>8, <4>1, <4>2 DEF Mirrors
    <3> QED
      BY <3>2, <3>3
  <2>11. Table'
    <3>1. \A q \in Runs : phase'[q] \in Awaits => run'[q] \in Records /\ at'[q] \in Actions
      BY <2>7, <2>8 DEF IInv, Table
    <3>2. \A q \in Runs : phase'[q] = "none" => row'[q] = NoRun
      BY <1>4, <2>7, <2>8 DEF IInv, Table, Awaits
    <3>3. /\ settled' \subseteq InFlight'
          /\ drain' # "done" => settled' = {}
          /\ drain' = "done" => InFlight' \subseteq settled'
      BY <1>1, <2>3, <2>6 DEF IInv, Table
    <3>4. \A q \in InFlight' \ settled' : Mirrors(q)'
      BY <2>3, <2>6, <2>7, <2>10 DEF IInv, Table, Mirrors, InFlight
    <3>5. \A q \in Runs : row'[q].state \in Open => q \in InFlight' \ settled'
      BY <1>1, <2>3, <2>6, <2>7, <2>9 DEF IInv, Table
    <3> QED
      BY <3>1, <3>2, <3>3, <3>4, <3>5 DEF Table
  <2> QED
    BY <2>5, <2>11 DEF IInv
<1> QED
  BY <1>3, <1>4 DEF Moves, Awaits

LEMMA FiresInv ==
  ASSUME IInv, FiresOne
  PROVE  IInv'
<1>1. PICK S \in SUBSET Fresh : \E owner \in [S -> Routines] : \E recs \in [S -> Records] :
        /\ \A r \in S : recs[r].routine = owner[r]
        /\ Fires(S, owner, recs)
        /\ due' \in [Routines -> {"no", "armed", "due"}]
  BY DEF FiresOne
<1>2. PICK owner \in [S -> Routines], recs \in [S -> Records] :
        /\ \A r \in S : recs[r].routine = owner[r]
        /\ Fires(S, owner, recs)
        /\ due' \in [Routines -> {"no", "armed", "due"}]
  BY <1>1
<1>3. S \subseteq Runs /\ \A r \in S : phase[r] = "none" /\ row[r] = NoRun
  BY DEF Fresh, IInv, Table
<1>4. /\ row' = [r \in Runs |-> IF r \in S THEN recs[r] ELSE row[r]]
      /\ run' = [r \in Runs |-> IF r \in S /\ recs[r].state \in Open THEN recs[r] ELSE run[r]]
      /\ phase' = [r \in Runs |-> IF r \in S
                                  THEN IF recs[r].state \in Open THEN "create" ELSE "over"
                                  ELSE phase[r]]
      /\ at' \in [Runs -> 0..ActionCount]
      /\ \A r \in Runs : IF r \in S /\ recs[r].state \in Open
                         THEN at'[r] \in Actions ELSE at'[r] = at[r]
      /\ UNCHANGED <<def, live, interrupted, settled, drain>>
      /\ drain = "no"
  BY <1>2 DEF Fires
<1>5. settled = {}
  BY <1>4 DEF IInv, Table
<1>6. TypeOK'
  <2>1. row' \in [Runs -> Records \cup {NoRun}] /\ run' \in [Runs -> Records \cup {NoRun}]
    BY <1>4 DEF IInv, TypeOK
  <2>2. phase' \in [Runs -> Awaits \cup {"none", "over"}]
    BY <1>4 DEF IInv, TypeOK, Awaits
  <2> QED
    BY <1>2, <1>4, <2>1, <2>2 DEF IInv, TypeOK
<1>7. \A r \in S : IF recs[r].state \in Open
                   THEN phase'[r] = "create" /\ run'[r] = recs[r] /\ row'[r] = recs[r]
                   ELSE phase'[r] = "over" /\ row'[r] = recs[r]
  BY <1>3, <1>4
<1>8. \A r \in Runs \ S : row'[r] = row[r] /\ run'[r] = run[r] /\ phase'[r] = phase[r] /\ at'[r] = at[r]
  BY <1>4
<1>9. InFlight' = InFlight \cup {r \in S : recs[r].state \in Open}
  BY <1>3, <1>7, <1>8 DEF InFlight, Awaits
<1>10. Table'
  <2>1. \A r \in Runs : phase'[r] \in Awaits => run'[r] \in Records /\ at'[r] \in Actions
    BY <1>4, <1>7, <1>8 DEF IInv, Table, Awaits
  <2>2. \A r \in Runs : phase'[r] = "none" => row'[r] = NoRun
    BY <1>7, <1>8 DEF IInv, Table
  <2>3. /\ settled' \subseteq InFlight'
        /\ drain' # "done" => settled' = {}
        /\ drain' = "done" => InFlight' \subseteq settled'
    BY <1>4, <1>5
  <2>4. \A r \in InFlight' \ settled' : Mirrors(r)'
    <3>1. ASSUME NEW r \in S, recs[r].state \in Open
          PROVE  Mirrors(r)'
      BY <1>7, <3>1 DEF Mirrors
    <3>2. ASSUME NEW r \in InFlight
          PROVE  Mirrors(r)'
      <4>1. r \in Runs \ S /\ Mirrors(r)
        BY <1>3, <1>5, <3>2 DEF IInv, Table, InFlight, Awaits
      <4> QED
        BY <1>8, <4>1 DEF Mirrors
    <3> QED
      BY <1>9, <3>1, <3>2
  <2>5. \A r \in Runs : row'[r].state \in Open => r \in InFlight' \ settled'
    BY <1>4, <1>5, <1>7, <1>8, <1>9 DEF IInv, Table
  <2> QED
    BY <2>1, <2>2, <2>3, <2>4, <2>5 DEF Table
<1> QED
  BY <1>6, <1>10 DEF IInv

LEMMA DefinitionsInv ==
  ASSUME IInv, NEW t \in Routines, Clock(t) \/ WriteRoutine(t) \/ Delete(t)
  PROVE  IInv'
<1>1. /\ run' = run /\ phase' = phase /\ at' = at /\ live' = live
      /\ interrupted' = interrupted /\ settled' = settled /\ drain' = drain
  BY DEF Clock, WriteRoutine, Delete
<1>2. InFlight' = InFlight
  BY <1>1 DEF InFlight
<1>3. CASE Clock(t) \/ WriteRoutine(t)
  <2>1. row' = row
    BY <1>3 DEF Clock, WriteRoutine
  <2>2. TypeOK'
    BY <1>1, <1>3, <2>1 DEF Clock, WriteRoutine, IInv, TypeOK
  <2>3. Table'
    BY <1>1, <1>2, <2>1 DEF IInv, Table, Mirrors
  <2> QED
    BY <2>2, <2>3 DEF IInv
<1>4. CASE Delete(t)
  <2>1. /\ def' = [def EXCEPT ![t] = NoRoutine]
        /\ due' = [due EXCEPT ![t] = "no"]
        /\ row' = [r \in Runs |-> IF row[r] # NoRun /\ row[r].routine = t THEN NoRun ELSE row[r]]
        /\ ~HasActiveRun(t)
    BY <1>4 DEF Delete, Deletable
  <2>2. \A r \in Runs : row'[r] \in {row[r], NoRun}
    BY <2>1
  <2>3. \A r \in Runs : row[r].state \in Open => row'[r] = row[r]
    BY <2>1 DEF HasActiveRun
  <2>4. TypeOK'
    BY <1>1, <2>1 DEF IInv, TypeOK
  <2>5. NoRun.state \notin Open
    BY NoRunApart DEF RunStates
  <2>6. \A r \in InFlight \ settled : Mirrors(r)'
    BY <1>1, <2>3 DEF IInv, Table, Mirrors, InFlight
  <2>7. Table'
    BY <1>1, <1>2, <2>2, <2>5, <2>6 DEF IInv, Table
  <2> QED
    BY <2>4, <2>7 DEF IInv
<1> QED
  BY <1>3, <1>4

LEMMA DrainInv ==
  ASSUME IInv, DrainBegins \/ DrainWaits \/ DrainSettles
  PROVE  IInv'
<1>1. CASE DrainBegins \/ DrainWaits
  <2>1. UNCHANGED <<def, due, run, row, phase, at, live, settled>>
    BY <1>1 DEF DrainBegins, DrainWaits
  <2>2. InFlight' = InFlight
    BY <2>1 DEF InFlight
  <2>3. TypeOK'
    BY <1>1, <2>1 DEF DrainBegins, DrainWaits, IInv, TypeOK, InFlight
  <2>4. drain # "done" /\ (drain' = "done" => InFlight = {})
    BY <1>1 DEF DrainBegins, DrainWaits
  <2>5. Table'
    BY <2>1, <2>2, <2>4 DEF IInv, Table, Mirrors
  <2> QED
    BY <2>3, <2>5 DEF IInv
<1>2. CASE DrainSettles
  <2>1. /\ drain = "wait" /\ drain' = "done"
        /\ run' = [r \in Runs |-> IF r \in InFlight THEN Forced(run[r]) ELSE run[r]]
        /\ row' = [r \in Runs |-> IF r \in InFlight THEN Forced(run[r]) ELSE row[r]]
        /\ settled' = settled \cup InFlight
        /\ UNCHANGED <<def, due, phase, at, live, interrupted>>
    BY <1>2 DEF DrainSettles
  <2>2. settled = {} /\ InFlight' = InFlight /\ InFlight \subseteq Runs
    BY <2>1 DEF IInv, Table, InFlight
  <2>3. \A r \in InFlight : Forced(run[r]) \in Records /\ Forced(run[r]).state \in Closed
    BY ForcedType DEF IInv, Table, InFlight
  <2>4. TypeOK'
    <3>1. run' \in [Runs -> Records \cup {NoRun}] /\ row' \in [Runs -> Records \cup {NoRun}]
      BY <2>1, <2>3 DEF IInv, TypeOK
    <3> QED
      BY <2>1, <2>2, <3>1 DEF IInv, TypeOK
  <2>5. \A r \in Runs : row'[r].state \notin Open
    BY <2>1, <2>2, <2>3 DEF IInv, Table, Open, Closed
  <2>6. \A r \in Runs : phase[r] = "none" => row'[r] = NoRun
    BY <2>1 DEF IInv, Table, InFlight, Awaits
  <2>7. \A r \in Runs : phase[r] \in Awaits => run'[r] \in Records /\ at[r] \in Actions
    BY <2>1, <2>3 DEF IInv, Table, InFlight
  <2>8. Table'
    BY <2>1, <2>2, <2>5, <2>6, <2>7 DEF Table
  <2> QED
    BY <2>4, <2>8 DEF IInv
<1> QED
  BY <1>1, <1>2

LEMMA NextDaemonInv ==
  ASSUME IInv, NextDaemon
  PROVE  IInv'
<1>1. /\ due' = [t \in Routines |-> "no"]
      /\ run' = [r \in Runs |-> NoRun]
      /\ row' = [r \in Runs |-> Reconciled(row[r])]
      /\ phase' = [r \in Runs |-> IF phase[r] = "none" THEN "none" ELSE "over"]
      /\ at' = [r \in Runs |-> 0]
      /\ live' = {} /\ interrupted' = {} /\ settled' = {} /\ drain' = "no" /\ def' = def
  BY DEF NextDaemon
<1>2. \A r \in Runs : /\ row'[r] \in Records \cup {NoRun}
                      /\ row'[r].state \notin Open
                      /\ row[r] = NoRun => row'[r] = NoRun
  BY <1>1, ReconciledType DEF IInv, TypeOK
<1>3. TypeOK'
  BY <1>1, <1>2, CountAssumption DEF IInv, TypeOK
<1>4. InFlight' = {}
  BY <1>1 DEF InFlight, Awaits
<1>5. \A r \in Runs : phase'[r] \notin Awaits /\ (phase'[r] = "none" => phase[r] = "none")
  BY <1>1 DEF Awaits
<1>6. Table'
  BY <1>1, <1>2, <1>4, <1>5 DEF IInv, Table
<1> QED
  BY <1>3, <1>6 DEF IInv

LEMMA StepInv == IInv /\ [Next]_vars => IInv'
<1> SUFFICES ASSUME IInv, [Next]_vars PROVE IInv'
  OBVIOUS
<1>1. CASE \E r \in Runs : Moves(r)
  BY <1>1, MovesInv
<1>2. CASE FiresOne
  BY <1>2, FiresInv
<1>3. CASE \E t \in Routines : Clock(t) \/ WriteRoutine(t) \/ Delete(t)
  BY <1>3, DefinitionsInv
<1>4. CASE DrainBegins \/ DrainWaits \/ DrainSettles
  BY <1>4, DrainInv
<1>5. CASE NextDaemon
  BY <1>5, NextDaemonInv
<1>6. CASE UNCHANGED vars
  BY <1>6 DEF vars, IInv, TypeOK, Table, Mirrors, InFlight
<1> QED
  BY <1>1, <1>2, <1>3, <1>4, <1>5, <1>6, Steps

LEMMA Inductive == Spec => []IInv
BY InitInv, StepInv, PTL DEF Spec

(***************************************************************************)
(* Theorems.                                                               *)
(***************************************************************************)

(* The scheduler's variables keep their types.                             *)
THEOREM TypeCorrect == Spec => []TypeOK
<1>1. IInv => TypeOK
  BY DEF IInv
<1> QED
  BY <1>1, Inductive, PTL

(* "A run never leaks a record": after drain, and in the next daemon, no   *)
(* row claims that a run is still going.                                   *)
THEOREM NoRecordLeaks == Spec => []RowsAreInFlight
<1>1. IInv => RowsAreInFlight
  BY DEF IInv, Table, RowsAreInFlight
<1> QED
  BY <1>1, Inductive, PTL

(* No run of a singleton routine begins beside another of its runs.        *)
THEOREM SingletonsAlone == Spec => SingletonRunsAlone
<1> DEFINE Alone ==
      \A r \in InFlight' \ InFlight : \A q \in InFlight' \ {r} :
        run'[r].routine = run'[q].routine => ~def[run'[r].routine].singleton
<1>1. IInv /\ [Next]_vars => [Alone]_vars
  <2> SUFFICES ASSUME IInv, [Next]_vars,
                      NEW r \in InFlight' \ InFlight, NEW q \in InFlight' \ {r},
                      run'[r].routine = run'[q].routine
               PROVE  ~def[run'[r].routine].singleton
    OBVIOUS
  <2>1. r \in Runs /\ q \in Runs /\ phase'[r] \in Awaits /\ phase[r] \notin Awaits /\ phase'[q] \in Awaits
    BY DEF InFlight
  <2>2. CASE \E x \in Runs : Moves(x)
    BY <2>1, <2>2 DEF Moves, Leaves, Sleeps, IInv, TypeOK, Awaits
  <2>3. CASE FiresOne
    <3>1. PICK S \in SUBSET Fresh : \E owner \in [S -> Routines] : \E recs \in [S -> Records] :
            /\ \A x \in S : recs[x].routine = owner[x] /\ On(owner[x])
            /\ \A x, y \in S : owner[x] = owner[y] => x = y
            /\ Fires(S, owner, recs)
      BY <2>3 DEF FiresOne
    <3>2. PICK owner \in [S -> Routines], recs \in [S -> Records] :
            /\ \A x \in S : recs[x].routine = owner[x]
            /\ \A x, y \in S : owner[x] = owner[y] => x = y
            /\ Fires(S, owner, recs)
      BY <3>1
    <3>3. /\ phase' = [x \in Runs |-> IF x \in S
                                      THEN IF recs[x].state \in Open THEN "create" ELSE "over"
                                      ELSE phase[x]]
          /\ run' = [x \in Runs |-> IF x \in S /\ recs[x].state \in Open THEN recs[x] ELSE run[x]]
          /\ \A x \in S : recs[x].state \in Open => ~Skips(owner[x])
          /\ settled = {}
      BY <3>2 DEF Fires, IInv, Table
    <3>4. r \in S /\ recs[r].state \in Open /\ run'[r].routine = owner[r]
      BY <2>1, <3>2, <3>3 DEF Awaits
    <3>5. q \notin S
      BY <2>1, <3>2, <3>3, <3>4 DEF Awaits
    <3>6. Mirrors(q) /\ run[q].routine = owner[r]
      BY <2>1, <3>3, <3>4, <3>5 DEF IInv, Table, InFlight
    <3>7. HasActiveRun(owner[r])
      BY <2>1, <3>6 DEF Mirrors, HasActiveRun
    <3> QED
      BY <3>3, <3>4, <3>7 DEF Skips
  <2>4. CASE \E t \in Routines : Clock(t) \/ WriteRoutine(t) \/ Delete(t)
    BY <2>1, <2>4 DEF Clock, WriteRoutine, Delete
  <2>5. CASE DrainBegins \/ DrainWaits \/ DrainSettles
    BY <2>1, <2>5 DEF DrainBegins, DrainWaits, DrainSettles
  <2>6. CASE NextDaemon
    BY <2>1, <2>6 DEF NextDaemon, Awaits
  <2>7. CASE UNCHANGED vars
    BY <2>1, <2>7 DEF vars
  <2> QED
    BY <2>2, <2>3, <2>4, <2>5, <2>6, <2>7, Steps
<1> QED
  BY <1>1, Inductive, PTL DEF Spec, SingletonRunsAlone

(* A final record is final: only deleting its routine removes it.          *)
THEOREM FinalRecords == Spec => RecordsAreFinal
<1> DEFINE Final == \A r \in Runs : row[r].state \in Closed => row'[r] \in {row[r], NoRun}
<1>1. IInv /\ [Next]_vars => [Final]_vars
  <2> SUFFICES ASSUME IInv, [Next]_vars, NEW r \in Runs, row[r].state \in Closed
               PROVE  row'[r] \in {row[r], NoRun}
    OBVIOUS
  <2>1. r \notin InFlight \ settled
    BY DEF IInv, Table, Mirrors, Open, Closed
  <2>2. row[r] # NoRun
    BY NoRunApart DEF RunStates
  <2>3. CASE \E x \in Runs : Moves(x)
    BY <2>1, <2>3 DEF Moves, Leaves, Sleeps, Writes, InFlight, IInv, TypeOK
  <2>4. CASE FiresOne
    <3>1. r \notin Fresh
      BY <2>2 DEF Fresh, IInv, Table
    <3>2. row'[r] = row[r]
      BY <2>4, <3>1 DEF FiresOne, Fires
    <3> QED
      BY <3>2
  <2>5. CASE \E t \in Routines : Clock(t) \/ WriteRoutine(t) \/ Delete(t)
    BY <2>5 DEF Clock, WriteRoutine, Delete
  <2>6. CASE DrainBegins \/ DrainWaits \/ DrainSettles
    <3>1. DrainSettles => r \notin InFlight
      BY <2>1 DEF DrainSettles, IInv, Table
    <3> QED
      BY <2>6, <3>1 DEF DrainBegins, DrainWaits, DrainSettles
  <2>7. CASE NextDaemon
    BY <2>7 DEF NextDaemon, Reconciled, Open, Closed
  <2>8. CASE UNCHANGED vars
    BY <2>8 DEF vars
  <2> QED
    BY <2>3, <2>4, <2>5, <2>6, <2>7, <2>8, Steps
<1> QED
  BY <1>1, Inductive, PTL DEF Spec, RecordsAreFinal

(* Once drain has begun no agent is asked for and none is prompted.        *)
THEOREM DrainsStop == Spec => DrainStopsWork
<1> DEFINE Stops == \A r \in Runs : drain # "no" /\ <<phase'[r], at'[r]>> # <<phase[r], at[r]>>
                                      => phase'[r] \notin {"create", "turn"}
<1>1. IInv /\ [Next]_vars => [Stops]_vars
  <2> SUFFICES ASSUME IInv, [Next]_vars, NEW r \in Runs, drain # "no",
                      <<phase'[r], at'[r]>> # <<phase[r], at[r]>>
               PROVE  phase'[r] \notin {"create", "turn"}
    OBVIOUS
  <2>1. phase'[r] # phase[r] \/ at'[r] # at[r]
    OBVIOUS
  <2>2. CASE \E x \in Runs : Moves(x)
    <3>1. PICK x \in Runs : Moves(x)
      BY <2>2
    <3>2. /\ Cut(x)
          /\ phase \in [Runs -> Awaits \cup {"none", "over"}]
          /\ at \in [Runs -> 0..ActionCount]
      BY DEF Cut, IInv, TypeOK
    <3>3. /\ \A y \in Runs \ {x} : phase'[y] = phase[y] /\ at'[y] = at[y]
          /\ phase'[x] \in {"over", "cancel", "stop", "unwind"}
      BY <3>1, <3>2 DEF Moves, Leaves, Sleeps
    <3> QED
      BY <2>1, <3>3
  <2>3. CASE FiresOne
    BY <2>3 DEF FiresOne, Fires
  <2>4. CASE \E t \in Routines : Clock(t) \/ WriteRoutine(t) \/ Delete(t)
    BY <2>1, <2>4 DEF Clock, WriteRoutine, Delete
  <2>5. CASE DrainBegins \/ DrainWaits \/ DrainSettles
    BY <2>1, <2>5 DEF DrainBegins, DrainWaits, DrainSettles
  <2>6. CASE NextDaemon
    BY <2>6 DEF NextDaemon
  <2>7. CASE UNCHANGED vars
    BY <2>1, <2>7 DEF vars
  <2> QED
    BY <2>2, <2>3, <2>4, <2>5, <2>6, <2>7, Steps
<1> QED
  BY <1>1, Inductive, PTL DEF Spec, DrainStopsWork

(* A deleted routine has no row, no run that will write one, and keeps     *)
(* none however late its runs answer.                                      *)
THEOREM NoOrphans == Spec => []NoOrphanRow
<1>1. Init => NoOrphanRow
  BY DEF Init, NoOrphanRow, InFlight, Awaits
<1>2. IInv /\ NoOrphanRow /\ [Next]_vars => NoOrphanRow'
  <2> SUFFICES ASSUME IInv, NoOrphanRow, [Next]_vars,
                      NEW t \in Routines, def'[t] = NoRoutine, NEW r \in Runs
               PROVE  /\ row'[r] # NoRun => row'[r].routine # t
                      /\ r \in InFlight' \ settled' => run'[r].routine # t
    BY DEF NoOrphanRow
  <2>1. ASSUME def[t] = NoRoutine
        PROVE  /\ row[r] # NoRun => row[r].routine # t
               /\ r \in InFlight \ settled => run[r].routine # t
    BY <2>1 DEF NoOrphanRow
  <2>2. CASE \E x \in Runs : Moves(x)
    <3>1. PICK x \in Runs : Moves(x)
      BY <2>2
    <3>2. def[t] = NoRoutine /\ x \in InFlight
      BY <3>1 DEF Moves, InFlight
    <3>3. CASE r # x
      BY <2>1, <3>1, <3>2, <3>3 DEF Moves, Leaves, Sleeps, Writes, InFlight, IInv, TypeOK
    <3>4. CASE r = x
      <4>1. row'[r] # row[r] => r \notin settled /\ row'[r].routine = run[r].routine
        BY <3>1, <3>4 DEF Moves, Leaves, Sleeps, Writes, IInv, TypeOK
      <4>2. r \in InFlight' => settled' = settled /\ run'[r].routine = run[r].routine
        BY <3>1, <3>4 DEF Moves, Leaves, Sleeps, InFlight, IInv, TypeOK, Awaits
      <4> QED
        BY <2>1, <3>2, <3>4, <4>1, <4>2
    <3> QED
      BY <3>3, <3>4
  <2>3. CASE FiresOne
    <3>1. PICK S \in SUBSET Fresh : \E owner \in [S -> Routines] : \E recs \in [S -> Records] :
            /\ \A x \in S : recs[x].routine = owner[x] /\ On(owner[x])
            /\ Fires(S, owner, recs)
      BY <2>3 DEF FiresOne
    <3>2. PICK owner \in [S -> Routines], recs \in [S -> Records] :
            /\ \A x \in S : recs[x].routine = owner[x] /\ On(owner[x])
            /\ Fires(S, owner, recs)
      BY <3>1
    <3>3. def' = def /\ settled' = settled
      BY <3>2 DEF Fires
    <3>4. CASE r \in S
      <4>1. recs[r].routine # t
        BY <3>2, <3>3, <3>4 DEF On
      <4> QED
        BY <3>2, <3>4, <4>1 DEF Fires, InFlight, Awaits
    <3>5. CASE r \notin S
      BY <2>1, <3>2, <3>3, <3>5 DEF Fires, InFlight
    <3> QED
      BY <3>4, <3>5
  <2>4. CASE \E u \in Routines : Clock(u) \/ WriteRoutine(u)
    <3>1. UNCHANGED <<run, row, phase, settled>>
      BY <2>4 DEF Clock, WriteRoutine
    <3>2. def[t] = NoRoutine
      BY <2>4, DefinitionsAssumption DEF Clock, WriteRoutine, IInv, TypeOK, NoRoutine
    <3> QED
      BY <2>1, <3>1, <3>2 DEF InFlight
  <2>5. ASSUME NEW u \in Routines, Delete(u)
        PROVE  /\ row'[r] # NoRun => row'[r].routine # t
               /\ r \in InFlight' \ settled' => run'[r].routine # t
    <3>1. /\ UNCHANGED <<run, phase, settled>>
          /\ row' = [q \in Runs |-> IF row[q] # NoRun /\ row[q].routine = u THEN NoRun ELSE row[q]]
          /\ def' = [def EXCEPT ![u] = NoRoutine]
          /\ ~HasActiveRun(u)
      BY <2>5 DEF Delete, Deletable
    <3>2. CASE t = u
      BY <3>1, <3>2 DEF HasActiveRun, InFlight, IInv, Table, Mirrors
    <3>3. CASE t # u
      BY <2>1, <3>1, <3>3 DEF InFlight, IInv, TypeOK
    <3> QED
      BY <3>2, <3>3
  <2>6. CASE DrainBegins \/ DrainWaits
    BY <2>1, <2>6 DEF DrainBegins, DrainWaits, InFlight
  <2>7. CASE DrainSettles
    <3>1. /\ row' = [q \in Runs |-> IF q \in InFlight THEN Forced(run[q]) ELSE row[q]]
          /\ settled' = settled \cup InFlight /\ UNCHANGED <<def, phase>> /\ settled = {}
      BY <2>7 DEF DrainSettles, IInv, Table
    <3>2. r \in InFlight => Forced(run[r]).routine = run[r].routine
      BY ForcedType DEF IInv, Table, InFlight
    <3> QED
      BY <2>1, <3>1, <3>2 DEF InFlight
  <2>8. CASE NextDaemon
    <3>1. def' = def /\ row'[r] = Reconciled(row[r]) /\ r \notin InFlight'
      BY <2>8 DEF NextDaemon, InFlight, Awaits
    <3> QED
      BY <2>1, <3>1, ReconciledType DEF IInv, TypeOK
  <2>9. CASE UNCHANGED vars
    BY <2>1, <2>9 DEF vars, InFlight
  <2> QED
    BY <2>2, <2>3, <2>4, <2>5, <2>6, <2>7, <2>8, <2>9, Steps
<1> QED
  BY <1>1, <1>2, Inductive, PTL DEF Spec

(* "A run never leaks an agent": a live agent is one its run is awaiting.  *)
THEOREM NoAgentLeaks == Spec => []AgentsAreRetired
<1>1. Init => AgentsAreRetired
  BY DEF Init, AgentsAreRetired
<1>2. IInv /\ AgentsAreRetired /\ [Next]_vars => AgentsAreRetired'
  <2> SUFFICES ASSUME IInv, AgentsAreRetired, [Next]_vars, NEW p \in live'
               PROVE  phase'[p[1]] \in Prompted /\ at'[p[1]] = p[2]
    BY DEF AgentsAreRetired
  <2>1. /\ p \in live => /\ p \in Runs \X Actions
                         /\ phase[p[1]] \in Prompted /\ at[p[1]] = p[2]
        /\ phase \in [Runs -> Awaits \cup {"none", "over"}]
        /\ at \in [Runs -> 0..ActionCount]
    BY DEF AgentsAreRetired, IInv, TypeOK
  <2>2. ASSUME p \in live, UNCHANGED <<phase, at>>
        PROVE  phase'[p[1]] \in Prompted /\ at'[p[1]] = p[2]
    BY <2>1, <2>2
  <2>3. ASSUME NEW r \in Runs, Answer(r) \/ Deadline(r)
        PROVE  phase'[p[1]] \in Prompted /\ at'[p[1]] = p[2]
    <3>1. \A q \in Runs \ {r} : phase'[q] = phase[q] /\ at'[q] = at[q]
      BY <2>1, <2>3, AnswerMoves DEF Moves, Leaves, Sleeps
    <3>2. p \in live \/ p = <<r, at[r]>>
      BY <2>3 DEF Answer, Created, NotCreated, TurnEnds, TurnFails, Deadline, Cancelled, Stopped,
                  Unwound, Retire
    <3>3. CASE p[1] # r
      BY <2>1, <3>1, <3>2, <3>3
    <3>4. CASE p[1] = r
      <4>1. p[2] = at[r] /\ p = <<r, at[r]>>
        BY <2>1, <3>2, <3>4
      <4>2. ~Retire(r)
        BY <4>1 DEF Retire
      <4>3. ~NotCreated(r)
        BY <2>1, <3>4, <4>1 DEF NotCreated, Prompted
      <4>4. phase'[r] \in Prompted /\ at' = at
        <5>1. CASE Created(r)
          BY <2>1, <5>1 DEF Created, Sleep, Prompted, Awaits
        <5>2. CASE TurnEnds(r) \/ TurnFails(r) \/ Deadline(r) \/ Cancelled(r)
          BY <2>1, <5>2 DEF TurnEnds, TurnFails, Deadline, Cancelled, Sleep, Prompted, Awaits
        <5>3. CASE Stopped(r)
          BY <2>1, <4>2, <5>3 DEF Stopped, Sleep, Prompted, Awaits
        <5> QED
          BY <2>3, <4>2, <4>3, <5>1, <5>2, <5>3 DEF Answer, Unwound
      <4> QED
        BY <3>4, <4>1, <4>4
    <3> QED
      BY <3>3, <3>4
  <2>4. CASE FiresOne
    <3>1. PICK S \in SUBSET Fresh : \E owner \in [S -> Routines] : \E recs \in [S -> Records] :
            Fires(S, owner, recs)
      BY <2>4 DEF FiresOne
    <3>2. p \in live /\ p[1] \notin S
      BY <2>1, <3>1 DEF Fires, Fresh, Prompted, Awaits
    <3> QED
      BY <2>1, <3>1, <3>2 DEF Fires
  <2>5. CASE \E t \in Routines : Clock(t) \/ WriteRoutine(t) \/ Delete(t)
    BY <2>2, <2>5 DEF Clock, WriteRoutine, Delete
  <2>6. CASE DrainBegins \/ DrainWaits \/ DrainSettles
    BY <2>2, <2>6 DEF DrainBegins, DrainWaits, DrainSettles
  <2>7. CASE NextDaemon
    BY <2>7 DEF NextDaemon
  <2>8. CASE UNCHANGED vars
    BY <2>2, <2>8 DEF vars
  <2> QED
    BY <2>3, <2>4, <2>5, <2>6, <2>7, <2>8, FiringFires DEF Next
<1> QED
  BY <1>1, <1>2, Inductive, PTL DEF Spec
=============================================================================
