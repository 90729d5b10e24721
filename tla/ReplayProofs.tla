---------------------------- MODULE ReplayProofs ----------------------------
(***************************************************************************)
(* Proofs about Replay, for every set of questions and every page limit,   *)
(* length of the log and number of broken sockets.                         *)
(***************************************************************************)
EXTENDS Replay, FiniteSetTheorems, SequenceTheorems, TLAPS

(* Frames of different kinds differ, and so do those of one kind about     *)
(* different things.                                                       *)
LEMMA ServerFramesDiffer ==
  /\ \A m, n : Update(m) = Update(n) => m = n
  /\ \A p, q : (Approval(p) = Approval(q) => p = q) /\ (Settled(p) = Settled(q) => p = q)
  /\ \A r, s : (Roster(r) = Roster(s) => r = s) /\ (Hello(r) = Hello(s) => r = s)
  /\ \A n, q, r, s : /\ Update(n) \notin {Approval(q), Settled(q), Roster(s), Hello(s)}
                     /\ Approval(q) \notin {Roster(s), Hello(s)}
                     /\ Settled(q) \notin {Roster(s), Hello(s)}
                     /\ Roster(r) # Hello(s)
  /\ \A p, q : Approval(p) # Settled(q)
  /\ \A n, q, s : /\ Update(n).t = "update"
                  /\ "update" \notin {Approval(q).t, Settled(q).t, Roster(s).t, Hello(s).t}
<1>1. /\ \A n : Update(n).t = "update" /\ Update(n).seq = n
      /\ \A q : /\ Approval(q).t = "approval" /\ Approval(q).id = q
               /\ Settled(q).t = "approval_settled" /\ Settled(q).id = q
      /\ \A s : /\ Roster(s).t = "agents" /\ Roster(s).state = s
               /\ Hello(s).t = "hello" /\ Hello(s).state = s
  BY DEF Update, Approval, Settled, Roster, Hello
<1> QED BY <1>1

LEMMA ClientFramesDiffer ==
  /\ \A m, n : Attach(m) = Attach(n) => m = n
  /\ \A p, q : Decide(p) = Decide(q) => p = q
  /\ \A n, q : Attach(n) # Detach /\ Attach(n) # Decide(q) /\ Decide(q) # Detach
  /\ \A n, q : /\ Attach(n).t = "attach" /\ Detach.t = "detach" /\ Decide(q).t = "decide"
               /\ Attach(n).sinceSeq = n
<1>1. /\ \A n : Attach(n).t = "attach" /\ Attach(n).sinceSeq = n
      /\ \A q : Decide(q).t = "decide" /\ Decide(q).id = q
      /\ Detach.t = "detach"
  BY DEF Attach, Decide, Detach
<1> QED BY <1>1

-----------------------------------------------------------------------------
(* A wire whose first frame has been read.                                 *)
LEMMA Shifted ==
  ASSUME NEW S, NEW w \in Seq(S), w # <<>>
  PROVE  /\ Tail(w) \in Seq(S) /\ Len(w) \in Nat \ {0} /\ Len(Tail(w)) = Len(w) - 1
         /\ Head(w) = w[1] /\ Head(w) \in S
         /\ \A i \in 1..Len(w) - 1 : Tail(w)[i] = w[i+1]
  BY HeadTailProperties

(* A wire that frames were sent on.                                        *)
LEMMA Joined ==
  ASSUME NEW S, NEW w \in Seq(S), NEW t \in Seq(S)
  PROVE  /\ w \o t \in Seq(S) /\ Len(w) \in Nat /\ Len(t) \in Nat
         /\ Len(w \o t) = Len(w) + Len(t)
         /\ \A i \in 1..Len(w) : (w \o t)[i] = w[i]
         /\ \A i \in 1..Len(t) : (w \o t)[Len(w) + i] = t[i]
         /\ \A i \in Len(w)+1..Len(w) + Len(t) : (w \o t)[i] = t[i - Len(w)]
  BY ConcatProperties

(* One, two or three frames.                                               *)
LEMMA Few ==
  ASSUME NEW S
  PROVE  /\ <<>> \in Seq(S) /\ Len(<<>>) = 0
         /\ \A x \in S : <<x>> \in Seq(S) /\ Len(<<x>>) = 1 /\ <<x>>[1] = x
         /\ \A x, y \in S : /\ <<x, y>> \in Seq(S) /\ Len(<<x, y>>) = 2
                            /\ <<x, y>>[1] = x /\ <<x, y>>[2] = y
  OBVIOUS

-----------------------------------------------------------------------------
(***************************************************************************)
(* Type correctness.                                                       *)
(***************************************************************************)

(* What may be under way once l updates were written and the approvals of  *)
(* A asked for.                                                            *)
SentFrames(l, A) ==
  {Update(n) : n \in 1..l} \cup {Roster(s) : s \in States} \cup {Hello(s) : s \in States}
    \cup {Approval(q) : q \in A} \cup {Settled(q) : q \in A}
SentRequests(l, A) == {Attach(n) : n \in 0..l} \cup {Detach} \cup {Decide(q) : q \in A}

TypeInv ==
  /\ TypeOK
  /\ toClient \in Seq(SentFrames(log, asked)) /\ toDaemon \in Seq(SentRequests(log, asked))
  /\ IsFiniteSet(asked)

LEMMA SentGrow ==
  ASSUME NEW l \in Nat, NEW m \in Nat, l <= m, NEW A, NEW B, A \subseteq B
  PROVE  /\ \A w \in Seq(SentFrames(l, A)) : w \in Seq(SentFrames(m, B))
         /\ \A w \in Seq(SentRequests(l, A)) : w \in Seq(SentRequests(m, B))
<1>1. SentFrames(l, A) \subseteq SentFrames(m, B) /\ SentRequests(l, A) \subseteq SentRequests(m, B)
  BY DEF SentFrames, SentRequests
<1> QED BY <1>1, SeqMonotonic

LEMMA SentAreFrames ==
  ASSUME NEW l \in 0..UpdateBound, NEW A \in SUBSET Questions
  PROVE  /\ \A w \in Seq(SentFrames(l, A)) : w \in Seq(ServerFrames)
         /\ \A w \in Seq(SentRequests(l, A)) : w \in Seq(ClientFrames)
<1>1. SentFrames(l, A) \subseteq ServerFrames /\ SentRequests(l, A) \subseteq ClientFrames
  BY ReplayAssumption DEF SentFrames, SentRequests, ServerFrames, ClientFrames
<1> QED BY <1>1, SeqMonotonic

(* The frames that a step may add.                                         *)
LEMMA Sendable ==
  ASSUME NEW l \in Nat, NEW A
  PROVE  /\ \A n \in 1..l : Update(n) \in SentFrames(l, A)
         /\ \A s \in States : Roster(s) \in SentFrames(l, A) /\ Hello(s) \in SentFrames(l, A)
         /\ \A q \in A : /\ Approval(q) \in SentFrames(l, A) /\ Settled(q) \in SentFrames(l, A)
                         /\ Decide(q) \in SentRequests(l, A)
         /\ \A n \in 0..l : Attach(n) \in SentRequests(l, A)
         /\ Detach \in SentRequests(l, A)
  BY DEF SentFrames, SentRequests

(* What the head of a wire says.                                           *)
LEMMA SentSay ==
  ASSUME NEW l \in Nat, NEW A
  PROVE  /\ \A n : Update(n) \in SentFrames(l, A) => n \in 1..l
         /\ \A q : Approval(q) \in SentFrames(l, A) \/ Settled(q) \in SentFrames(l, A) => q \in A
         /\ \A n : Attach(n) \in SentRequests(l, A) => n \in 0..l
<1>1. \A n : Update(n) \in SentFrames(l, A) => n \in 1..l
  BY ServerFramesDiffer DEF SentFrames
<1>2. \A q : Approval(q) \in SentFrames(l, A) \/ Settled(q) \in SentFrames(l, A) => q \in A
  BY ServerFramesDiffer DEF SentFrames
<1>3. \A n : Attach(n) \in SentRequests(l, A) => n \in 0..l
  BY ClientFramesDiffer DEF SentRequests
<1> QED BY <1>1, <1>2, <1>3

(* To keep the types it is enough to keep those of the wires ...           *)
Fields ==
  /\ log \in 0..UpdateBound /\ row \in States /\ turn \in BOOLEAN
  /\ asked \subseteq Questions /\ open \subseteq asked /\ before \in [Questions -> States]
  /\ attached \in BOOLEAN /\ delivered \in 0..log /\ shown \subseteq asked
  /\ link \in {"closed", "open", "dead"} /\ faults \in 0..FaultBound
  /\ conn \in {"offline", "connecting", "open", "ready"} /\ watching \in BOOLEAN
  /\ watermark \in 0..log
  /\ held \in BOOLEAN /\ seen \subseteq 1..log /\ cards \subseteq asked
  /\ cut \subseteq 1..log /\ eclipsed \subseteq open

LEMMA Typed ==
  ASSUME Fields', (toClient \in Seq(SentFrames(log, asked)))',
         (toDaemon \in Seq(SentRequests(log, asked)))', IsFiniteSet(asked)'
  PROVE  TypeInv'
  BY SentAreFrames DEF TypeInv, TypeOK, Fields

LEMMA Types == TypeInv => /\ Fields /\ log \in Nat /\ UpdateBound \in Nat /\ FaultBound \in Nat
                          /\ toClient \in Seq(SentFrames(log, asked))
                          /\ toDaemon \in Seq(SentRequests(log, asked)) /\ IsFiniteSet(asked)
  BY ReplayAssumption DEF TypeInv, TypeOK, Fields

(* ... and what is pushed and sent keeps them.                             *)
LEMMA Pushed ==
  ASSUME TypeInv, log' \in Nat, log <= log', asked \subseteq asked',
         NEW F \in Seq(SentFrames(log', asked')),
         toClient' = IF attached THEN toClient \o F ELSE toClient
  PROVE  toClient' \in Seq(SentFrames(log', asked'))
<1>1. toClient \in Seq(SentFrames(log', asked'))
  BY Types, SentGrow
<1> QED BY <1>1, Joined

LEMMA Requested ==
  ASSUME TypeInv, UNCHANGED <<log, asked>>,
         NEW F \in Seq(SentRequests(log, asked)),
         toDaemon' = toDaemon \/ toDaemon' = toDaemon \o F
  PROVE  toDaemon' \in Seq(SentRequests(log, asked))
  BY Types, Joined

LEMMA TypeInit == ASSUME Init PROVE TypeInv
<1>1. toClient \in Seq(SentFrames(log, asked)) /\ toDaemon \in Seq(SentRequests(log, asked))
  BY Few DEF Init
<1>2. IsFiniteSet(asked)
  BY FS_EmptySet DEF Init
<1>3. Fields
  <2>1. before \in [Questions -> States]
    BY DEF Init, States
  <2>2. log = 0 /\ log \in 0..UpdateBound /\ faults \in 0..FaultBound
    BY ReplayAssumption DEF Init
  <2>3. delivered \in 0..log /\ watermark \in 0..log
    BY <2>2 DEF Init
  <2>4. seen \subseteq 1..log /\ cut \subseteq 1..log
    BY DEF Init
  <2>5. row \in States
    BY DEF Init, States
  <2> QED BY <2>1, <2>2, <2>3, <2>4, <2>5 DEF Init, Fields
<1>4. toClient \in Seq(ServerFrames) /\ toDaemon \in Seq(ClientFrames)
  BY Few DEF Init
<1> QED BY <1>1, <1>2, <1>3, <1>4 DEF TypeInv, TypeOK, Fields

LEMMA TypeWrites ==
  ASSUME TypeInv, Output \/ Prompt \/ TurnEnds \/ AgentEnds
  PROVE  TypeInv'
<1> USE Types DEF Live, States
<1>1. CASE Output
  <2>1. Fields'
    BY <1>1 DEF Fields, Output, AppendUpdate, clientVars, consoleVars, history
  <2>2. <<Update(log + 1)>> \in Seq(SentFrames(log', asked'))
    BY <1>1, Sendable, Few DEF Output, AppendUpdate
  <2>3. log' \in Nat /\ log <= log' /\ asked \subseteq asked'
        /\ toClient' = IF attached THEN toClient \o <<Update(log + 1)>> ELSE toClient
    BY <1>1 DEF Output, AppendUpdate, Push
  <2>4. toClient' \in Seq(SentFrames(log', asked'))
    BY <2>2, <2>3, Pushed
  <2> QED BY <1>1, <2>1, <2>4, Typed, SentGrow DEF Output, AppendUpdate
<1>2. CASE Prompt
  <2>1. Fields'
    BY <1>2 DEF Fields, Prompt, AppendUpdate, Announce, clientVars, consoleVars
  <2>2. <<Roster("busy"), Update(log + 1)>> \in Seq(SentFrames(log', asked'))
    BY <1>2, Sendable, Few DEF Prompt, AppendUpdate
  <2>3. log' \in Nat /\ log <= log' /\ asked \subseteq asked'
        /\ toClient' = IF attached THEN toClient \o <<Roster("busy"), Update(log + 1)>> ELSE toClient
    BY <1>2 DEF Prompt, AppendUpdate, Push
  <2>4. toClient' \in Seq(SentFrames(log', asked'))
    BY <2>2, <2>3, Pushed
  <2> QED BY <1>2, <2>1, <2>4, Typed, SentGrow DEF Prompt, AppendUpdate
<1>3. CASE TurnEnds
  <2>1. Fields'
    BY <1>3 DEF Fields, TurnEnds, Announce, socketVars, clientVars, consoleVars
  <2>2. <<Roster("idle")>> \in Seq(SentFrames(log', asked'))
    BY <1>3, Sendable, Few DEF TurnEnds
  <2>3. toClient' \in Seq(SentFrames(log', asked'))
    BY <1>3, <2>2, Pushed DEF TurnEnds, Push
  <2> QED BY <1>3, <2>1, <2>3, Typed DEF TurnEnds
<1>4. CASE AgentEnds
  <2>1. Fields'
    BY <1>4 DEF Fields, AgentEnds, Announce, socketVars, clientVars, consoleVars
  <2>2. <<Roster("stopped")>> \in Seq(SentFrames(log', asked'))
    BY <1>4, Sendable, Few DEF AgentEnds
  <2>3. toClient' \in Seq(SentFrames(log', asked'))
    BY <1>4, <2>2, Pushed DEF AgentEnds, Push
  <2> QED BY <1>4, <2>1, <2>3, Typed DEF AgentEnds
<1> QED BY <1>1, <1>2, <1>3, <1>4

LEMMA TypeAsk ==
  ASSUME TypeInv, NEW q \in Questions, Ask(q)
  PROVE  TypeInv'
<1>1. Fields'
  BY Types DEF Fields, Ask, States, clientVars, consoleVars, history
<1>2. /\ <<Roster("waiting"), Approval(q)>> \in Seq(SentFrames(log', asked'))
      /\ <<Roster("waiting")>> \in Seq(SentFrames(log', asked'))
  BY Types, Sendable, Few DEF Ask, States
<1>3. IsFiniteSet(asked')
  BY Types, FS_AddElement DEF Ask
<1>4. PICK F \in Seq(SentFrames(log', asked')) :
        toClient' = IF attached THEN toClient \o F ELSE toClient
  BY <1>2 DEF Ask, Push
<1>6. log' \in Nat /\ log <= log' /\ asked \subseteq asked'
  BY Types DEF Ask
<1>5. toClient' \in Seq(SentFrames(log', asked'))
  BY <1>4, <1>6, Pushed
<1> QED BY Types, <1>1, <1>3, <1>5, Typed, SentGrow DEF Ask

LEMMA TypeSettle ==
  ASSUME TypeInv, NEW q \in open, Settle(q),
         toDaemon' \in Seq(SentRequests(log, asked))
  PROVE  TypeInv'
<1>1. q \in asked /\ q \in Questions /\ before[q] \in States
  BY Types DEF Fields
<1>2. Fields'
  BY Types, <1>1 DEF Fields, Settle, Announce, States, socketVars, clientVars, consoleVars
<1>3. <<Roster(before[q])>> \o <<Settled(q)>> \in Seq(SentFrames(log, asked))
      /\ <<>> \o <<Settled(q)>> \in Seq(SentFrames(log, asked))
  BY <1>1, Types, Sendable, Few, Joined
<1>4. PICK F \in Seq(SentFrames(log, asked)) : toClient' = IF attached THEN toClient \o F ELSE toClient
  BY <1>3 DEF Settle, Push
<1>5. toClient' \in Seq(SentFrames(log, asked))
  BY <1>4, Types, Pushed DEF Settle
<1> QED BY <1>2, <1>5, Types, Typed DEF Settle

(* SetToSeq lists the members of a finite set.                             *)
LEMMA Listed ==
  ASSUME NEW S, IsFiniteSet(S)
  PROVE  /\ Cardinality(S) \in Nat /\ SetToSeq(S) \in [1..Cardinality(S) -> S]
         /\ \A x \in S : \E i \in 1..Cardinality(S) : SetToSeq(S)[i] = x
<1>1. Cardinality(S) \in Nat /\ ExistsBijection(1..Cardinality(S), S)
  BY FS_CardinalityType
<1>2. PICK f \in [1..Cardinality(S) -> S] : IsInjective(f)
  BY <1>1 DEF ExistsBijection, Bijection, Injection
<1>3. SetToSeq(S) \in [1..Cardinality(S) -> S] /\ IsInjective(SetToSeq(S))
  BY <1>2, Zenon DEF SetToSeq
<1>4. SetToSeq(S) \in Injection(1..Cardinality(S), S)
  BY <1>3 DEF Injection
<1>5. Cardinality(1..Cardinality(S)) = Cardinality(S)
  BY <1>1, FS_Interval
<1>6. SetToSeq(S) \in Surjection(1..Cardinality(S), S)
  BY <1>4, <1>5, FS_Injection
<1> QED BY <1>1, <1>3, <1>6 DEF Surjection

(* What an attach replays: the log from behind the mark, up to the page    *)
(* limit ...                                                               *)
LEMMA PageType ==
  ASSUME TypeInv, NEW since \in 0..log
  PROVE  /\ LastOfPage(since) \in Nat /\ LastOfPage(since) <= log /\ since <= LastOfPage(since)
         /\ Replayed(since) \in Seq(SentFrames(log, asked))
         /\ \A i \in 1..Len(Replayed(since)) :
              Replayed(since)[i] = Update((IF since < delivered THEN delivered ELSE since) + i)
         /\ \A n \in 1..LastOfPage(since) :
              n > delivered /\ n > since =>
                \E i \in 1..Len(Replayed(since)) : Replayed(since)[i] = Update(n)
<1> DEFINE last == LastOfPage(since)
           mark == IF since < delivered THEN delivered ELSE since
           n == IF last < mark THEN 0 ELSE last - mark
<1>1. last \in Nat /\ last <= log /\ since <= last /\ mark \in 0..log /\ n \in Nat
  BY Types, ReplayAssumption DEF LastOfPage, Fields
<1>2. 1 .. last + 1 - (mark + 1) = 1..n
  BY <1>1
<1>3. Replayed(since) = [i \in 1..n |-> Update(mark + i)]
  BY <1>1, <1>2 DEF Replayed
<1>4. \A i \in 1..n : Update(mark + i) \in SentFrames(log, asked)
  BY <1>1, Types, Sendable
<1>5. Replayed(since) \in Seq(SentFrames(log, asked)) /\ Len(Replayed(since)) = n
  BY <1>1, <1>3, <1>4
<1>6. ASSUME NEW m \in 1..last, m > mark
      PROVE  \E i \in 1..n : Replayed(since)[i] = Update(m)
  <2>1. m - mark \in 1..n /\ mark + (m - mark) = m
    BY <1>1, <1>6
  <2> QED BY <2>1, <1>3
<1> QED BY <1>1, <1>3, <1>5, <1>6, Types DEF Fields

(* ... and what it asks again.                                             *)
LEMMA UnshownType ==
  ASSUME TypeInv
  PROVE  /\ Unshown \in Seq(SentFrames(log, asked))
         /\ \A i \in 1..Len(Unshown) : \E q \in open \ shown : Unshown[i] = Approval(q)
         /\ \A q \in open \ shown : \E i \in 1..Len(Unshown) : Unshown[i] = Approval(q)
<1> DEFINE S == open \ shown
           n == Cardinality(S)
<1>1. S \subseteq asked
  BY Types DEF Fields
<1>2. IsFiniteSet(S)
  BY <1>1, Types, FS_Subset
<1>3. n \in Nat /\ SetToSeq(S) \in [1..n -> S]
      /\ \A x \in S : \E i \in 1..n : SetToSeq(S)[i] = x
  BY <1>2, Listed
<1>4. Unshown = [i \in 1..n |-> Approval(SetToSeq(S)[i])]
  BY DEF Unshown
<1> DEFINE f == SetToSeq(S)
<1> HIDE DEF S, n, f
<1>5. \A i \in 1..n : Approval(f[i]) \in SentFrames(log, asked)
  <2> TAKE i \in 1..n
  <2>1. f[i] \in asked
    BY <1>1, <1>3 DEF f
  <2> QED BY <2>1, Types, Sendable
<1>6. Unshown = [i \in 1..n |-> Approval(f[i])]
  BY <1>4 DEF f
<1>7. Unshown \in Seq(SentFrames(log, asked)) /\ Len(Unshown) = n
      /\ \A i \in 1..n : Unshown[i] = Approval(f[i])
  BY <1>3, <1>5, <1>6
<1> QED BY <1>3, <1>7 DEF S, f

(* The gateway has read a frame.                                           *)
LEMMA ReadType ==
  ASSUME TypeInv, NEW frame, Reads(frame)
  PROVE  frame \in SentRequests(log, asked) /\ toDaemon' \in Seq(SentRequests(log, asked))
  BY Types, Shifted DEF Reads

LEMMA TypeDaemonReads ==
  ASSUME TypeInv, DaemonReads
  PROVE  TypeInv'
<1>1. ASSUME NEW since \in 0..UpdateBound, HandleAttach(since) PROVE TypeInv'
  <2>1. since \in 0..log /\ toDaemon' \in Seq(SentRequests(log, asked))
    BY <1>1, ReadType, SentSay, Types DEF HandleAttach
  <2>2. /\ Replayed(since) \in Seq(SentFrames(log, asked)) /\ Unshown \in Seq(SentFrames(log, asked))
        /\ LastOfPage(since) \in Nat /\ LastOfPage(since) <= log
    BY <2>1, PageType, UnshownType
  <2>3. toClient' \in Seq(SentFrames(log, asked))
    BY <1>1, <2>2, Types, Joined DEF HandleAttach
  <2>4. Fields'
    BY <1>1, <2>2, Types DEF Fields, HandleAttach, agentVars, clientVars, consoleVars
  <2> QED BY <1>1, <2>1, <2>3, <2>4, Types, Typed DEF HandleAttach, agentVars
<1>2. CASE HandleDetach
  <2>1. toDaemon' \in Seq(SentRequests(log, asked))
    BY <1>2, ReadType DEF HandleDetach
  <2>2. Fields'
    <3>1. delivered' \in 0..log /\ shown' \subseteq asked
      BY <1>2, Types DEF Fields, HandleDetach
    <3> QED BY <1>2, <3>1, Types DEF Fields, HandleDetach, agentVars, clientVars, consoleVars, history
  <2> QED BY <1>2, <2>1, <2>2, Types, Typed DEF HandleDetach, agentVars
<1>3. ASSUME NEW q \in Questions, HandleDecide(q) PROVE TypeInv'
  <2>1. toDaemon' \in Seq(SentRequests(log, asked))
    BY <1>3, ReadType DEF HandleDecide
  <2>2. CASE q \in open /\ Settle(q)
    BY <2>1, <2>2, TypeSettle
  <2>3. CASE UNCHANGED <<agentVars, socketVars, toClient, link, faults, clientVars, consoleVars, history>>
    <3>1. Fields'
      BY <2>3, Types DEF Fields, agentVars, socketVars, clientVars, consoleVars, history
    <3> QED BY <2>1, <2>3, <3>1, Types, Typed DEF agentVars
  <2> QED BY <1>3, <2>2, <2>3 DEF HandleDecide
<1> QED BY <1>1, <1>2, <1>3 DEF DaemonReads

LEMMA TypeLink ==
  ASSUME TypeInv, Break \/ LinkDies \/ PongMissed \/ OpenSocket \/ SocketOpens
  PROVE  TypeInv'
<1>1. Fields'
  <2>1. CASE Break
    <3>1. /\ delivered' \in 0..log /\ shown' \subseteq asked /\ faults' \in 0..FaultBound
          /\ attached' \in BOOLEAN
      <4>1. /\ faults < FaultBound /\ faults' = faults + 1
            /\ delivered' = 0 /\ shown' = {} /\ attached' = FALSE
        BY <2>1 DEF Break, SocketGone
      <4>2. faults' \in 0..FaultBound
        BY <4>1, Types DEF Fields
      <4>3. attached' \in BOOLEAN
        BY <4>1, Types DEF Fields
      <4>4. shown' \subseteq asked
        BY <4>1, Types DEF Fields
      <4>5. delivered' \in 0..log
        BY <4>1, Types DEF Fields
      <4> QED BY <4>2, <4>3, <4>4, <4>5
    <3>2. /\ row' \in States /\ turn' \in BOOLEAN /\ open' \subseteq asked
          /\ before' \in [Questions -> States] /\ eclipsed' \subseteq open'
      BY <2>1, Types DEF Fields, Break, States
    <3> QED BY <2>1, <3>1, <3>2, Types DEF Fields, Break, consoleVars
  <2>2. CASE LinkDies
    <3>1. delivered' \in 0..log /\ shown' \subseteq asked /\ faults' \in 0..FaultBound
      BY <2>2, Types DEF Fields, LinkDies, SocketGone
    <3> QED BY <2>2, <3>1, Types DEF Fields, LinkDies, SocketGone, agentVars, clientVars, consoleVars, history
  <2>3. CASE PongMissed \/ OpenSocket \/ SocketOpens
    BY <2>3, Types DEF Fields, PongMissed, OpenSocket, SocketOpens,
                       agentVars, socketVars, consoleVars, history
  <2> QED BY <2>1, <2>2, <2>3
<1>2. /\ UNCHANGED <<log, asked>>
      /\ toDaemon' = toDaemon \/ toDaemon' = <<>>
      /\ toClient' = toClient \/ toClient' = <<>> \/ toClient' = <<Hello(row)>>
  BY DEF Break, LinkDies, PongMissed, OpenSocket, SocketOpens, SocketGone, agentVars
<1>3. Hello(row) \in SentFrames(log, asked)
  BY Types, Sendable DEF Fields
<1>4. toClient' \in Seq(SentFrames(log, asked)) /\ toDaemon' \in Seq(SentRequests(log, asked))
  BY <1>2, <1>3, Types, Few
<1> QED BY <1>1, <1>2, <1>4, Types, Typed

(* The client has read a frame.                                            *)
LEMMA HearType ==
  ASSUME TypeInv, NEW frame, Hears(frame)
  PROVE  frame \in SentFrames(log, asked) /\ toClient' \in Seq(SentFrames(log, asked))
  BY Types, Shifted DEF Hears

LEMMA TypeClientReads ==
  ASSUME TypeInv, ClientReads
  PROVE  TypeInv'
<1>1. ASSUME NEW s \in States, HandleHello(s) PROVE TypeInv'
  <2>1. Fields'
    BY <1>1, Types DEF Fields, HandleHello, ClearStaleClearances, agentVars, socketVars, history
  <2>2. <<>> \in Seq(SentRequests(log, asked)) /\ <<Attach(watermark)>> \in Seq(SentRequests(log, asked))
    BY Types, Sendable, Few DEF Fields
  <2>3. \E F \in {<<>>, <<Attach(watermark)>>} : toDaemon' = toDaemon \/ toDaemon' = toDaemon \o F
    BY <1>1 DEF HandleHello, Send
  <2>4. UNCHANGED <<log, asked>>
    BY <1>1 DEF HandleHello, agentVars
  <2>5. toDaemon' \in Seq(SentRequests(log, asked))
    BY <2>2, <2>3, <2>4, Requested
  <2>6. toClient' \in Seq(SentFrames(log, asked))
    BY <1>1, HearType DEF HandleHello
  <2> QED BY <2>1, <2>4, <2>5, <2>6, Types, Typed
<1>2. ASSUME NEW s \in States, HandleAgents(s) PROVE TypeInv'
  <2>1. Fields'
    BY <1>2, Types DEF Fields, HandleAgents, ClearStaleClearances, agentVars, socketVars, clientVars, history
  <2>2. toClient' \in Seq(SentFrames(log, asked))
    BY <1>2, HearType DEF HandleAgents
  <2> QED BY <1>2, <2>1, <2>2, Types, Typed DEF HandleAgents, agentVars
<1>3. ASSUME NEW n \in 1..UpdateBound, HandleUpdate(n) PROVE TypeInv'
  <2>1. n \in 1..log /\ toClient' \in Seq(SentFrames(log, asked))
    BY <1>3, HearType, SentSay, Types DEF HandleUpdate
  <2>2. Fields'
    <3>1. /\ watermark' \in 0..log /\ held' \in BOOLEAN /\ seen' \subseteq 1..log
      <4>1. \/ UNCHANGED <<watermark, held, seen>>
            \/ watermark' = n /\ held' = TRUE /\ seen' = seen \cup {n}
        BY <1>3 DEF HandleUpdate
      <4>2. watermark' \in 0..log
        BY <2>1, <4>1, Types DEF Fields
      <4>3. held' \in BOOLEAN
        BY <2>1, <4>1, Types DEF Fields
      <4>4. seen' \subseteq 1..log
        BY <2>1, <4>1, Types DEF Fields
      <4> QED BY <4>2, <4>3, <4>4
    <3> QED BY <1>3, <3>1, Types DEF Fields, HandleUpdate, agentVars, socketVars, history
  <2> QED BY <1>3, <2>1, <2>2, Types, Typed DEF HandleUpdate, agentVars
<1>4. ASSUME NEW q \in Questions, HandleApproval(q) \/ HandleSettled(q) PROVE TypeInv'
  <2>1. toClient' \in Seq(SentFrames(log, asked)) /\ q \in asked
    BY <1>4, HearType, SentSay, Types DEF HandleApproval, HandleSettled
  <2>2. Fields'
    BY <1>4, <2>1, Types DEF Fields, HandleApproval, HandleSettled, agentVars, socketVars, clientVars, history
  <2> QED BY <1>4, <2>1, <2>2, Types, Typed DEF HandleApproval, HandleSettled, agentVars
<1> QED BY <1>1, <1>2, <1>3, <1>4 DEF ClientReads

LEMMA TypeOperator ==
  ASSUME TypeInv, \/ SelectAgent \/ LeaveAgent \/ PruneSession
                  \/ \E q \in Questions : DecideCard(q)
  PROVE  TypeInv'
<1>1. CASE SelectAgent
  <2>1. Fields'
    BY <1>1, Types DEF Fields, SelectAgent, agentVars, socketVars, consoleVars, history
  <2>2. UNCHANGED <<log, asked>> /\ watermark' \in 0..log
    BY <1>1, Types DEF Fields, SelectAgent, agentVars
  <2>3. <<Attach(watermark')>> \in Seq(SentRequests(log, asked))
    BY <2>2, Types, Sendable, Few
  <2>4. toDaemon' = toDaemon \/ toDaemon' = toDaemon \o <<Attach(watermark')>>
    BY <1>1 DEF SelectAgent, Send
  <2>5. toDaemon' \in Seq(SentRequests(log, asked))
    BY <2>2, <2>3, <2>4, Requested
  <2> QED BY <1>1, <2>1, <2>2, <2>5, Types, Typed DEF SelectAgent
<1>2. CASE LeaveAgent
  <2>1. Fields' /\ UNCHANGED <<log, asked>>
    BY <1>2, Types DEF Fields, LeaveAgent, agentVars, socketVars, consoleVars, history
  <2>2. <<Detach>> \in Seq(SentRequests(log, asked))
    BY Types, Sendable, Few
  <2>3. toDaemon' = toDaemon \/ toDaemon' = toDaemon \o <<Detach>>
    BY <1>2 DEF LeaveAgent, Send
  <2>4. toDaemon' \in Seq(SentRequests(log, asked))
    BY <2>1, <2>2, <2>3, Requested
  <2> QED BY <1>2, <2>1, <2>4, Types, Typed DEF LeaveAgent
<1>3. CASE PruneSession
  <2>1. Fields'
    BY <1>3, Types DEF Fields, PruneSession, agentVars, socketVars, clientVars, history
  <2> QED BY <1>3, <2>1, Types, Typed DEF PruneSession, agentVars
<1>4. ASSUME NEW q \in Questions, DecideCard(q) PROVE TypeInv'
  <2>1. Fields' /\ UNCHANGED <<log, asked>> /\ q \in asked
    BY <1>4, Types DEF Fields, DecideCard, agentVars, socketVars, clientVars, history
  <2>2. <<Decide(q)>> \in Seq(SentRequests(log, asked))
    BY <2>1, Types, Sendable, Few
  <2>3. toDaemon' = toDaemon \/ toDaemon' = toDaemon \o <<Decide(q)>>
    BY <1>4 DEF DecideCard, Send
  <2>4. toDaemon' \in Seq(SentRequests(log, asked))
    BY <2>1, <2>2, <2>3, Requested
  <2> QED BY <1>4, <2>1, <2>4, Types, Typed DEF DecideCard
<1> QED BY <1>1, <1>2, <1>3, <1>4

LEMMA TypeStep == ASSUME TypeInv, [Next]_vars PROVE TypeInv'
<1>1. ASSUME NEW q \in Questions, SettledElsewhere(q) PROVE TypeInv'
  BY <1>1, TypeSettle, Types DEF SettledElsewhere
<1>2. CASE UNCHANGED vars
  BY <1>2 DEF TypeInv, TypeOK, vars, agentVars, socketVars, clientVars, consoleVars, history
<1> QED BY <1>1, <1>2, TypeWrites, TypeAsk, TypeDaemonReads, TypeLink, TypeClientReads, TypeOperator
        DEF Next

(* Whatever is under way: the marks of both ends stay within the log, and  *)
(* no card is for an approval nobody asked for.                            *)
THEOREM TypeCorrect == Spec => []TypeOK
<1>1. Spec => []TypeInv
  BY TypeInit, TypeStep, PTL DEF Spec
<1> QED BY <1>1, PTL DEF TypeInv

-----------------------------------------------------------------------------
(***************************************************************************)
(* Who watches and who is attached.                                        *)
(***************************************************************************)

(* A frame of kind a is under way, and behind the last one none of kind b. *)
Has(wire, a) == \E i \in 1..Len(wire) : wire[i].t = a
EndsWith(wire, a, b) ==
  \E i \in 1..Len(wire) : wire[i].t = a /\ \A j \in i+1..Len(wire) : wire[j].t # b

LEMMA EndOfTail ==
  ASSUME NEW S, NEW w \in Seq(S), w # <<>>, NEW a, NEW b
  PROVE  /\ Has(Tail(w), a) => Has(w, a)
         /\ EndsWith(w, a, b) => \/ EndsWith(Tail(w), a, b)
                                 \/ Head(w).t = a /\ ~Has(Tail(w), b)
<1>1. Has(Tail(w), a) => Has(w, a)
  BY Shifted DEF Has
<1>2. ASSUME NEW i \in 1..Len(w), w[i].t = a, \A j \in i+1..Len(w) : w[j].t # b
      PROVE  EndsWith(Tail(w), a, b) \/ (Head(w).t = a /\ ~Has(Tail(w), b))
  <2>1. CASE i = 1
    BY <1>2, <2>1, Shifted DEF Has
  <2>2. CASE i # 1
    <3>1. i - 1 \in 1..Len(Tail(w)) /\ Tail(w)[i-1].t = a
      BY <1>2, <2>2, Shifted
    <3>2. \A j \in (i-1)+1..Len(Tail(w)) : Tail(w)[j].t # b
      BY <1>2, <2>2, Shifted
    <3> QED BY <3>1, <3>2 DEF EndsWith
  <2> QED BY <2>1, <2>2
<1> QED BY <1>1, <1>2 DEF EndsWith

LEMMA EndOfSent ==
  ASSUME NEW S, NEW w \in Seq(S), NEW f \in S, NEW a, NEW b
  PROVE  /\ f.t = a => EndsWith(w \o <<f>>, a, b)
         /\ f.t # b /\ EndsWith(w, a, b) => EndsWith(w \o <<f>>, a, b)
         /\ f.t # b /\ Has(w \o <<f>>, b) => Has(w, b)
<1>1. /\ Len(w) \in Nat /\ Len(w \o <<f>>) = Len(w) + 1
      /\ \A i \in 1..Len(w) : (w \o <<f>>)[i] = w[i]
      /\ (w \o <<f>>)[Len(w) + 1] = f
  BY Joined, Few
<1> QED BY <1>1 DEF EndsWith, Has

(* A socket the client does not take to be open, or that swallows frames,  *)
(* has no attachment; without one there is no mark and nothing was shown.  *)
Usable == conn \in {"open", "ready"} /\ link = "open"
SocketInv ==
  /\ ~Usable => ~attached /\ toDaemon = <<>>
  /\ ~attached => delivered = 0 /\ shown = {}

(* Whoever has left the agent has told the gateway so, or it knows ...     *)
LeaveInv ==
  ~watching => EndsWith(toDaemon, "detach", "attach") \/ (~attached /\ ~Has(toDaemon, "attach"))

(* ... and whoever watches it, on a socket that has been greeted, has      *)
(* asked for it since.                                                     *)
WatchInv ==
  watching /\ conn = "ready" /\ link = "open" =>
    EndsWith(toDaemon, "attach", "detach") \/ (attached /\ ~Has(toDaemon, "detach"))

LinkInv == TypeInv /\ SocketInv /\ LeaveInv /\ WatchInv

LEMMA NothingSent == \A a, b : ~Has(<<>>, a) /\ ~EndsWith(<<>>, a, b)
  BY Few DEF Has, EndsWith

LEMMA LinkInit == ASSUME Init PROVE LinkInv
  BY TypeInit, NothingSent DEF Init, LinkInv, SocketInv, LeaveInv, WatchInv, Usable

(* The gateway reads a frame.                                              *)
LEMMA LinkReads ==
  ASSUME LinkInv, DaemonReads
  PROVE  SocketInv' /\ LeaveInv' /\ WatchInv'
<1> DEFINE S == SentRequests(log, asked)
<1>1. toDaemon \in Seq(S)
  BY Types DEF LinkInv
<1>2. ASSUME NEW since \in 0..UpdateBound, HandleAttach(since)
      PROVE  SocketInv' /\ LeaveInv' /\ WatchInv'
  <2>1. /\ toDaemon # <<>> /\ Head(toDaemon).t = "attach" /\ toDaemon' = Tail(toDaemon)
        /\ attached' /\ UNCHANGED <<conn, link, watching>>
    BY <1>2, ClientFramesDiffer DEF HandleAttach, Reads, clientVars
  <2>2. EndsWith(toDaemon, "detach", "attach") => EndsWith(toDaemon', "detach", "attach")
    BY <1>1, <2>1, EndOfTail
  <2>3. EndsWith(toDaemon, "attach", "detach") =>
          EndsWith(toDaemon', "attach", "detach") \/ ~Has(toDaemon', "detach")
    BY <1>1, <2>1, EndOfTail
  <2>4. Has(toDaemon', "detach") => Has(toDaemon, "detach")
    BY <1>1, <2>1, EndOfTail
  <2>5. Has(toDaemon, "attach")
    BY <1>1, <2>1, Shifted DEF Has
  <2> QED BY <2>1, <2>2, <2>3, <2>4, <2>5 DEF LinkInv, SocketInv, LeaveInv, WatchInv, Usable
<1>3. CASE HandleDetach
  <2>1. /\ toDaemon # <<>> /\ Head(toDaemon).t = "detach" /\ toDaemon' = Tail(toDaemon)
        /\ attached' = FALSE /\ delivered' = 0 /\ shown' = {}
        /\ UNCHANGED <<conn, link, watching>>
    BY <1>3, ClientFramesDiffer DEF HandleDetach, Reads, clientVars
  <2>2. EndsWith(toDaemon, "detach", "attach") =>
          EndsWith(toDaemon', "detach", "attach") \/ ~Has(toDaemon', "attach")
    BY <1>1, <2>1, EndOfTail
  <2>3. EndsWith(toDaemon, "attach", "detach") => EndsWith(toDaemon', "attach", "detach")
    BY <1>1, <2>1, EndOfTail
  <2>4. Has(toDaemon', "attach") => Has(toDaemon, "attach")
    BY <1>1, <2>1, EndOfTail
  <2>5. Has(toDaemon, "detach")
    BY <1>1, <2>1, Shifted DEF Has
  <2> QED BY <2>1, <2>2, <2>3, <2>4, <2>5 DEF LinkInv, SocketInv, LeaveInv, WatchInv, Usable
<1>4. ASSUME NEW q \in Questions, HandleDecide(q)
      PROVE  SocketInv' /\ LeaveInv' /\ WatchInv'
  <2>1. /\ toDaemon # <<>> /\ Head(toDaemon).t = "decide" /\ toDaemon' = Tail(toDaemon)
        /\ UNCHANGED <<conn, link, watching, attached, delivered, shown>>
    BY <1>4, ClientFramesDiffer DEF HandleDecide, Reads, Settle, clientVars, socketVars
  <2>2. EndsWith(toDaemon, "detach", "attach") => EndsWith(toDaemon', "detach", "attach")
    BY <1>1, <2>1, EndOfTail
  <2>3. EndsWith(toDaemon, "attach", "detach") => EndsWith(toDaemon', "attach", "detach")
    BY <1>1, <2>1, EndOfTail
  <2>4. /\ Has(toDaemon', "attach") => Has(toDaemon, "attach")
        /\ Has(toDaemon', "detach") => Has(toDaemon, "detach")
    BY <1>1, <2>1, EndOfTail
  <2> QED BY <2>1, <2>2, <2>3, <2>4 DEF LinkInv, SocketInv, LeaveInv, WatchInv, Usable
<1> QED BY <1>2, <1>3, <1>4 DEF DaemonReads

(* The client sends one.                                                   *)
LEMMA LinkSends ==
  ASSUME LinkInv, NEW f \in SentRequests(log, asked),
         toDaemon' = IF Usable THEN toDaemon \o <<f>> ELSE toDaemon,
         UNCHANGED <<socketVars, link>>,
         conn' = conn \/ (conn \in {"open", "ready"} /\ conn' = "ready"),
         \/ f.t = "attach" /\ watching'
         \/ f.t = "detach" /\ ~watching'
         \/ f.t = "decide" /\ watching' = watching /\ conn' = conn
  PROVE  SocketInv' /\ LeaveInv' /\ WatchInv'
<1>1. Usable' <=> Usable
  BY DEF Usable
<1>2. CASE ~Usable
  BY <1>1, <1>2, NothingSent DEF LinkInv, SocketInv, LeaveInv, WatchInv, Usable, socketVars
<1>3. CASE Usable
  <2>1. toDaemon' = toDaemon \o <<f>> /\ toDaemon \in Seq(SentRequests(log, asked))
    BY <1>3, Types DEF LinkInv
  <2>2. \A a, b : /\ f.t = a => EndsWith(toDaemon', a, b)
                  /\ f.t # b /\ EndsWith(toDaemon, a, b) => EndsWith(toDaemon', a, b)
                  /\ f.t # b /\ Has(toDaemon', b) => Has(toDaemon, b)
    BY <2>1, EndOfSent
  <2> QED BY <1>1, <1>3, <2>2 DEF LinkInv, SocketInv, LeaveInv, WatchInv, Usable, socketVars
<1> QED BY <1>2, <1>3

LEMMA LinkClient ==
  ASSUME LinkInv, \/ \E s \in States : HandleHello(s)
                  \/ SelectAgent \/ LeaveAgent
                  \/ \E q \in Questions : DecideCard(q)
  PROVE  SocketInv' /\ LeaveInv' /\ WatchInv'
<1> USE DEF LinkInv
<1>1. ASSUME NEW s \in States, HandleHello(s)
      PROVE  SocketInv' /\ LeaveInv' /\ WatchInv'
  <2>1. conn \in {"open", "ready"} /\ conn' = "ready" /\ UNCHANGED <<socketVars, link, watching>>
    BY <1>1 DEF HandleHello, Hears
  <2>2. CASE watching
    <3>1. Attach(watermark) \in SentRequests(log, asked) /\ Attach(watermark).t = "attach"
      BY Types, Sendable, ClientFramesDiffer DEF Fields
    <3>2. toDaemon' = IF Usable THEN toDaemon \o <<Attach(watermark)>> ELSE toDaemon
      BY <1>1, <2>2 DEF HandleHello, Send, Usable
    <3> QED BY <2>1, <2>2, <3>1, <3>2, LinkSends
  <2>3. CASE ~watching
    <3>1. toDaemon \o <<>> = toDaemon
      BY Types, ConcatEmptySeq
    <3>2. UNCHANGED toDaemon
      BY <1>1, <2>3, <3>1 DEF HandleHello, Send
    <3> QED BY <2>1, <2>3, <3>2 DEF SocketInv, LeaveInv, WatchInv, Usable, socketVars
  <2> QED BY <2>2, <2>3
<1>2. CASE SelectAgent
  <2>1. watermark' \in 0..log
    BY <1>2, Types DEF Fields, SelectAgent
  <2>2. Attach(watermark') \in SentRequests(log, asked) /\ Attach(watermark').t = "attach"
    BY <2>1, Types, Sendable, ClientFramesDiffer
  <2>3. /\ toDaemon' = IF Usable THEN toDaemon \o <<Attach(watermark')>> ELSE toDaemon
        /\ UNCHANGED <<socketVars, link, conn>> /\ watching'
    BY <1>2 DEF SelectAgent, Send, Usable
  <2> QED BY <2>2, <2>3, LinkSends
<1>3. CASE LeaveAgent
  <2>1. Detach \in SentRequests(log, asked) /\ Detach.t = "detach"
    BY Types, Sendable, ClientFramesDiffer
  <2>2. /\ toDaemon' = IF Usable THEN toDaemon \o <<Detach>> ELSE toDaemon
        /\ UNCHANGED <<socketVars, link, conn>> /\ ~watching'
    BY <1>3 DEF LeaveAgent, Send, Usable
  <2> QED BY <2>1, <2>2, LinkSends
<1>4. ASSUME NEW q \in Questions, DecideCard(q)
      PROVE  SocketInv' /\ LeaveInv' /\ WatchInv'
  <2>1. q \in asked
    BY <1>4, Types DEF Fields, DecideCard
  <2>2. Decide(q) \in SentRequests(log, asked) /\ Decide(q).t = "decide"
    BY <2>1, Types, Sendable, ClientFramesDiffer
  <2>3. /\ toDaemon' = IF Usable THEN toDaemon \o <<Decide(q)>> ELSE toDaemon
        /\ UNCHANGED <<socketVars, link, conn, watching>>
    BY <1>4 DEF DecideCard, Send, Usable, clientVars
  <2> QED BY <2>2, <2>3, LinkSends
<1> QED BY <1>1, <1>2, <1>3, <1>4

LEMMA LinkStep == ASSUME LinkInv, [Next]_vars PROVE LinkInv'
<1>1. SUFFICES SocketInv' /\ LeaveInv' /\ WatchInv'
  BY TypeStep DEF LinkInv
<1>2. ASSUME UNCHANGED <<conn, link, attached, toDaemon, watching>>,
             attached \/ UNCHANGED <<delivered, shown>>
      PROVE  SocketInv' /\ LeaveInv' /\ WatchInv'
  BY <1>2 DEF LinkInv, SocketInv, LeaveInv, WatchInv, Usable
<1>3. CASE Output \/ Prompt \/ TurnEnds \/ AgentEnds
  <2>1. UNCHANGED <<conn, link, attached, toDaemon, watching>>
    BY <1>3 DEF Output, Prompt, TurnEnds, AgentEnds, socketVars, clientVars
  <2>2. attached \/ UNCHANGED <<delivered, shown>>
    BY <1>3 DEF Output, Prompt, TurnEnds, AgentEnds, AppendUpdate, socketVars
  <2> QED BY <1>2, <2>1, <2>2
<1>4. ASSUME NEW q \in Questions, Ask(q) \/ SettledElsewhere(q)
      PROVE  SocketInv' /\ LeaveInv' /\ WatchInv'
  BY <1>2, <1>4 DEF Ask, SettledElsewhere, Settle, socketVars, clientVars
<1>5. CASE \/ \E s \in States : HandleAgents(s)
           \/ \E n \in 1..UpdateBound : HandleUpdate(n)
           \/ \E q \in Questions : HandleApproval(q) \/ HandleSettled(q)
           \/ PruneSession
  BY <1>2, <1>5 DEF HandleAgents, HandleUpdate, HandleApproval, HandleSettled, PruneSession,
                    socketVars, clientVars
<1>6. CASE Break \/ LinkDies
  <2>1. /\ link' # "open" /\ toDaemon' = <<>> /\ UNCHANGED watching
        /\ attached' = FALSE /\ delivered' = 0 /\ shown' = {}
    BY <1>6 DEF Break, LinkDies, SocketGone, clientVars
  <2>2. SocketInv' /\ WatchInv'
    BY <2>1 DEF SocketInv, WatchInv, Usable
  <2>3. LeaveInv'
    BY <2>1, NothingSent DEF LeaveInv
  <2> QED BY <2>2, <2>3
<1>7. CASE PongMissed \/ OpenSocket \/ SocketOpens
  <2>1. ~Usable /\ conn' # "ready" /\ UNCHANGED <<socketVars, toDaemon, watching>>
    BY <1>7 DEF PongMissed, OpenSocket, SocketOpens, Usable
  <2>2. toDaemon = <<>> /\ ~attached
    BY <2>1 DEF LinkInv, SocketInv
  <2> QED BY <2>1, <2>2, NothingSent DEF LinkInv, SocketInv, LeaveInv, WatchInv, socketVars
<1>8. CASE UNCHANGED vars
  BY <1>2, <1>8 DEF vars, socketVars, clientVars
<1> QED BY <1>3, <1>4, <1>5, <1>6, <1>7, <1>8, LinkReads, LinkClient
        DEF Next, ClientReads

-----------------------------------------------------------------------------
(***************************************************************************)
(* The transcript.                                                         *)
(***************************************************************************)

(* With this watermark, after these replays left updates out, and once the *)
(* first k frames of the wire are read, update m is accounted for.         *)
Accounted(m, mark, gone, wire, k) ==
  m <= mark \/ m \in gone \/ \E j \in 1..k : wire[j] = Update(m)

(* No update outruns one that the client needs before it.                  *)
InOrder(wire, mark, gone) ==
  \A i \in 1..Len(wire), n \in 1..UpdateBound :
    wire[i] = Update(n) => \A m \in 1..n-1 : Accounted(m, mark, gone, wire, i-1)

(* The first l updates are on their way.                                   *)
Complete(l, wire, mark, gone) ==
  \A m \in 1..l : Accounted(m, mark, gone, wire, Len(wire))

LEMMA OrderOfTail ==
  ASSUME NEW S, NEW w \in Seq(S), w # <<>>, NEW mark \in Nat, NEW next \in Nat, mark <= next,
         NEW gone, NEW l \in Nat, \A n \in Nat : Head(w) = Update(n) => n <= next
  PROVE  /\ InOrder(w, mark, gone) => InOrder(Tail(w), next, gone)
         /\ Complete(l, w, mark, gone) => Complete(l, Tail(w), next, gone)
<1> DEFINE v == Tail(w)
<1>1. /\ Len(w) \in Nat \ {0} /\ Len(v) = Len(w) - 1 /\ Head(w) = w[1]
      /\ \A i \in 1..Len(w) - 1 : v[i] = w[i+1]
  BY Shifted
<1>2. UpdateBound \in Nat
  BY ReplayAssumption
<1> HIDE DEF v
<1>3. ASSUME NEW m \in Nat, NEW k \in 1..Len(w), Accounted(m, mark, gone, w, k)
      PROVE  Accounted(m, next, gone, v, k-1)
  <2>1. ASSUME NEW j \in 1..k, w[j] = Update(m)
        PROVE  Accounted(m, next, gone, v, k-1)
    <3>1. CASE j = 1
      BY <1>1, <2>1, <3>1 DEF Accounted
    <3>2. CASE j # 1
      <4>1. j-1 \in 1..k-1 /\ v[j-1] = Update(m)
        BY <1>1, <2>1, <3>2
      <4> QED BY <4>1 DEF Accounted
    <3> QED BY <3>1, <3>2
  <2> QED BY <1>3, <2>1 DEF Accounted
<1>4. ASSUME InOrder(w, mark, gone) PROVE InOrder(v, next, gone)
  <2> SUFFICES ASSUME NEW i \in 1..Len(v), NEW n \in 1..UpdateBound, v[i] = Update(n),
                      NEW m \in 1..n-1
               PROVE  Accounted(m, next, gone, v, i-1)
    BY DEF InOrder
  <2>1. /\ i+1 \in 1..Len(w) /\ i \in 1..Len(w) /\ (i+1) - 1 = i
        /\ w[i+1] = Update(n) /\ m \in Nat
    BY <1>1, <1>2
  <2>2. Accounted(m, mark, gone, w, i)
    BY <1>4, <2>1 DEF InOrder
  <2> QED BY <1>3, <2>1, <2>2
<1>5. ASSUME Complete(l, w, mark, gone) PROVE Complete(l, v, next, gone)
  BY <1>1, <1>3, <1>5 DEF Complete
<1> QED BY <1>4, <1>5 DEF v

LEMMA OrderOfSent ==
  ASSUME NEW S, NEW w \in Seq(S), NEW F \in Seq(S), NEW mark \in Nat,
         NEW gone, NEW more, gone \subseteq more, InOrder(w, mark, gone),
         \A i \in 1..Len(F), n \in 1..UpdateBound : F[i] = Update(n) =>
            \A m \in 1..n-1 : \/ Accounted(m, mark, gone, w, Len(w)) \/ m \in more
                              \/ \E j \in 1..i-1 : F[j] = Update(m),
         NEW l \in Nat
  PROVE  /\ InOrder(w \o F, mark, more)
         /\ (\A m \in 1..l : \/ Accounted(m, mark, gone, w, Len(w)) \/ m \in more
                             \/ \E j \in 1..Len(F) : F[j] = Update(m))
              => Complete(l, w \o F, mark, more)
<1> DEFINE v == w \o F
<1>1. /\ Len(w) \in Nat /\ Len(F) \in Nat /\ Len(v) = Len(w) + Len(F)
      /\ \A i \in 1..Len(w) : v[i] = w[i]
      /\ \A i \in 1..Len(F) : v[Len(w) + i] = F[i]
  BY Joined
<1>2. UpdateBound \in Nat
  BY ReplayAssumption
<1> HIDE DEF v
<1>3. ASSUME NEW m \in Nat, NEW k \in 0..Len(w), NEW o \in k..Len(v), Accounted(m, mark, gone, w, k)
      PROVE  Accounted(m, mark, more, v, o)
  BY <1>1, <1>3 DEF Accounted
<1>4. ASSUME NEW m \in Nat, NEW k \in 0..Len(F),
             \/ Accounted(m, mark, gone, w, Len(w)) \/ m \in more
             \/ \E j \in 1..k : F[j] = Update(m)
      PROVE  Accounted(m, mark, more, v, Len(w) + k)
  <2>1. CASE Accounted(m, mark, gone, w, Len(w))
    BY <1>1, <1>3, <2>1
  <2>2. CASE m \in more
    BY <2>2 DEF Accounted
  <2>3. ASSUME NEW j \in 1..k, F[j] = Update(m) PROVE Accounted(m, mark, more, v, Len(w) + k)
    <3>1. Len(w) + j \in 1..Len(w) + k /\ v[Len(w) + j] = Update(m)
      BY <1>1, <2>3
    <3> QED BY <3>1 DEF Accounted
  <2> QED BY <1>4, <2>1, <2>2, <2>3
<1>5. InOrder(v, mark, more)
  <2> SUFFICES ASSUME NEW i \in 1..Len(v), NEW n \in 1..UpdateBound, v[i] = Update(n),
                      NEW m \in 1..n-1
               PROVE  Accounted(m, mark, more, v, i-1)
    BY DEF InOrder
  <2>1. CASE i <= Len(w)
    <3>1. i \in 1..Len(w) /\ w[i] = Update(n)
      BY <1>1, <2>1
    <3>2. Accounted(m, mark, gone, w, i-1)
      BY <3>1 DEF InOrder
    <3>3. i-1 \in 0..Len(w) /\ i-1 \in (i-1)..Len(v) /\ m \in Nat
      BY <1>1, <2>1
    <3> QED BY <1>3, <3>2, <3>3
  <2>2. CASE i > Len(w)
    <3>1. PICK k \in 1..Len(F) : i = Len(w) + k
      <4>1. i - Len(w) \in 1..Len(F) /\ i = Len(w) + (i - Len(w))
        BY <1>1, <2>2
      <4> QED BY <4>1
    <3>2. F[k] = Update(n)
      BY <1>1, <3>1
    <3>3. \/ Accounted(m, mark, gone, w, Len(w)) \/ m \in more
          \/ \E j \in 1..k-1 : F[j] = Update(m)
      BY <3>2
    <3>4. k-1 \in 0..Len(F) /\ Len(w) + (k-1) = i - 1 /\ m \in Nat
      BY <1>1, <3>1
    <3>5. Accounted(m, mark, more, v, Len(w) + (k-1))
      BY <1>4, <3>3, <3>4
    <3> QED BY <3>4, <3>5
  <2> QED BY <1>1, <2>1, <2>2
<1>6. ASSUME \A m \in 1..l : \/ Accounted(m, mark, gone, w, Len(w)) \/ m \in more
                             \/ \E j \in 1..Len(F) : F[j] = Update(m)
      PROVE  Complete(l, v, mark, more)
  <2> SUFFICES ASSUME NEW m \in 1..l PROVE Accounted(m, mark, more, v, Len(v))
    BY DEF Complete
  <2>1. m \in Nat /\ Len(F) \in 0..Len(F)
    BY <1>1
  <2> QED BY <1>1, <1>4, <1>6, <2>1
<1> QED BY <1>5, <1>6 DEF v

LEMMA OrderOfQuiet ==
  ASSUME NEW S, NEW w \in Seq(S), NEW F \in Seq(S), NEW mark \in Nat, NEW gone, NEW l \in Nat,
         InOrder(w, mark, gone), ~Has(F, "update")
  PROVE  /\ InOrder(w \o F, mark, gone)
         /\ Complete(l, w, mark, gone) => Complete(l, w \o F, mark, gone)
         /\ Has(w \o F, "update") => Has(w, "update")
<1>1. \A i \in 1..Len(F), n \in 1..UpdateBound : F[i] # Update(n)
  BY ServerFramesDiffer DEF Has
<1>2. InOrder(w \o F, mark, gone)
  BY <1>1, OrderOfSent
<1>3. ASSUME Complete(l, w, mark, gone) PROVE Complete(l, w \o F, mark, gone)
  <2>1. \A m \in 1..l : Accounted(m, mark, gone, w, Len(w))
    BY <1>3 DEF Complete
  <2> QED BY <1>1, <2>1, OrderOfSent
<1>4. Has(w \o F, "update") => Has(w, "update")
  <2> SUFFICES ASSUME NEW i \in 1..Len(w \o F), (w \o F)[i].t = "update" PROVE Has(w, "update")
    BY DEF Has
  <2>1. /\ Len(w) \in Nat /\ Len(F) \in Nat /\ Len(w \o F) = Len(w) + Len(F)
        /\ \A k \in 1..Len(w) : (w \o F)[k] = w[k]
        /\ \A k \in Len(w)+1..Len(w) + Len(F) : (w \o F)[k] = F[k - Len(w)]
    BY Joined
  <2>2. CASE i \in 1..Len(w)
    BY <2>1, <2>2 DEF Has
  <2>3. CASE i \in Len(w)+1..Len(w) + Len(F)
    <3>1. i - Len(w) \in 1..Len(F) /\ F[i - Len(w)].t = "update"
      BY <2>1, <2>3
    <3> QED BY <3>1 DEF Has
  <2> QED BY <2>1, <2>2, <2>3
<1> QED BY <1>2, <1>3, <1>4

(* Every attach under way asks from the mark or from below.                *)
Asks(wire, mark) ==
  \A i \in 1..Len(wire) : wire[i].t = "attach" => wire[i].sinceSeq <= mark

LEMMA AsksOfTail ==
  ASSUME NEW l \in Nat, NEW A, NEW w \in Seq(SentRequests(l, A)), w # <<>>,
         NEW mark, Asks(w, mark)
  PROVE  Asks(Tail(w), mark)
<1> DEFINE v == Tail(w)
<1>1. /\ Len(w) \in Nat \ {0} /\ Len(v) = Len(w) - 1
      /\ \A i \in 1..Len(w) - 1 : v[i] = w[i+1]
  BY Shifted
<1> HIDE DEF v
<1>2. Asks(v, mark)
  BY <1>1 DEF Asks
<1> QED BY <1>2 DEF v

LEMMA AsksOfSent ==
  ASSUME NEW l \in Nat, NEW A, NEW w \in Seq(SentRequests(l, A)), NEW f \in SentRequests(l, A),
         NEW mark, Asks(w, mark), f.t = "attach" => f.sinceSeq <= mark
  PROVE  Asks(w \o <<f>>, mark)
<1>1. /\ Len(w) \in Nat /\ Len(w \o <<f>>) = Len(w) + 1
      /\ \A i \in 1..Len(w) : (w \o <<f>>)[i] = w[i]
      /\ (w \o <<f>>)[Len(w) + 1] = f
  BY Joined, Few
<1> QED BY <1>1 DEF Asks

LEMMA AsksLess ==
  ASSUME NEW l \in Nat, NEW A, NEW w \in Seq(SentRequests(l, A)),
         NEW mark \in Nat, NEW next \in Nat, mark <= next, Asks(w, mark)
  PROVE  Asks(w, next)
<1>1. \A f \in SentRequests(l, A) : f.t = "attach" => f.sinceSeq \in 0..l
  BY ClientFramesDiffer DEF SentRequests
<1>2. \A i \in 1..Len(w) : w[i] \in SentRequests(l, A)
  BY ElementOfSeq
<1> QED BY <1>1, <1>2 DEF Asks

(* What is under way is in order, and an attachment has put all on its     *)
(* way; no attach asks for less than the client misses by then.            *)
OrderInv ==
  /\ InOrder(toClient, watermark, cut)
  /\ attached => Complete(log, toClient, watermark, cut)
  /\ Asks(toDaemon, watermark)

(* The mark of a session that was dropped is stale until the agent is      *)
(* selected again, and nothing comes in the meantime.                      *)
Stale == ~held /\ watermark # 0
StaleInv ==
  Stale => ~watching /\ ~attached /\ ~Has(toDaemon, "attach") /\ ~Has(toClient, "update")

TranscriptInv ==
  /\ ~held => seen = {}
  /\ ~Stale => seen \subseteq 1..watermark /\ 1..watermark \subseteq seen \cup cut

HoleInv == LinkInv /\ OrderInv /\ StaleInv /\ TranscriptInv

(* The gateway pushes frames, or would.                                    *)
LEMMA HolePushed ==
  ASSUME HoleInv, NEW A, NEW F \in Seq(SentFrames(log', A)), asked \subseteq A,
         toClient' = IF attached THEN toClient \o F ELSE toClient,
         UNCHANGED <<attached, watermark, cut, watching, held, seen>>,
         UNCHANGED toDaemon \/ (toDaemon # <<>> /\ toDaemon' = Tail(toDaemon)),
         \/ log' = log /\ ~Has(F, "update")
         \/ /\ log' = log + 1
            /\ \E i \in 1..Len(F) : F[i] = Update(log + 1)
            /\ \A i \in 1..Len(F), n \in 1..UpdateBound : F[i] = Update(n) => n = log + 1
  PROVE  OrderInv' /\ StaleInv' /\ TranscriptInv'
<1>1. /\ log \in Nat /\ watermark \in Nat /\ log' \in Nat /\ log <= log'
      /\ toClient \in Seq(SentFrames(log, asked)) /\ toDaemon \in Seq(SentRequests(log, asked))
  BY Types DEF HoleInv, LinkInv, Fields
<1>2. toClient \in Seq(SentFrames(log', A))
  BY <1>1, SentGrow
<1>3. TranscriptInv'
  BY DEF HoleInv, TranscriptInv, Stale
<1>4. Asks(toDaemon', watermark) /\ (Has(toDaemon', "attach") => Has(toDaemon, "attach"))
  <2>1. Asks(toDaemon, watermark)
    BY DEF HoleInv, OrderInv
  <2>2. CASE UNCHANGED toDaemon
    BY <2>1, <2>2
  <2>3. CASE toDaemon # <<>> /\ toDaemon' = Tail(toDaemon)
    BY <1>1, <2>1, <2>3, AsksOfTail, EndOfTail
  <2> QED BY <2>2, <2>3
<1>5. CASE ~attached
  BY <1>3, <1>4, <1>5 DEF HoleInv, OrderInv, StaleInv, Stale
<1>6. CASE attached /\ log' = log /\ ~Has(F, "update")
  <2>1. /\ InOrder(toClient', watermark, cut)
        /\ Complete(log, toClient, watermark, cut) => Complete(log, toClient', watermark, cut)
    BY <1>1, <1>2, <1>6, OrderOfQuiet DEF HoleInv, OrderInv
  <2> QED BY <1>3, <1>4, <1>6, <2>1 DEF HoleInv, OrderInv, StaleInv, Stale
<1>7. CASE /\ attached /\ log' = log + 1
           /\ \E i \in 1..Len(F) : F[i] = Update(log + 1)
           /\ \A i \in 1..Len(F), n \in 1..UpdateBound : F[i] = Update(n) => n = log + 1
  <2>1. \A m \in 1..log : Accounted(m, watermark, cut, toClient, Len(toClient))
    BY <1>7 DEF HoleInv, OrderInv, Complete
  <2>2. \A i \in 1..Len(F), n \in 1..UpdateBound : F[i] = Update(n) =>
          \A m \in 1..n-1 : \/ Accounted(m, watermark, cut, toClient, Len(toClient)) \/ m \in cut
                             \/ \E j \in 1..i-1 : F[j] = Update(m)
    <3> SUFFICES ASSUME NEW i \in 1..Len(F), NEW n \in 1..UpdateBound, F[i] = Update(n), NEW m \in 1..n-1
                 PROVE  Accounted(m, watermark, cut, toClient, Len(toClient))
      OBVIOUS
    <3>1. n = log + 1
      BY <1>7
    <3> QED BY <1>1, <2>1, <3>1
  <2>3. \A m \in 1..log + 1 : \/ Accounted(m, watermark, cut, toClient, Len(toClient)) \/ m \in cut
                              \/ \E j \in 1..Len(F) : F[j] = Update(m)
    <3> TAKE m \in 1..log + 1
    <3>1. m \in 1..log \/ m = log + 1
      BY <1>1
    <3> QED BY <1>7, <2>1, <3>1
  <2>4. InOrder(toClient, watermark, cut)
    BY DEF HoleInv, OrderInv
  <2>5. InOrder(toClient \o F, watermark, cut) /\ Complete(log + 1, toClient \o F, watermark, cut)
    <3>1. log + 1 \in Nat /\ cut \subseteq cut
      BY <1>1
    <3> QED BY <1>1, <1>2, <2>2, <2>3, <2>4, <3>1, OrderOfSent
  <2> QED BY <1>3, <1>4, <1>7, <2>5 DEF HoleInv, OrderInv, StaleInv, Stale
<1> QED BY <1>3, <1>5, <1>6, <1>7

LEMMA HoleWrites ==
  ASSUME HoleInv, Output \/ Prompt \/ TurnEnds \/ AgentEnds
  PROVE  OrderInv' /\ StaleInv' /\ TranscriptInv'
<1>1. log \in Nat /\ UpdateBound \in Nat
  BY Types DEF HoleInv, LinkInv
<1>2. CASE Output
  <2> DEFINE F == <<Update(log + 1)>>
  <2>1. UNCHANGED <<attached, watermark, cut, watching, held, seen, toDaemon, asked>> /\ log' = log + 1
    BY <1>2 DEF Output, AppendUpdate, clientVars, consoleVars, history
  <2>2. toClient' = IF attached THEN toClient \o F ELSE toClient
    BY <1>2 DEF Output, Push
  <2>3. Update(log + 1) \in SentFrames(log', asked)
    BY <1>1, <2>1, Sendable
  <2>4. F \in Seq(SentFrames(log', asked)) /\ Len(F) = 1 /\ F[1] = Update(log + 1)
    BY <2>3, Few
  <2> HIDE DEF F
  <2>5. \A i \in 1..Len(F), n \in 1..UpdateBound : F[i] = Update(n) => n = log + 1
    BY <2>4, ServerFramesDiffer
  <2>6. \E i \in 1..Len(F) : F[i] = Update(log + 1)
    BY <2>4
  <2> QED BY <2>1, <2>2, <2>4, <2>5, <2>6, HolePushed
<1>3. CASE Prompt
  <2> DEFINE F == <<Roster("busy"), Update(log + 1)>>
  <2>1. UNCHANGED <<attached, watermark, cut, watching, held, seen, toDaemon, asked>> /\ log' = log + 1
    BY <1>3 DEF Prompt, AppendUpdate, clientVars, consoleVars
  <2>2. toClient' = IF attached THEN toClient \o F ELSE toClient
    BY <1>3 DEF Prompt, Push
  <2>3. Update(log + 1) \in SentFrames(log', asked) /\ Roster("busy") \in SentFrames(log', asked)
    BY <1>1, <2>1, Sendable DEF States
  <2>4. F \in Seq(SentFrames(log', asked)) /\ Len(F) = 2
        /\ F[1] = Roster("busy") /\ F[2] = Update(log + 1)
    BY <2>3, Few
  <2> HIDE DEF F
  <2>5. \A i \in 1..2, n \in 1..UpdateBound : F[i] = Update(n) => n = log + 1
    BY <2>4, ServerFramesDiffer
  <2> QED BY <2>1, <2>2, <2>4, <2>5, HolePushed
<1>4. ASSUME NEW s \in States, toClient' = IF attached THEN toClient \o <<Roster(s)>> ELSE toClient,
             UNCHANGED <<log, attached, watermark, cut, watching, held, seen, toDaemon, asked>>
      PROVE  OrderInv' /\ StaleInv' /\ TranscriptInv'
  <2>1. Roster(s) \in SentFrames(log', asked) /\ Roster(s).t # "update"
    BY <1>1, <1>4, Sendable, ServerFramesDiffer
  <2>2. <<Roster(s)>> \in Seq(SentFrames(log', asked)) /\ ~Has(<<Roster(s)>>, "update")
    BY <2>1, Few DEF Has
  <2> QED BY <1>4, <2>2, HolePushed
<1>5. CASE TurnEnds
  BY <1>4, <1>5 DEF TurnEnds, Push, socketVars, clientVars, consoleVars, States
<1>6. CASE AgentEnds
  BY <1>4, <1>6 DEF AgentEnds, Push, socketVars, clientVars, consoleVars, States
<1> QED BY <1>2, <1>3, <1>5, <1>6

LEMMA HoleAsk ==
  ASSUME HoleInv, NEW q \in Questions, Ask(q)
  PROVE  OrderInv' /\ StaleInv' /\ TranscriptInv'
<1> DEFINE F == IF q \in shown THEN <<Roster("waiting")>> ELSE <<Roster("waiting"), Approval(q)>>
<1>1. /\ UNCHANGED <<attached, watermark, cut, watching, held, seen, toDaemon, log>>
      /\ asked' = asked \cup {q}
  BY DEF Ask, clientVars, consoleVars
<1>2. toClient' = IF attached THEN toClient \o F ELSE toClient
  BY DEF Ask, Push
<1>3. Roster("waiting") \in SentFrames(log', asked') /\ Approval(q) \in SentFrames(log', asked')
  BY <1>1, Types, Sendable DEF States, HoleInv, LinkInv
<1>4. /\ F \in Seq(SentFrames(log', asked'))
      /\ \A i \in 1..Len(F) : F[i] \in {Roster("waiting"), Approval(q)}
  <2>1. CASE q \in shown
    BY <1>3, <2>1, Few
  <2>2. CASE q \notin shown
    <3>1. F \in Seq(SentFrames(log', asked')) /\ Len(F) = 2 /\ F[1] = Roster("waiting") /\ F[2] = Approval(q)
      BY <1>3, <2>2, Few
    <3> QED BY <3>1
  <2> QED BY <2>1, <2>2
<1> HIDE DEF F
<1>5. ~Has(F, "update")
  BY <1>4, ServerFramesDiffer DEF Has
<1>6. asked \subseteq asked'
  BY <1>1
<1> QED BY <1>1, <1>2, <1>4, <1>5, <1>6, HolePushed

LEMMA HoleSettle ==
  ASSUME HoleInv, NEW q \in open, Settle(q),
         UNCHANGED toDaemon \/ (toDaemon # <<>> /\ toDaemon' = Tail(toDaemon))
  PROVE  OrderInv' /\ StaleInv' /\ TranscriptInv'
<1>1. UNCHANGED <<attached, watermark, cut, watching, held, seen, log, asked>>
  BY DEF Settle, socketVars, clientVars, consoleVars
<1>2. q \in asked /\ before[q] \in States /\ log \in Nat
  BY Types DEF Fields, HoleInv, LinkInv
<1>3. /\ Settled(q) \in SentFrames(log', asked) /\ Roster(before[q]) \in SentFrames(log', asked)
      /\ Settled(q).t # "update" /\ Roster(before[q]).t # "update"
  BY <1>1, <1>2, Sendable, ServerFramesDiffer
<1>4. ASSUME NEW r, NEW u, r \in SentFrames(log', asked), u \in SentFrames(log', asked),
             r.t # "update", u.t # "update"
      PROVE  /\ <<r>> \o <<u>> \in Seq(SentFrames(log', asked)) /\ ~Has(<<r>> \o <<u>>, "update")
             /\ <<>> \o <<u>> \in Seq(SentFrames(log', asked)) /\ ~Has(<<>> \o <<u>>, "update")
  BY <1>4, Few, Joined DEF Has
<1>5. PICK F \in Seq(SentFrames(log', asked)) :
        ~Has(F, "update") /\ toClient' = IF attached THEN toClient \o F ELSE toClient
  BY <1>3, <1>4 DEF Settle, Push
<1> QED BY <1>1, <1>5, HolePushed

LEMMA HoleAttach ==
  ASSUME HoleInv, NEW since \in 0..UpdateBound, HandleAttach(since)
  PROVE  OrderInv' /\ StaleInv' /\ TranscriptInv'
<1> DEFINE S == SentFrames(log, asked)
           R == Replayed(since)
           w == toClient \o R
           last == LastOfPage(since)
<1>1. /\ TypeInv /\ toClient \in Seq(S) /\ toDaemon \in Seq(SentRequests(log, asked))
      /\ log \in Nat /\ watermark \in Nat /\ delivered \in 0..log /\ cut \subseteq 1..log
  BY Types DEF HoleInv, LinkInv, Fields
<1>2. /\ toDaemon # <<>> /\ Head(toDaemon) = Attach(since) /\ toDaemon' = Tail(toDaemon)
      /\ toClient' = w \o Unshown
      /\ UNCHANGED <<log, watermark, held, seen, watching>>
      /\ cut' = (cut \ Fetched(since))
                   \cup ((IF delivered < last THEN last ELSE delivered) + 1 .. log)
  BY DEF HandleAttach, Reads, agentVars, clientVars, consoleVars
<1>0. /\ \A m \in cut : m > watermark => m \in cut' \/ m \in Fetched(since)
      /\ \A m \in cut : m <= watermark \/ m <= since \/ m <= delivered => m \in cut'
  BY <1>1, <1>2 DEF Fetched, Ahead
<1>3. since \in 0..log /\ since <= watermark /\ Has(toDaemon, "attach")
  <2>1. 1 \in 1..Len(toDaemon) /\ toDaemon[1] = Attach(since)
    BY <1>1, <1>2, Shifted
  <2>2. Attach(since) \in SentRequests(log, asked)
    BY <1>1, <1>2, Shifted
  <2> QED BY <1>1, <2>1, <2>2, SentSay, ClientFramesDiffer DEF HoleInv, OrderInv, Asks, Has
<1>4. ~Stale
  BY <1>3 DEF HoleInv, StaleInv
<1>5. StaleInv' /\ TranscriptInv'
  <2>1. ~Stale'
    BY <1>2, <1>4 DEF Stale
  <2>2. 1..watermark \subseteq seen \cup cut => 1..watermark \subseteq seen \cup cut'
    BY <1>0, <1>1
  <2> QED BY <1>2, <1>4, <2>1, <2>2 DEF HoleInv, StaleInv, TranscriptInv
<1>6. Asks(toDaemon', watermark)
  BY <1>1, <1>2, AsksOfTail DEF HoleInv, OrderInv
<1>7. /\ R \in Seq(S) /\ last \in Nat /\ last <= log /\ since <= last
      /\ \A i \in 1..Len(R) : R[i] = Update((IF since < delivered THEN delivered ELSE since) + i)
      /\ \A n \in 1..last :
           n > delivered /\ n > since => \E i \in 1..Len(R) : R[i] = Update(n)
  BY <1>1, <1>3, PageType
<1>8. Unshown \in Seq(S) /\ ~Has(Unshown, "update")
  BY <1>1, UnshownType, ServerFramesDiffer DEF Has
<1>9. \A m \in 1..log : m <= since \/ m <= delivered =>
        Accounted(m, watermark, cut', toClient, Len(toClient))
  <2> TAKE m \in 1..log
  <2>1. CASE m <= since
    BY <1>1, <1>3, <2>1 DEF Accounted
  <2>2. CASE m <= delivered
    <3>1. attached
      BY <1>1, <2>2 DEF HoleInv, LinkInv, SocketInv
    <3>2. Accounted(m, watermark, cut, toClient, Len(toClient))
      BY <3>1 DEF HoleInv, OrderInv, Complete
    <3> QED BY <1>0, <2>2, <3>2 DEF Accounted
  <2> QED BY <2>1, <2>2
<1> HIDE DEF R, last
<1>10. \A i \in 1..Len(R), n \in 1..UpdateBound : R[i] = Update(n) => n <= log
  <2> TAKE i \in 1..Len(R), n \in 1..UpdateBound
  <2>1. R[i] \in S
    BY <1>7, ElementOfSeq
  <2> QED BY <1>1, <2>1, SentSay
<1>11. \A i \in 1..Len(R), n \in 1..UpdateBound : R[i] = Update(n) =>
         \A m \in 1..n-1 : \/ Accounted(m, watermark, cut', toClient, Len(toClient)) \/ m \in cut'
                           \/ \E j \in 1..i-1 : R[j] = Update(m)
  <2> SUFFICES ASSUME NEW i \in 1..Len(R), NEW n \in 1..UpdateBound, R[i] = Update(n), NEW m \in 1..n-1,
                      m > since, m > delivered
               PROVE  \E j \in 1..i-1 : R[j] = Update(m)
    BY <1>1, <1>3, <1>9, <1>10
  <2> DEFINE mark == IF since < delivered THEN delivered ELSE since
  <2>1. mark \in Nat /\ m > mark /\ n = mark + i /\ Len(R) \in Nat
    BY <1>1, <1>3, <1>7, ServerFramesDiffer
  <2> HIDE DEF mark
  <2>2. m - mark \in 1..i-1 /\ m - mark \in 1..Len(R) /\ mark + (m - mark) = m
    BY <2>1
  <2>3. R[m - mark] = Update(m)
    BY <1>7, <2>2 DEF mark
  <2> QED BY <2>2, <2>3
<1>12. \A m \in 1..log : \/ Accounted(m, watermark, cut', toClient, Len(toClient)) \/ m \in cut'
                         \/ \E j \in 1..Len(R) : R[j] = Update(m)
  <2> TAKE m \in 1..log
  <2>1. CASE m <= since \/ m <= delivered
    BY <1>9, <2>1
  <2>2. CASE m > since /\ m > delivered /\ m <= last
    BY <1>7, <2>2
  <2>3. CASE m > delivered /\ m > last
    BY <1>1, <1>2, <1>7, <2>3
  <2> QED BY <1>1, <1>3, <1>7, <2>1, <2>2, <2>3
<1>13. InOrder(toClient, watermark, cut') /\ cut' \subseteq cut'
  <2> SUFFICES ASSUME NEW i \in 1..Len(toClient), NEW n \in 1..UpdateBound, toClient[i] = Update(n),
                      NEW m \in 1..n-1
               PROVE  Accounted(m, watermark, cut', toClient, i-1)
    BY DEF InOrder
  <2>1. Accounted(m, watermark, cut, toClient, i-1)
    BY DEF HoleInv, OrderInv, InOrder
  <2>2. m \notin Fetched(since)
    BY DEF Fetched, Ahead
  <2> QED BY <1>1, <1>0, <2>1, <2>2 DEF Accounted
<1>14. InOrder(w, watermark, cut') /\ Complete(log, w, watermark, cut')
  BY <1>1, <1>7, <1>11, <1>12, <1>13, OrderOfSent
<1>15. w \in Seq(S)
  BY <1>1, <1>7, Joined
<1> HIDE DEF w
<1>16. InOrder(w \o Unshown, watermark, cut') /\ Complete(log, w \o Unshown, watermark, cut')
  BY <1>1, <1>8, <1>14, <1>15, OrderOfQuiet
<1> QED BY <1>2, <1>5, <1>6, <1>16 DEF OrderInv

LEMMA HoleReads ==
  ASSUME HoleInv, DaemonReads
  PROVE  OrderInv' /\ StaleInv' /\ TranscriptInv'
<1>1. toDaemon \in Seq(SentRequests(log, asked)) /\ log \in Nat
  BY Types DEF HoleInv, LinkInv
<1>2. ASSUME toDaemon # <<>>, toDaemon' = Tail(toDaemon), attached' => attached,
             UNCHANGED <<log, toClient, watermark, cut, watching, held, seen>>
      PROVE  OrderInv' /\ StaleInv' /\ TranscriptInv'
  <2>1. Asks(toDaemon', watermark) /\ (Has(toDaemon', "attach") => Has(toDaemon, "attach"))
    BY <1>1, <1>2, AsksOfTail, EndOfTail DEF HoleInv, OrderInv
  <2> QED BY <1>2, <2>1 DEF HoleInv, OrderInv, StaleInv, TranscriptInv, Stale
<1>3. CASE HandleDetach
  BY <1>2, <1>3 DEF HandleDetach, Reads, agentVars, clientVars, consoleVars, history
<1>4. ASSUME NEW q \in Questions, HandleDecide(q)
      PROVE  OrderInv' /\ StaleInv' /\ TranscriptInv'
  <2>1. toDaemon # <<>> /\ toDaemon' = Tail(toDaemon)
    BY <1>4 DEF HandleDecide, Reads
  <2>2. CASE q \in open /\ Settle(q)
    BY <2>1, <2>2, HoleSettle
  <2>3. CASE UNCHANGED <<agentVars, socketVars, toClient, link, faults, clientVars, consoleVars, history>>
    BY <1>2, <2>1, <2>3 DEF agentVars, socketVars, clientVars, consoleVars, history
  <2> QED BY <1>4, <2>2, <2>3 DEF HandleDecide
<1> QED BY <1>3, <1>4, HoleAttach DEF DaemonReads

LEMMA HoleLink ==
  ASSUME HoleInv, Break \/ LinkDies \/ PongMissed \/ OpenSocket \/ SocketOpens
  PROVE  OrderInv' /\ StaleInv' /\ TranscriptInv'
<1>1. /\ UNCHANGED <<log, watermark, cut, watching, held, seen>> /\ ~attached'
      /\ toDaemon' = <<>>
      /\ toClient' = toClient \/ toClient' = <<>> \/ toClient' = <<Hello(row)>>
  <2>1. CASE Break \/ LinkDies
    BY <2>1 DEF Break, LinkDies, SocketGone, agentVars, clientVars, consoleVars, history
  <2>2. CASE PongMissed \/ OpenSocket \/ SocketOpens
    <3>1. /\ ~Usable /\ UNCHANGED <<log, watermark, cut, watching, held, seen, attached, toDaemon>>
          /\ toClient' = toClient \/ toClient' = <<Hello(row)>>
      BY <2>2 DEF PongMissed, OpenSocket, SocketOpens, Usable, agentVars, socketVars, consoleVars, history
    <3> QED BY <3>1 DEF HoleInv, LinkInv, SocketInv
  <2> QED BY <2>1, <2>2
<1>2. TranscriptInv'
  BY <1>1 DEF HoleInv, TranscriptInv, Stale
<1>3. Asks(<<>>, watermark) /\ ~Has(<<>>, "attach") /\ ~Has(<<>>, "update") /\ InOrder(<<>>, watermark, cut)
  BY Few DEF Asks, Has, InOrder
<1>4. ~Has(<<Hello(row)>>, "update") /\ InOrder(<<Hello(row)>>, watermark, cut)
  <2>1. Len(<<Hello(row)>>) = 1 /\ <<Hello(row)>>[1] = Hello(row)
    BY Few
  <2> QED BY <2>1, ServerFramesDiffer DEF Has, InOrder
<1>5. InOrder(toClient', watermark, cut) /\ (Has(toClient', "update") => Has(toClient, "update"))
  BY <1>1, <1>3, <1>4 DEF HoleInv, OrderInv
<1> QED BY <1>1, <1>2, <1>3, <1>5 DEF OrderInv, StaleInv, Stale, HoleInv

(* The client has read a frame that is not an update.                      *)
LEMMA HoleHeard ==
  ASSUME HoleInv, ClientReads, \A n \in 1..UpdateBound : ~HandleUpdate(n)
  PROVE  OrderInv' /\ StaleInv' /\ TranscriptInv'
<1>1. /\ toClient \in Seq(SentFrames(log, asked)) /\ toDaemon \in Seq(SentRequests(log, asked))
      /\ log \in Nat /\ watermark \in 0..log
  BY Types DEF HoleInv, LinkInv, Fields
<1>2. /\ toClient # <<>> /\ toClient' = Tail(toClient) /\ Head(toClient).t # "update"
      /\ UNCHANGED <<log, attached, watermark, cut, watching, held, seen>>
  <2>1. ASSUME NEW s \in States, HandleHello(s) \/ HandleAgents(s)
        PROVE  /\ toClient # <<>> /\ toClient' = Tail(toClient) /\ Head(toClient).t # "update"
               /\ UNCHANGED <<log, attached, watermark, cut, watching, held, seen>>
    BY <2>1, ServerFramesDiffer DEF HandleHello, HandleAgents, Hears, agentVars, socketVars, clientVars, history
  <2>2. ASSUME NEW q \in Questions, HandleApproval(q) \/ HandleSettled(q)
        PROVE  /\ toClient # <<>> /\ toClient' = Tail(toClient) /\ Head(toClient).t # "update"
               /\ UNCHANGED <<log, attached, watermark, cut, watching, held, seen>>
    BY <2>2, ServerFramesDiffer DEF HandleApproval, HandleSettled, Hears, agentVars, socketVars, clientVars, history
  <2> QED BY <2>1, <2>2 DEF ClientReads
<1>3. /\ InOrder(toClient', watermark, cut)
      /\ Complete(log, toClient, watermark, cut) => Complete(log, toClient', watermark, cut)
      /\ Has(toClient', "update") => Has(toClient, "update")
  <2>1. \A n \in Nat : Head(toClient) = Update(n) => n <= watermark
    BY <1>2, ServerFramesDiffer
  <2>2. InOrder(toClient, watermark, cut)
    BY DEF HoleInv, OrderInv
  <2>3. watermark \in Nat /\ watermark <= watermark
    BY <1>1
  <2>4. /\ InOrder(toClient', watermark, cut)
        /\ Complete(log, toClient, watermark, cut) => Complete(log, toClient', watermark, cut)
    BY <1>1, <1>2, <2>1, <2>2, <2>3, OrderOfTail
  <2>5. Has(toClient', "update") => Has(toClient, "update")
    BY <1>1, <1>2, EndOfTail
  <2> QED BY <2>4, <2>5
<1>4. UNCHANGED toDaemon \/ (watching /\ toDaemon' = toDaemon \o <<Attach(watermark)>>)
  <2>1. ASSUME NEW s \in States, HandleHello(s)
        PROVE  UNCHANGED toDaemon \/ (watching /\ toDaemon' = toDaemon \o <<Attach(watermark)>>)
    BY <1>1, <2>1, ConcatEmptySeq DEF HandleHello, Send
  <2> QED BY <2>1 DEF ClientReads, HandleAgents, HandleApproval, HandleSettled
<1>5. Asks(toDaemon', watermark)
  <2>1. /\ Attach(watermark) \in SentRequests(log, asked)
        /\ Attach(watermark).sinceSeq <= watermark
    BY <1>1, Sendable, ClientFramesDiffer
  <2>2. Asks(toDaemon, watermark)
    BY DEF HoleInv, OrderInv
  <2>3. Asks(toDaemon \o <<Attach(watermark)>>, watermark)
    BY <1>1, <2>1, <2>2, AsksOfSent
  <2> QED BY <1>4, <2>2, <2>3
<1>6. TranscriptInv'
  BY <1>2 DEF HoleInv, TranscriptInv, Stale
<1> QED BY <1>2, <1>3, <1>4, <1>5, <1>6 DEF HoleInv, OrderInv, StaleInv, Stale

LEMMA HoleUpdate ==
  ASSUME HoleInv, NEW n \in 1..UpdateBound, HandleUpdate(n)
  PROVE  OrderInv' /\ StaleInv' /\ TranscriptInv'
<1>1. /\ toClient \in Seq(SentFrames(log, asked)) /\ toDaemon \in Seq(SentRequests(log, asked))
      /\ log \in Nat /\ watermark \in Nat /\ UpdateBound \in Nat
  BY Types DEF HoleInv, LinkInv, Fields
<1>2. /\ toClient # <<>> /\ toClient' = Tail(toClient) /\ Head(toClient) = Update(n)
      /\ UNCHANGED <<log, attached, cut, watching, toDaemon>>
  BY DEF HandleUpdate, Hears, agentVars, socketVars, history
<1>3. 1 \in 1..Len(toClient) /\ toClient[1] = Update(n)
  BY <1>1, <1>2, Shifted
<1>4. ~Stale
  BY <1>3, ServerFramesDiffer DEF HoleInv, StaleInv, Has
<1>5. watermark' \in Nat /\ watermark <= watermark' /\ n <= watermark'
  BY <1>1 DEF HandleUpdate
<1>6. \A m \in Nat : Head(toClient) = Update(m) => m <= watermark'
  BY <1>2, <1>5, ServerFramesDiffer
<1>7. /\ InOrder(toClient', watermark', cut)
      /\ Complete(log, toClient, watermark, cut) => Complete(log, toClient', watermark', cut)
  BY <1>1, <1>2, <1>5, <1>6, OrderOfTail DEF HoleInv, OrderInv
<1>8. Asks(toDaemon, watermark')
  BY <1>1, <1>5, AsksLess DEF HoleInv, OrderInv
<1>9. OrderInv'
  BY <1>2, <1>7, <1>8 DEF HoleInv, OrderInv
<1>10. CASE n <= watermark
  <2>1. UNCHANGED <<watermark, held, seen>>
    BY <1>10 DEF HandleUpdate
  <2> QED BY <1>2, <1>4, <1>9, <2>1 DEF HoleInv, StaleInv, TranscriptInv, Stale
<1>11. CASE ~(n <= watermark)
  <2>1. watermark' = n /\ held' = TRUE /\ seen' = seen \cup {n}
    BY <1>11 DEF HandleUpdate
  <2>2. \A m \in 1..n-1 : m <= watermark \/ m \in cut
    <3> TAKE m \in 1..n-1
    <3>1. Accounted(m, watermark, cut, toClient, 1-1)
      BY <1>3 DEF HoleInv, OrderInv, InOrder
    <3> QED BY <3>1 DEF Accounted
  <2>3. seen \subseteq 1..watermark /\ 1..watermark \subseteq seen \cup cut
    BY <1>4 DEF HoleInv, TranscriptInv
  <2>4. seen' \subseteq 1..n /\ 1..n \subseteq seen' \cup cut
    BY <1>1, <1>11, <2>1, <2>2, <2>3
  <2> QED BY <1>2, <1>9, <2>1, <2>4 DEF StaleInv, TranscriptInv, Stale
<1> QED BY <1>10, <1>11

LEMMA HoleOperator ==
  ASSUME HoleInv, \/ SelectAgent \/ LeaveAgent \/ PruneSession
                  \/ \E q \in Questions : DecideCard(q)
  PROVE  OrderInv' /\ StaleInv' /\ TranscriptInv'
<1>1. /\ toDaemon \in Seq(SentRequests(log, asked)) /\ log \in Nat /\ watermark \in 0..log
      /\ Asks(toDaemon, watermark)
  BY Types DEF HoleInv, LinkInv, Fields, OrderInv
<1>2. ASSUME NEW f \in SentRequests(log, asked), f.t # "attach",
             UNCHANGED toDaemon \/ toDaemon' = toDaemon \o <<f>>
      PROVE  Asks(toDaemon', watermark) /\ (Has(toDaemon', "attach") => Has(toDaemon, "attach"))
  BY <1>1, <1>2, AsksOfSent, EndOfSent
<1>3. CASE SelectAgent
  <2>1. /\ UNCHANGED <<log, toClient, attached, held, seen, cut>>
        /\ watching' = TRUE /\ watermark' = IF held THEN watermark ELSE 0
        /\ UNCHANGED toDaemon \/ toDaemon' = toDaemon \o <<Attach(watermark')>>
    BY <1>3 DEF SelectAgent, Send, agentVars, socketVars, consoleVars, history
  <2>2. /\ watermark' \in 0..log /\ ~Stale'
        /\ Attach(watermark') \in SentRequests(log, asked)
        /\ Attach(watermark').sinceSeq <= watermark'
    BY <1>1, <2>1, Sendable, ClientFramesDiffer DEF Stale
  <2>3. CASE ~Stale
    <3>1. UNCHANGED watermark
      BY <1>1, <2>1, <2>3 DEF Stale
    <3>2. Asks(toDaemon', watermark)
      BY <1>1, <2>1, <2>2, <3>1, AsksOfSent
    <3> QED BY <2>1, <2>2, <2>3, <3>1, <3>2 DEF HoleInv, OrderInv, StaleInv, TranscriptInv
  <2>4. CASE Stale
    <3>1. ~attached /\ ~Has(toDaemon, "attach") /\ ~Has(toClient, "update")
          /\ watermark' = 0 /\ ~held /\ seen = {}
      BY <2>1, <2>4 DEF HoleInv, StaleInv, TranscriptInv, Stale
    <3>2. Asks(toDaemon, watermark')
      BY <3>1 DEF Has, Asks
    <3>3. Asks(toDaemon', watermark')
      BY <1>1, <2>1, <2>2, <3>2, AsksOfSent
    <3>4. InOrder(toClient, watermark', cut)
      BY <3>1, ServerFramesDiffer DEF Has, InOrder
    <3>5. OrderInv'
      BY <2>1, <3>1, <3>3, <3>4 DEF OrderInv
    <3>6. TranscriptInv'
      BY <2>1, <3>1 DEF TranscriptInv
    <3> QED BY <2>2, <3>5, <3>6 DEF StaleInv
  <2> QED BY <2>3, <2>4
<1>4. CASE LeaveAgent
  <2>1. /\ UNCHANGED <<log, toClient, attached, watermark, held, seen, cut>> /\ watching
        /\ UNCHANGED toDaemon \/ toDaemon' = toDaemon \o <<Detach>>
    BY <1>4 DEF LeaveAgent, Send, agentVars, socketVars, consoleVars, history
  <2>2. Detach \in SentRequests(log, asked) /\ Detach.t # "attach"
    BY <1>1, Sendable, ClientFramesDiffer
  <2>3. Asks(toDaemon', watermark)
    BY <1>2, <2>1, <2>2
  <2> QED BY <2>1, <2>3 DEF HoleInv, OrderInv, StaleInv, TranscriptInv, Stale
<1>5. ASSUME NEW q \in Questions, DecideCard(q)
      PROVE  OrderInv' /\ StaleInv' /\ TranscriptInv'
  <2>1. /\ UNCHANGED <<log, toClient, attached, watermark, watching, held, seen, cut>> /\ q \in cards
        /\ UNCHANGED toDaemon \/ toDaemon' = toDaemon \o <<Decide(q)>>
    BY <1>5 DEF DecideCard, Send, agentVars, socketVars, clientVars, history
  <2>2. q \in asked
    BY <2>1, Types DEF HoleInv, LinkInv, Fields
  <2>3. Decide(q) \in SentRequests(log, asked) /\ Decide(q).t # "attach"
    BY <1>1, <2>2, Sendable, ClientFramesDiffer
  <2>4. Asks(toDaemon', watermark) /\ (Has(toDaemon', "attach") => Has(toDaemon, "attach"))
    BY <1>2, <2>1, <2>3
  <2> QED BY <2>1, <2>4 DEF HoleInv, OrderInv, StaleInv, TranscriptInv, Stale
<1>6. CASE PruneSession
  <2>1. /\ ~watching /\ toClient = <<>> /\ toDaemon = <<>> /\ held' = FALSE /\ seen' = {}
        /\ UNCHANGED <<log, toClient, toDaemon, attached, watermark, watching, cut>>
    BY <1>6 DEF PruneSession, agentVars, socketVars, clientVars, history
  <2>2. ~attached
    BY <2>1, NothingSent DEF HoleInv, LinkInv, LeaveInv
  <2>3. StaleInv'
    BY <2>1, <2>2, NothingSent DEF StaleInv
  <2>4. TranscriptInv'
    BY <1>1, <2>1 DEF TranscriptInv, Stale
  <2> QED BY <2>1, <2>3, <2>4 DEF HoleInv, OrderInv
<1> QED BY <1>3, <1>4, <1>5, <1>6

LEMMA HoleInit == ASSUME Init PROVE HoleInv
<1>1. Asks(<<>>, 0) /\ InOrder(<<>>, 0, {})
  BY Few DEF Asks, InOrder
<1>2. OrderInv
  BY <1>1 DEF Init, OrderInv
<1>3. 1..0 = {}
  OBVIOUS
<1> QED BY <1>2, <1>3, LinkInit DEF Init, HoleInv, StaleInv, TranscriptInv, Stale

LEMMA HoleStep == ASSUME HoleInv, [Next]_vars PROVE HoleInv'
<1>1. SUFFICES OrderInv' /\ StaleInv' /\ TranscriptInv'
  BY LinkStep DEF HoleInv
<1>2. ASSUME NEW q \in Questions, SettledElsewhere(q)
      PROVE  OrderInv' /\ StaleInv' /\ TranscriptInv'
  BY <1>2, HoleSettle DEF SettledElsewhere
<1>3. CASE ClientReads
  BY <1>3, HoleHeard, HoleUpdate
<1>4. CASE UNCHANGED vars
  BY <1>4 DEF HoleInv, OrderInv, StaleInv, TranscriptInv, Stale,
              vars, agentVars, socketVars, clientVars, consoleVars, history
<1> QED BY <1>2, <1>3, <1>4, HoleWrites, HoleAsk, HoleReads, HoleLink, HoleOperator DEF Next

(* Whatever replays, pushes, reattachments and lost sockets interleave: up *)
(* to its watermark the transcript lacks only what a full page withheld.   *)
THEOREM HolesAreWithheld == Spec => []HolesAreCut
<1>1. Spec => []HoleInv
  BY HoleInit, HoleStep, PTL DEF Spec
<1>2. HoleInv => HolesAreCut
  BY DEF HoleInv, TranscriptInv, Stale, HolesAreCut
<1> QED BY <1>1, <1>2, PTL

(* A console in touch has the whole log: nothing is under way to it, so    *)
(* what its transcript lacks a full page withheld (what CatchesUp says     *)
(* every watched agent comes to).                                          *)
NothingMissing == InTouch => ~Behind

THEOREM TranscriptIsWhole == Spec => []NothingMissing
<1>1. Spec => []HoleInv
  BY HoleInit, HoleStep, PTL DEF Spec
<1>2. ASSUME HoleInv, InTouch PROVE 1..log \subseteq seen \cup cut
  <2>1. /\ watching /\ conn = "ready" /\ link = "open" /\ toClient = <<>> /\ toDaemon = <<>>
        /\ log \in Nat /\ watermark \in Nat
    BY <1>2, Types DEF InTouch, HoleInv, LinkInv, Fields
  <2>2. attached
    BY <1>2, <2>1, NothingSent DEF HoleInv, LinkInv, WatchInv
  <2>3. Complete(log, <<>>, watermark, cut)
    BY <1>2, <2>1, <2>2 DEF HoleInv, OrderInv
  <2>4. 1..log \subseteq 1..watermark \cup cut
    BY <2>1, <2>3, Few DEF Complete, Accounted
  <2>5. ~Stale
    BY <1>2, <2>1 DEF HoleInv, StaleInv
  <2>6. 1..watermark \subseteq seen \cup cut
    BY <1>2, <2>5 DEF HoleInv, TranscriptInv
  <2> QED BY <2>4, <2>6
<1>3. HoleInv => NothingMissing
  BY <1>2 DEF NothingMissing, Behind
<1> QED BY <1>1, <1>3, PTL

-----------------------------------------------------------------------------
(***************************************************************************)
(* The approvals on the screen.                                            *)
(***************************************************************************)

(* What takes the card of q away as the client reads it.                   *)
Hides(frame, q) ==
  \/ frame = Settled(q)
  \/ \E s \in States \ {"waiting"} : frame = Roster(s) \/ frame = Hello(s)

(* With these cards on the screen, the card of q is there once the wire is *)
(* read ...                                                                *)
Offered(q, wire, offers) ==
  \/ q \in offers /\ \A j \in 1..Len(wire) : ~Hides(wire[j], q)
  \/ \E i \in 1..Len(wire) :
       wire[i] = Approval(q) /\ \A j \in i+1..Len(wire) : ~Hides(wire[j], q)

(* ... or its answer is on its way.                                        *)
Answered(q, requests) == \E i \in 1..Len(requests) : requests[i] = Decide(q)

LEMMA NothingElseHides ==
  /\ \A n, q : ~Hides(Update(n), q)
  /\ \A p, q : ~Hides(Approval(p), q) /\ (Hides(Settled(p), q) <=> p = q)
  /\ \A s \in States : \A q : /\ Hides(Roster(s), q) <=> s # "waiting"
                             /\ Hides(Hello(s), q) <=> s # "waiting"
  /\ \A q : ~Hides(Roster("waiting"), q)
<1>1. \A n, q : ~Hides(Update(n), q)
  BY ServerFramesDiffer DEF Hides
<1>2. \A p, q : ~Hides(Approval(p), q)
  BY ServerFramesDiffer DEF Hides
<1>3. \A p, q : Hides(Settled(p), q) <=> p = q
  BY ServerFramesDiffer DEF Hides
<1>4. \A s \in States : \A q : /\ Hides(Roster(s), q) <=> s # "waiting"
                              /\ Hides(Hello(s), q) <=> s # "waiting"
  BY ServerFramesDiffer DEF Hides
<1>5. \A q : ~Hides(Roster("waiting"), q)
  BY ServerFramesDiffer DEF Hides
<1> QED BY <1>1, <1>2, <1>3, <1>4, <1>5

LEMMA OfferedOfTail ==
  ASSUME NEW S, NEW w \in Seq(S), w # <<>>, NEW q, NEW offers, NEW next, Offered(q, w, offers),
         q \in offers /\ ~Hides(Head(w), q) => q \in next,
         Head(w) = Approval(q) => q \in next
  PROVE  Offered(q, Tail(w), next)
<1> DEFINE v == Tail(w)
<1>1. /\ Len(w) \in Nat \ {0} /\ Len(v) = Len(w) - 1 /\ Head(w) = w[1]
      /\ \A i \in 1..Len(w) - 1 : v[i] = w[i+1]
  BY Shifted
<1> HIDE DEF v
<1>2. ASSUME NEW i \in 0..Len(w) - 1, \A j \in i+2..Len(w) : ~Hides(w[j], q)
      PROVE  \A j \in i+1..Len(v) : ~Hides(v[j], q)
  <2> TAKE j \in i+1..Len(v)
  <2>1. j \in 1..Len(w) - 1 /\ j+1 \in i+2..Len(w)
    BY <1>1
  <2> QED BY <1>1, <1>2, <2>1
<1>3. CASE q \in offers /\ \A j \in 1..Len(w) : ~Hides(w[j], q)
  <2>1. q \in next
    BY <1>1, <1>3
  <2>2. \A j \in 0+1..Len(v) : ~Hides(v[j], q)
    BY <1>1, <1>2, <1>3
  <2> QED BY <2>1, <2>2 DEF Offered, v
<1>4. ASSUME NEW i \in 1..Len(w), w[i] = Approval(q), \A j \in i+1..Len(w) : ~Hides(w[j], q)
      PROVE  Offered(q, v, next)
  <2>1. i - 1 \in 0..Len(w) - 1 /\ \A j \in (i-1)+1..Len(v) : ~Hides(v[j], q)
    <3>1. i - 1 \in 0..Len(w) - 1 /\ (i-1)+2 = i+1
      BY <1>1
    <3> QED BY <1>2, <1>4, <3>1
  <2>2. CASE i = 1
    BY <1>1, <1>4, <2>1, <2>2 DEF Offered
  <2>3. CASE i # 1
    <3>1. i - 1 \in 1..Len(v) /\ v[i-1] = Approval(q)
      BY <1>1, <1>4, <2>3
    <3> QED BY <2>1, <3>1 DEF Offered
  <2> QED BY <2>2, <2>3
<1> QED BY <1>3, <1>4 DEF Offered, v

LEMMA OfferedOfSent ==
  ASSUME NEW S, NEW w \in Seq(S), NEW F \in Seq(S), NEW q, NEW offers,
         \A i \in 1..Len(F) : ~Hides(F[i], q),
         Offered(q, w, offers) \/ \E i \in 1..Len(F) : F[i] = Approval(q)
  PROVE  Offered(q, w \o F, offers)
<1> DEFINE v == w \o F
<1>1. /\ Len(w) \in Nat /\ Len(F) \in Nat /\ Len(v) = Len(w) + Len(F)
      /\ \A i \in 1..Len(w) : v[i] = w[i]
      /\ \A i \in 1..Len(F) : v[Len(w) + i] = F[i]
      /\ \A i \in Len(w)+1..Len(w) + Len(F) : v[i] = F[i - Len(w)]
  BY Joined
<1> HIDE DEF v
<1>2. \A i \in Len(w)+1..Len(v) : ~Hides(v[i], q)
  <2> TAKE i \in Len(w)+1..Len(v)
  <2>1. i - Len(w) \in 1..Len(F) /\ v[i] = F[i - Len(w)]
    BY <1>1
  <2> QED BY <2>1
<1>3. CASE q \in offers /\ \A j \in 1..Len(w) : ~Hides(w[j], q)
  <2>1. \A j \in 1..Len(v) : ~Hides(v[j], q)
    BY <1>1, <1>2, <1>3
  <2> QED BY <1>3, <2>1 DEF Offered, v
<1>4. ASSUME NEW i \in 1..Len(w), w[i] = Approval(q), \A j \in i+1..Len(w) : ~Hides(w[j], q)
      PROVE  Offered(q, v, offers)
  <2>1. i \in 1..Len(v) /\ v[i] = Approval(q)
    BY <1>1, <1>4
  <2>2. ASSUME NEW j \in i+1..Len(v) PROVE ~Hides(v[j], q)
    <3>1. CASE j \in i+1..Len(w)
      <4>1. j \in 1..Len(w)
        BY <3>1
      <4> QED BY <1>1, <1>4, <3>1, <4>1
    <3>2. CASE j \in Len(w)+1..Len(v)
      BY <1>2, <3>2
    <3> QED BY <1>1, <3>1, <3>2
  <2> QED BY <2>1, <2>2 DEF Offered
<1>5. ASSUME NEW i \in 1..Len(F), F[i] = Approval(q) PROVE Offered(q, v, offers)
  <2>1. Len(w) + i \in 1..Len(v) /\ v[Len(w) + i] = Approval(q)
    BY <1>1, <1>5
  <2>2. \A j \in (Len(w) + i)+1..Len(v) : ~Hides(v[j], q)
    BY <1>1, <1>2
  <2> QED BY <2>1, <2>2 DEF Offered
<1> QED BY <1>3, <1>4, <1>5 DEF Offered, v

LEMMA AnsweredOfTail ==
  ASSUME NEW S, NEW w \in Seq(S), w # <<>>, NEW q, Answered(q, w)
  PROVE  Head(w) = Decide(q) \/ Answered(q, Tail(w))
<1>1. PICK i \in 1..Len(w) : w[i] = Decide(q)
  BY DEF Answered
<1>2. CASE i = 1
  BY <1>1, <1>2, Shifted
<1>3. CASE i # 1
  <2>1. i - 1 \in 1..Len(Tail(w)) /\ Tail(w)[i-1] = Decide(q)
    BY <1>1, <1>3, Shifted
  <2> QED BY <2>1 DEF Answered
<1> QED BY <1>2, <1>3

LEMMA AnsweredOfSent ==
  ASSUME NEW S, NEW w \in Seq(S), NEW f \in S, NEW q, Answered(q, w) \/ f = Decide(q)
  PROVE  Answered(q, w \o <<f>>)
<1>1. /\ Len(w) \in Nat /\ Len(w \o <<f>>) = Len(w) + 1
      /\ \A i \in 1..Len(w) : (w \o <<f>>)[i] = w[i]
      /\ (w \o <<f>>)[Len(w) + 1] = f
  BY Joined, Few
<1> QED BY <1>1 DEF Answered

(* An attached socket was shown all that is pending; what no roster hid is *)
(* on its way to the screen, on it, or answered.                           *)
CardsInv ==
  attached => /\ open \subseteq shown
              /\ \A q \in open \ eclipsed :
                   Offered(q, toClient, cards) \/ Answered(q, toDaemon)

ShownInv == LinkInv /\ CardsInv

(* The gateway pushes frames, or would, and what hides a card is entered.  *)
LEMMA ShownPushed ==
  ASSUME ShownInv, NEW l \in Nat, log <= l, NEW A, asked \subseteq A,
         NEW F \in Seq(SentFrames(l, A)),
         toClient' = IF attached THEN toClient \o F ELSE toClient,
         UNCHANGED <<attached, cards>>,
         attached => open' \subseteq shown',
         UNCHANGED toDaemon
           \/ (toDaemon # <<>> /\ toDaemon' = Tail(toDaemon)
                /\ \A q \in open' : Head(toDaemon) # Decide(q)),
         attached => \A q \in open' \ eclipsed' :
            /\ \A i \in 1..Len(F) : ~Hides(F[i], q)
            /\ q \in open \ eclipsed \/ \E i \in 1..Len(F) : F[i] = Approval(q)
  PROVE  CardsInv'
<1>1. /\ toClient \in Seq(SentFrames(log, asked)) /\ toDaemon \in Seq(SentRequests(log, asked))
      /\ log \in Nat
  BY Types DEF ShownInv, LinkInv
<1>2. toClient \in Seq(SentFrames(l, A))
  BY <1>1, SentGrow
<1> SUFFICES ASSUME attached, NEW q \in open' \ eclipsed'
             PROVE  Offered(q, toClient', cards) \/ Answered(q, toDaemon')
  BY DEF CardsInv
<1>3. CASE q \in open \ eclipsed
  <2>1. CASE Offered(q, toClient, cards)
    BY <1>2, <2>1, OfferedOfSent
  <2>2. CASE Answered(q, toDaemon)
    BY <1>1, <2>2, AnsweredOfTail
  <2> QED BY <1>3, <2>1, <2>2 DEF ShownInv, CardsInv
<1>4. CASE \E i \in 1..Len(F) : F[i] = Approval(q)
  BY <1>2, <1>4, OfferedOfSent
<1> QED BY <1>3, <1>4

LEMMA ShownWrites ==
  ASSUME ShownInv, Output \/ Prompt \/ TurnEnds \/ AgentEnds
  PROVE  CardsInv'
<1>1. log \in Nat /\ UpdateBound \in Nat
  BY Types DEF ShownInv, LinkInv
<1>2. UNCHANGED <<attached, open, shown, asked, toDaemon, cards>>
  BY DEF Output, Prompt, TurnEnds, AgentEnds, socketVars, consoleVars
<1>3. CASE Output
  <2> DEFINE F == <<Update(log + 1)>>
  <2>1. log' = log + 1 /\ UNCHANGED eclipsed /\ toClient' = IF attached THEN toClient \o F ELSE toClient
    BY <1>3 DEF Output, AppendUpdate, Push, history
  <2>2. Update(log + 1) \in SentFrames(log + 1, asked)
    BY <1>1, Sendable
  <2>3. F \in Seq(SentFrames(log + 1, asked)) /\ Len(F) = 1 /\ F[1] = Update(log + 1)
    BY <2>2, Few
  <2> HIDE DEF F
  <2>4. \A i \in 1..Len(F), q \in open : ~Hides(F[i], q)
    BY <2>3, NothingElseHides
  <2>5. attached => open' \subseteq shown'
    BY <1>2 DEF ShownInv, CardsInv
  <2>6. log + 1 \in Nat /\ log <= log + 1 /\ asked \subseteq asked
    BY <1>1
  <2>7. \A q \in open' \ eclipsed' :
          /\ \A i \in 1..Len(F) : ~Hides(F[i], q)
          /\ q \in open \ eclipsed \/ \E i \in 1..Len(F) : F[i] = Approval(q)
    BY <1>2, <2>1, <2>4
  <2> QED BY <1>2, <2>1, <2>3, <2>5, <2>6, <2>7, ShownPushed
<1>4. ASSUME NEW s \in States \ {"waiting"}, Announce(s, open) PROVE CardsInv'
  <2>1. attached => open' \subseteq eclipsed'
    BY <1>2, <1>4 DEF Announce
  <2> QED BY <1>2, <2>1 DEF ShownInv, CardsInv
<1>5. CASE Prompt
  BY <1>4, <1>5 DEF Prompt, States
<1>6. CASE TurnEnds
  BY <1>4, <1>6 DEF TurnEnds, States
<1>7. CASE AgentEnds
  BY <1>4, <1>7 DEF AgentEnds, States
<1> QED BY <1>3, <1>5, <1>6, <1>7

LEMMA ShownAsk ==
  ASSUME ShownInv, NEW q \in Questions, Ask(q)
  PROVE  CardsInv'
<1> DEFINE F == IF q \in shown THEN <<Roster("waiting")>> ELSE <<Roster("waiting"), Approval(q)>>
           A == asked \cup {q}
<1>1. log \in Nat
  BY Types DEF ShownInv, LinkInv
<1>2. /\ UNCHANGED <<attached, cards, toDaemon>>
      /\ eclipsed' = IF q \in shown THEN eclipsed \cup {q} ELSE eclipsed
      /\ open' = open \cup {q} /\ shown' = IF attached THEN shown \cup {q} ELSE shown
      /\ toClient' = IF attached THEN toClient \o F ELSE toClient
  BY DEF Ask, Push, consoleVars, history
<1>3. Roster("waiting") \in SentFrames(log, A) /\ Approval(q) \in SentFrames(log, A)
  BY <1>1, Sendable DEF States
<1>4. /\ F \in Seq(SentFrames(log, A))
      /\ \A i \in 1..Len(F) : F[i] \in {Roster("waiting"), Approval(q)}
      /\ q \notin shown => \E i \in 1..Len(F) : F[i] = Approval(q)
  <2>1. CASE q \in shown
    BY <1>3, <2>1, Few
  <2>2. CASE q \notin shown
    <3>1. F \in Seq(SentFrames(log, A)) /\ Len(F) = 2 /\ F[1] = Roster("waiting") /\ F[2] = Approval(q)
      BY <1>3, <2>2, Few
    <3> QED BY <3>1
  <2> QED BY <2>1, <2>2
<1> HIDE DEF F
<1>5. \A i \in 1..Len(F), p \in open' : ~Hides(F[i], p)
  BY <1>4, NothingElseHides
<1>6. attached => open' \subseteq shown'
  BY <1>2 DEF ShownInv, CardsInv
<1>7. \A p \in open' \ eclipsed' :
        /\ \A i \in 1..Len(F) : ~Hides(F[i], p)
        /\ p \in open \ eclipsed \/ \E i \in 1..Len(F) : F[i] = Approval(p)
  BY <1>2, <1>4, <1>5
<1>8. log <= log /\ asked \subseteq A
  BY <1>1
<1> HIDE DEF A
<1> QED BY <1>1, <1>2, <1>4, <1>6, <1>7, <1>8, ShownPushed

(* Another approval keeps its card unless the state that is restored hides *)
(* it.                                                                     *)
LEMMA ShownSettle ==
  ASSUME ShownInv, NEW q \in open, Settle(q),
         UNCHANGED toDaemon
           \/ (toDaemon # <<>> /\ toDaemon' = Tail(toDaemon) /\ Head(toDaemon) = Decide(q))
  PROVE  CardsInv'
<1>1. /\ UNCHANGED <<attached, shown, cards>> /\ open' = open \ {q}
      /\ eclipsed' = (eclipsed \cap open')
            \cup (IF attached /\ (IF row = "waiting" THEN before[q] ELSE "waiting") # "waiting"
                    THEN open' ELSE {})
      /\ toClient' = IF attached
           THEN toClient \o ((IF row = "waiting" THEN <<Roster(before[q])>> ELSE <<>>) \o <<Settled(q)>>)
           ELSE toClient
  BY DEF Settle, Announce, Push, socketVars, consoleVars
<1>2. q \in asked /\ before[q] \in States /\ log \in Nat
  BY Types DEF Fields, ShownInv, LinkInv
<1>3. CASE row = "waiting" /\ before[q] # "waiting"
  BY <1>1, <1>3 DEF ShownInv, CardsInv
<1>4. CASE ~(row = "waiting" /\ before[q] # "waiting")
  <2>1. Settled(q) \in SentFrames(log, asked) /\ Roster("waiting") \in SentFrames(log, asked)
    BY <1>2, Sendable DEF States
  <2>2. \A p \in open' : ~Hides(Settled(q), p) /\ ~Hides(Roster("waiting"), p)
    BY <1>1, NothingElseHides
  <2>3. /\ <<>> \o <<Settled(q)>> \in Seq(SentFrames(log, asked))
        /\ \A p \in open', i \in 1..Len(<<>> \o <<Settled(q)>>) : ~Hides((<<>> \o <<Settled(q)>>)[i], p)
    <3>1. <<>> \o <<Settled(q)>> = <<Settled(q)>>
      BY <2>1, Few, ConcatEmptySeq
    <3> QED BY <2>1, <2>2, <3>1, Few
  <2>4. ASSUME NEW r, r = Roster("waiting")
        PROVE  /\ <<r>> \o <<Settled(q)>> \in Seq(SentFrames(log, asked))
               /\ \A p \in open', i \in 1..Len(<<r>> \o <<Settled(q)>>) :
                    ~Hides((<<r>> \o <<Settled(q)>>)[i], p)
    BY <2>1, <2>2, <2>4, Few, Joined
  <2>5. PICK F \in Seq(SentFrames(log, asked)) :
          /\ \A p \in open', i \in 1..Len(F) : ~Hides(F[i], p)
          /\ toClient' = IF attached THEN toClient \o F ELSE toClient
    BY <1>1, <1>4, <2>3, <2>4
  <2>6. /\ attached => open' \subseteq shown'
        /\ \A p \in open' \ eclipsed' : p \in open \ eclipsed
    BY <1>1 DEF ShownInv, CardsInv
  <2>7. UNCHANGED toDaemon
          \/ (toDaemon # <<>> /\ toDaemon' = Tail(toDaemon)
               /\ \A p \in open' : Head(toDaemon) # Decide(p))
    BY <1>1, ClientFramesDiffer
  <2>8. \A p \in open' \ eclipsed' :
          /\ \A i \in 1..Len(F) : ~Hides(F[i], p)
          /\ p \in open \ eclipsed \/ \E i \in 1..Len(F) : F[i] = Approval(p)
    BY <2>5, <2>6
  <2>9. log <= log /\ asked \subseteq asked
    BY <1>2
  <2> QED BY <1>1, <1>2, <2>5, <2>6, <2>7, <2>8, <2>9, ShownPushed
<1> QED BY <1>3, <1>4

LEMMA ShownAttach ==
  ASSUME ShownInv, NEW since \in 0..UpdateBound, HandleAttach(since)
  PROVE  CardsInv'
<1> DEFINE S == SentFrames(log, asked)
           R == Replayed(since)
           w == toClient \o R
<1>1. /\ TypeInv /\ toClient \in Seq(S) /\ toDaemon \in Seq(SentRequests(log, asked))
      /\ log \in Nat /\ delivered \in 0..log
  BY Types DEF ShownInv, LinkInv, Fields
<1>2. /\ toDaemon # <<>> /\ Head(toDaemon) = Attach(since) /\ toDaemon' = Tail(toDaemon)
      /\ toClient' = w \o Unshown /\ UNCHANGED <<open, cards>>
      /\ shown' = shown \cup open /\ eclipsed' = eclipsed \cap shown
  BY DEF HandleAttach, Reads, agentVars, consoleVars
<1>3. since \in 0..log
  BY <1>1, <1>2, Shifted, SentSay
<1>4. R \in Seq(S) /\ \A q : \A i \in 1..Len(R) : ~Hides(R[i], q)
  BY <1>1, <1>3, PageType, NothingElseHides
<1>5. /\ Unshown \in Seq(S)
      /\ \A q : \A i \in 1..Len(Unshown) : ~Hides(Unshown[i], q)
      /\ \A q \in open \ shown : \E i \in 1..Len(Unshown) : Unshown[i] = Approval(q)
  BY <1>1, UnshownType, NothingElseHides
<1>6. w \in Seq(S)
  BY <1>1, <1>4, Joined
<1> SUFFICES ASSUME NEW q \in open \ (eclipsed \cap shown)
             PROVE  Offered(q, toClient', cards) \/ Answered(q, toDaemon')
  BY <1>2 DEF CardsInv
<1>7. CASE q \in shown
  <2>1. Offered(q, toClient, cards) \/ Answered(q, toDaemon)
    BY <1>7 DEF ShownInv, LinkInv, SocketInv, CardsInv
  <2>2. CASE Offered(q, toClient, cards)
    <3>1. Offered(q, w, cards)
      BY <1>1, <1>4, <2>2, OfferedOfSent
    <3> HIDE DEF w
    <3>2. Offered(q, w \o Unshown, cards)
      BY <1>5, <1>6, <3>1, OfferedOfSent
    <3> QED BY <1>2, <3>2
  <2>3. CASE Answered(q, toDaemon)
    BY <1>1, <1>2, <2>3, AnsweredOfTail, ClientFramesDiffer
  <2> QED BY <2>1, <2>2, <2>3
<1>8. CASE q \notin shown
  <2> HIDE DEF w
  <2>1. Offered(q, w \o Unshown, cards)
    BY <1>5, <1>6, <1>8, OfferedOfSent
  <2> QED BY <1>2, <2>1
<1> QED BY <1>7, <1>8

LEMMA ShownReads == ASSUME ShownInv, DaemonReads PROVE CardsInv'
<1>1. CASE HandleDetach
  BY <1>1 DEF HandleDetach, CardsInv
<1>2. ASSUME NEW q \in Questions, HandleDecide(q) PROVE CardsInv'
  <2>1. toDaemon # <<>> /\ toDaemon' = Tail(toDaemon) /\ Head(toDaemon) = Decide(q)
    BY <1>2 DEF HandleDecide, Reads
  <2>2. CASE q \in open /\ Settle(q)
    BY <2>1, <2>2, ShownSettle
  <2>3. CASE /\ q \notin open
             /\ UNCHANGED <<agentVars, socketVars, toClient, link, faults, clientVars, consoleVars, history>>
    <3>1. UNCHANGED <<open, attached, shown, toClient, cards, eclipsed>>
      BY <2>3 DEF agentVars, socketVars, consoleVars, history
    <3>2. \A p \in open : Answered(p, toDaemon) => Answered(p, toDaemon')
      <4>1. toDaemon \in Seq(SentRequests(log, asked))
        BY Types DEF ShownInv, LinkInv
      <4> QED BY <2>1, <2>3, <4>1, AnsweredOfTail, ClientFramesDiffer
    <3> QED BY <3>1, <3>2 DEF ShownInv, CardsInv
  <2> QED BY <1>2, <2>2, <2>3 DEF HandleDecide
<1> QED BY <1>1, <1>2, ShownAttach DEF DaemonReads

LEMMA ShownLink ==
  ASSUME ShownInv, Break \/ LinkDies \/ PongMissed \/ OpenSocket \/ SocketOpens
  PROVE  CardsInv'
<1>1. CASE Break \/ LinkDies
  BY <1>1 DEF Break, LinkDies, SocketGone, CardsInv
<1>2. CASE PongMissed \/ OpenSocket \/ SocketOpens
  <2>1. ~Usable /\ UNCHANGED attached
    BY <1>2 DEF PongMissed, OpenSocket, SocketOpens, Usable, socketVars
  <2> QED BY <2>1 DEF ShownInv, LinkInv, SocketInv, CardsInv
<1> QED BY <1>1, <1>2

(* The client has read a frame: what it does to the cards is what the      *)
(* frame hides or brings.                                                  *)
LEMMA ShownHeard == ASSUME ShownInv, ClientReads PROVE CardsInv'
<1>1. /\ toClient \in Seq(SentFrames(log, asked)) /\ toDaemon \in Seq(SentRequests(log, asked))
      /\ log \in Nat /\ watermark \in 0..log
  BY Types DEF ShownInv, LinkInv, Fields
<1>2. SUFFICES /\ toClient # <<>> /\ toClient' = Tail(toClient)
               /\ UNCHANGED <<attached, shown, open, eclipsed>>
               /\ UNCHANGED toDaemon \/ toDaemon' = toDaemon \o <<Attach(watermark)>>
               /\ \A q : /\ q \in cards /\ ~Hides(Head(toClient), q) => q \in cards'
                         /\ Head(toClient) = Approval(q) => q \in cards'
  <2> SUFFICES ASSUME attached, NEW q \in open \ eclipsed
               PROVE  Offered(q, toClient', cards') \/ Answered(q, toDaemon')
    BY <1>2 DEF ShownInv, CardsInv
  <2>1. CASE Offered(q, toClient, cards)
    BY <1>1, <1>2, <2>1, OfferedOfTail
  <2>2. CASE Answered(q, toDaemon)
    <3>1. Attach(watermark) \in SentRequests(log, asked)
      BY <1>1, Sendable
    <3> QED BY <1>1, <1>2, <2>2, <3>1, AnsweredOfSent
  <2> QED BY <2>1, <2>2 DEF ShownInv, CardsInv
<1>3. ASSUME NEW s \in States, HandleHello(s) \/ HandleAgents(s)
      PROVE  /\ toClient # <<>> /\ toClient' = Tail(toClient)
             /\ UNCHANGED <<attached, shown, open, eclipsed>>
             /\ UNCHANGED toDaemon \/ toDaemon' = toDaemon \o <<Attach(watermark)>>
             /\ \A q : /\ q \in cards /\ ~Hides(Head(toClient), q) => q \in cards'
                       /\ Head(toClient) = Approval(q) => q \in cards'
  <2>1. /\ toClient # <<>> /\ toClient' = Tail(toClient)
        /\ Head(toClient) \in {Hello(s), Roster(s)}
        /\ cards' = IF s = "waiting" THEN cards ELSE {}
        /\ UNCHANGED <<attached, shown, open, eclipsed>>
    BY <1>3 DEF HandleHello, HandleAgents, Hears, ClearStaleClearances, agentVars, socketVars, history
  <2>2. UNCHANGED toDaemon \/ toDaemon' = toDaemon \o <<Attach(watermark)>>
    BY <1>1, <1>3, ConcatEmptySeq DEF HandleHello, HandleAgents, Send
  <2>3. \A q : Head(toClient) # Approval(q) /\ (s # "waiting" => Hides(Head(toClient), q))
    BY <2>1, ServerFramesDiffer, NothingElseHides
  <2> QED BY <2>1, <2>2, <2>3
<1>4. ASSUME NEW n \in 1..UpdateBound, HandleUpdate(n)
      PROVE  /\ toClient # <<>> /\ toClient' = Tail(toClient)
             /\ UNCHANGED <<attached, shown, open, eclipsed, toDaemon>>
             /\ \A q : /\ q \in cards /\ ~Hides(Head(toClient), q) => q \in cards'
                       /\ Head(toClient) = Approval(q) => q \in cards'
  BY <1>4, ServerFramesDiffer DEF HandleUpdate, Hears, agentVars, socketVars, history
<1>5. ASSUME NEW p \in Questions, HandleApproval(p) \/ HandleSettled(p)
      PROVE  /\ toClient # <<>> /\ toClient' = Tail(toClient)
             /\ UNCHANGED <<attached, shown, open, eclipsed, toDaemon>>
             /\ \A q : /\ q \in cards /\ ~Hides(Head(toClient), q) => q \in cards'
                       /\ Head(toClient) = Approval(q) => q \in cards'
  <2>1. CASE HandleApproval(p)
    BY <2>1, ServerFramesDiffer DEF HandleApproval, Hears, agentVars, socketVars, history
  <2>2. CASE HandleSettled(p)
    BY <2>2, ServerFramesDiffer, NothingElseHides DEF HandleSettled, Hears, agentVars, socketVars, history
  <2> QED BY <1>5, <2>1, <2>2
<1> QED BY <1>3, <1>4, <1>5 DEF ClientReads

LEMMA ShownOperator ==
  ASSUME ShownInv, \/ SelectAgent \/ LeaveAgent \/ PruneSession
                   \/ \E q \in Questions : DecideCard(q)
  PROVE  CardsInv'
<1>1. /\ toDaemon \in Seq(SentRequests(log, asked)) /\ log \in Nat /\ watermark \in 0..log
      /\ cards \subseteq asked
  BY Types DEF ShownInv, LinkInv, Fields
<1>2. CASE SelectAgent \/ LeaveAgent
  <2>1. UNCHANGED <<attached, shown, open, eclipsed, toClient, cards>>
    BY <1>2 DEF SelectAgent, LeaveAgent, agentVars, socketVars, consoleVars, history
  <2>2. PICK f \in SentRequests(log, asked) : UNCHANGED toDaemon \/ toDaemon' = toDaemon \o <<f>>
    <3>1. CASE SelectAgent
      <4>1. watermark' \in 0..log
        BY <1>1, <3>1 DEF SelectAgent
      <4>2. Attach(watermark') \in SentRequests(log, asked)
        BY <1>1, <4>1, Sendable
      <4> QED BY <3>1, <4>2 DEF SelectAgent, Send
    <3>2. CASE LeaveAgent
      BY <1>1, <3>2, Sendable DEF LeaveAgent, Send
    <3> QED BY <1>2, <3>1, <3>2
  <2>3. \A q : Answered(q, toDaemon) => Answered(q, toDaemon')
    BY <1>1, <2>2, AnsweredOfSent
  <2> QED BY <2>1, <2>3 DEF ShownInv, CardsInv
<1>3. CASE PruneSession
  <2>1. ~watching /\ toDaemon = <<>> /\ UNCHANGED attached
    BY <1>3 DEF PruneSession, socketVars
  <2> QED BY <2>1, NothingSent DEF ShownInv, LinkInv, LeaveInv, CardsInv
<1>4. ASSUME NEW p \in Questions, DecideCard(p) PROVE CardsInv'
  <2>1. /\ UNCHANGED <<attached, shown, open, eclipsed, toClient>>
        /\ p \in cards /\ cards' = cards \ {p}
        /\ toDaemon' = IF Usable THEN toDaemon \o <<Decide(p)>> ELSE toDaemon
    BY <1>4 DEF DecideCard, Send, Usable, agentVars, socketVars, history
  <2> SUFFICES ASSUME attached, NEW q \in open \ eclipsed
               PROVE  Offered(q, toClient, cards') \/ Answered(q, toDaemon')
    BY <2>1 DEF ShownInv, CardsInv
  <2>2. toDaemon' = toDaemon \o <<Decide(p)>> /\ Decide(p) \in SentRequests(log, asked)
    BY <1>1, <2>1, Sendable DEF ShownInv, LinkInv, SocketInv
  <2>3. CASE q = p \/ Answered(q, toDaemon)
    BY <1>1, <2>2, <2>3, AnsweredOfSent
  <2>4. CASE q # p /\ Offered(q, toClient, cards)
    BY <2>1, <2>4 DEF Offered
  <2> QED BY <2>3, <2>4 DEF ShownInv, CardsInv
<1> QED BY <1>2, <1>3, <1>4

LEMMA ShownStep == ASSUME ShownInv, [Next]_vars PROVE ShownInv'
<1>1. SUFFICES CardsInv'
  BY LinkStep DEF ShownInv
<1>2. ASSUME NEW q \in Questions, SettledElsewhere(q) PROVE CardsInv'
  BY <1>2, ShownSettle DEF SettledElsewhere
<1>3. CASE UNCHANGED vars
  BY <1>3 DEF ShownInv, CardsInv, vars, agentVars, socketVars, consoleVars, history
<1> QED BY <1>2, <1>3, ShownWrites, ShownAsk, ShownReads, ShownLink, ShownHeard, ShownOperator DEF Next

(* However often the socket was lost, what waits for an answer is on the   *)
(* screen of a console in touch, unless a roster frame hid it.             *)
THEOREM OpenAreShown == Spec => []OpenIsShown
<1>1. Init => ShownInv
  BY LinkInit DEF Init, ShownInv, CardsInv
<1>2. Spec => []ShownInv
  BY <1>1, ShownStep, PTL DEF Spec
<1>3. ShownInv => OpenIsShown
  <2> SUFFICES ASSUME ShownInv, InTouch, NEW q \in open \ eclipsed PROVE q \in cards
    BY DEF OpenIsShown
  <2>1. attached
    BY NothingSent DEF InTouch, ShownInv, LinkInv, WatchInv
  <2>2. Len(toClient) = 0 /\ Len(toDaemon) = 0
    BY Few DEF InTouch
  <2> QED BY <2>1, <2>2 DEF ShownInv, CardsInv, Offered, Answered
<1> QED BY <1>2, <1>3, PTL
=============================================================================
