----------------------------- MODULE NodeProofs -----------------------------
(***************************************************************************)
(* Theorems about Node, for any number of calls, of other nodes and of      *)
(* sessions.                                                                *)
(***************************************************************************)
EXTENDS NodeProps, TLAPS

USE NodeAssumption, NothingAssumption

-----------------------------------------------------------------------------
(* The inductive invariant. *)

\* A call was made to somebody, and only such calls are on their way.
Addressed == /\ \A k \in Calls : IF step[k] = "idle" THEN to[k] = None
                                                   ELSE to[k] \in Peers
             /\ \A k \in outbox \cup asked : step[k] # "idle"

\* The turn is held from taking it until the call is back.
TurnIsHeld ==
    \A k \in Calls : step[k] \in {"up", "arm", "send", "await"} <=> turn = k

\* What is outstanding is a call somebody made, awaited from whom it asked.
WaitingIsAsked ==
    waiting # None => /\ step[waiting.call] # "idle"
                      /\ waiting.who = to[waiting.call]

\* An armed call is the outstanding one until something is handed over to it.
ArmedIsWaiting ==
    \A k \in Calls : step[k] \in {"send", "await"} /\ result[k] = None =>
                        waiting = [who |-> to[k], call |-> k]

\* A call waits on a session that has a writer, or has yet to fail it.
SessionOrFailure ==
    \A k \in Calls : At(k, "await") /\ result[k] = None =>
                        tx \/ driver \in {"endUp", "endWaiting"}

\* A writer is there only while the session that made it is.
WriterOfSession == tx => driver \in {"session", "welcomed", "endTx"}

\* An answer that came back came from the one asked.
FromTheAsked ==
    \A k \in Calls : result[k] \in Frames =>
                        result[k] # Welcome /\ result[k].from = to[k]

\* Nothing is handed to a call that has not armed.
NothingEarly ==
    \A k \in Calls : result[k] # None => step[k] \in {"send", "await", "back"}

Inv == /\ TypeOK
       /\ Addressed
       /\ TurnIsHeld
       /\ WaitingIsAsked
       /\ ArmedIsWaiting
       /\ SessionOrFailure
       /\ WriterOfSession
       /\ FromTheAsked
       /\ NothingEarly

\* A call's own ways to fail are no frames.
LEMMA FailuresAreNoFrames == /\ Changed \in Results /\ Changed \notin Frames
                             /\ TimedOut \in Results /\ TimedOut \notin Frames
                             /\ Changed # None /\ TimedOut # None
                             /\ Frames \subseteq Results
BY DEF Changed, TimedOut, Frames, Results, Welcome

\* An answer or a refusal names the one that was asked.
LEMMA AnswerType == ASSUME NEW k \in Calls, to[k] \in Peers
                    PROVE  Answer(k) \in Frames /\ NoRoute(k) \in Frames
BY DEF Answer, NoRoute, Frames

LEMMA InitInv == Init => Inv
<1> SUFFICES ASSUME Init
             PROVE  Inv
  OBVIOUS
<1>1. TypeOK
  <2>1. cuts \in 0..MaxCuts
    BY DEF Init
  <2>2. inbox \in Seq(Frames) /\ result \in [Calls -> Results]
    BY DEF Init, Results
  <2>3. QED
    BY <2>1, <2>2 DEF Init, TypeOK
<1>2. Addressed /\ TurnIsHeld /\ WaitingIsAsked /\ ArmedIsWaiting
  BY DEF Init, Addressed, TurnIsHeld, WaitingIsAsked, ArmedIsWaiting
<1>3. SessionOrFailure /\ WriterOfSession /\ FromTheAsked /\ NothingEarly
  BY DEF Init, SessionOrFailure, WriterOfSession, FromTheAsked, NothingEarly, At
<1>4. QED
  BY <1>1, <1>2, <1>3 DEF Inv

\* The end of a call: it gives back the turn, and nothing outstanding is lost
\* but its own.
LEMMA BackInv ==
    ASSUME Inv, NEW k \in Calls, step[k] \in {"turn", "up", "send", "await"},
           NEW r \in Results, r # None,
           r \in Frames => r # Welcome /\ r.from = to[k],
           Back(k, r),
           waiting' = waiting \/ (turn = k /\ waiting' = None),
           UNCHANGED <<tx, up, driver, wire>>
    PROVE  Inv'
<1> USE DEF Inv, TypeOK, Back, Goto, At, wire
<1>1. TypeOK'
  OBVIOUS
<1>2. Addressed' /\ TurnIsHeld' /\ WaitingIsAsked' /\ WriterOfSession' /\ NothingEarly'
  BY DEF Addressed, TurnIsHeld, WaitingIsAsked, WriterOfSession, NothingEarly
<1>3. ArmedIsWaiting' /\ SessionOrFailure' /\ FromTheAsked'
  BY DEF ArmedIsWaiting, SessionOrFailure, FromTheAsked, TurnIsHeld
<1>4. QED
  BY <1>1, <1>2, <1>3

\* Handing r over keeps the invariant, whatever the driver does besides.
LEMMA HandOverInv ==
    ASSUME Inv, waiting # None, NEW r \in Results, r # None,
           r \in Frames => r # Welcome /\ r.from = waiting.who,
           HandOver(r), UNCHANGED <<caller, tx, up, outbox, greeted, cut, cuts, asked>>,
           inbox' \in Seq(Frames),
           driver' \in {"dial", "session"}, tx => driver' = "session"
    PROVE  Inv'
<1> USE DEF Inv, TypeOK, HandOver, At, caller
<1>1. TypeOK'
  OBVIOUS
<1>2. Addressed' /\ TurnIsHeld' /\ WaitingIsAsked' /\ WriterOfSession' /\ NothingEarly'
  BY DEF Addressed, TurnIsHeld, WaitingIsAsked, WriterOfSession, NothingEarly
<1>3. ArmedIsWaiting' /\ SessionOrFailure' /\ FromTheAsked'
  BY DEF ArmedIsWaiting, SessionOrFailure, FromTheAsked, WaitingIsAsked
<1>4. QED
  BY <1>1, <1>2, <1>3

LEMMA StepInv == Inv /\ [Next]_vars => Inv'
<1> SUFFICES ASSUME Inv, [Next]_vars
             PROVE  Inv'
  OBVIOUS
<1> USE DEF Inv, TypeOK, Waiters, At, Goto, caller, shared, wire
<1> USE DEF Addressed, TurnIsHeld, WaitingIsAsked, ArmedIsWaiting, SessionOrFailure,
            WriterOfSession, FromTheAsked, NothingEarly
<1>1. CASE UNCHANGED vars
  BY <1>1 DEF vars
<1>2. ASSUME NEW k \in Calls, NEW p \in Peers, Call(k, p)
      PROVE  Inv'
  BY <1>2 DEF Call
<1>3. ASSUME NEW k \in Calls, Caller(k) \/ Timeout(k)
      PROVE  Inv'
  <2>1. CASE TakeTurn(k)
    BY <2>1 DEF TakeTurn
  <2>2. CASE SeeUp(k)
    BY <2>2 DEF SeeUp
  <2>3. CASE Arm(k)
    BY <2>3 DEF Arm
  <2>4. CASE Send(k)
    BY <2>4 DEF Send
  <2>5. CASE SendFails(k)
    BY <2>5, BackInv, FailuresAreNoFrames DEF SendFails
  <2>6. CASE Return(k)
    BY <2>6, BackInv DEF Return
  <2>7. CASE Timeout(k)
    BY <2>7, BackInv, FailuresAreNoFrames DEF Timeout
  <2>8. QED
    BY <1>3, <2>1, <2>2, <2>3, <2>4, <2>5, <2>6, <2>7 DEF Caller
<1>4. CASE Driver
  <2>1. CASE Dial
    BY <2>1 DEF Dial
  <2>2. CASE Read
    <3>1. Head(inbox) \in Frames /\ Tail(inbox) \in Seq(Frames)
      BY <2>2 DEF Read
    <3>2. CASE Head(inbox) = Welcome
      BY <2>2, <3>1, <3>2 DEF Read
    <3>3. CASE Head(inbox) # Welcome
      <4>1. CASE waiting # None /\ waiting.who = Head(inbox).from
        BY <2>2, <3>1, <3>3, <4>1, HandOverInv, FailuresAreNoFrames DEF Read, Settle
      <4>2. CASE ~(waiting # None /\ waiting.who = Head(inbox).from)
        BY <2>2, <3>1, <3>3, <4>2 DEF Read, Settle
      <4>3. QED
        BY <4>1, <4>2
    <3>4. QED
      BY <3>2, <3>3
  <2>3. CASE TellUp
    BY <2>3 DEF TellUp
  <2>4. CASE End
    BY <2>4 DEF End
  <2>5. CASE EndTx
    BY <2>5 DEF EndTx
  <2>6. CASE EndUp
    BY <2>6 DEF EndUp
  <2>7. CASE EndWaiting
    <3>1. CASE waiting # None
      BY <2>7, <3>1, HandOverInv, FailuresAreNoFrames DEF EndWaiting
    <3>2. CASE waiting = None
      BY <2>7, <3>2 DEF EndWaiting
    <3>3. QED
      BY <3>1, <3>2
  <2>8. QED
    BY <1>4, <2>1, <2>2, <2>3, <2>4, <2>5, <2>6, <2>7 DEF Driver
<1>5. CASE Greet
  <2>1. Welcome \in Frames
    BY DEF Frames
  <2>2. QED
    BY <1>5, <2>1 DEF Greet
<1>6. ASSUME NEW k \in Calls, Take(k) \/ Reply(k)
      PROVE  Inv'
  <2>1. to[k] \in Peers
    BY <1>6 DEF Take, Reply
  <2>2. CASE Take(k)
    BY <2>1, <2>2, AnswerType DEF Take
  <2>3. CASE Reply(k)
    BY <2>1, <2>3, AnswerType DEF Reply
  <2>4. QED
    BY <1>6, <2>2, <2>3
<1>7. CASE Cut
  BY <1>7 DEF Cut
<1>8. QED
  BY <1>1, <1>2, <1>3, <1>4, <1>5, <1>6, <1>7 DEF Next

LEMMA Invariance == Spec => []Inv
BY InitInv, StepInv, PTL DEF Spec

(* Type correctness. *)
THEOREM NodeTypes == Spec => []TypeOK
BY Invariance, PTL DEF Inv

(* Whatever a call returns as an answer came from the one it asked.          *)
THEOREM AnswersAreFromTheAsked == Spec => []AnsweredByTheAsked
<1>1. Inv => AnsweredByTheAsked
  BY DEF Inv, FromTheAsked, AnsweredByTheAsked
<1>2. QED
  BY <1>1, Invariance, PTL

(* No call is ever left waiting for a session that is gone.                  *)
THEOREM NoCallIsStranded == Spec => []NoneStranded
<1>1. Inv => NoneStranded
  BY DEF Inv, ArmedIsWaiting, SessionOrFailure, NoneStranded, At
<1>2. QED
  BY <1>1, Invariance, PTL

-----------------------------------------------------------------------------
(* Node implements Asks. *)

Outcome == [k \in Calls |-> IF At(k, "back") THEN result[k] ELSE None]

\* A call waits, as Asks has it, from when it was made until it is back.
LEMMA WaitsIs == ASSUME Inv, NEW k \in Calls
                 PROVE  step[k] \notin {"idle", "back"} => Promise!Waits(k)
BY DEF Inv, TypeOK, Addressed, At, Promise!Waits

\* A step that brings no call back leaves every outcome as it is.
LEMMA SameOutcome ==
    ASSUME Inv, Inv',
           \A k \in Calls : step'[k] = "back" <=> step[k] = "back",
           \A k \in Calls : step[k] = "back" => result'[k] = result[k]
    PROVE  Outcome' = Outcome
BY DEF Outcome, At

\* Back is the end of a call: what it returns came from the one asked.
LEMMA BackEnds ==
    ASSUME Inv, NEW k \in Calls, step[k] \in {"up", "send", "await"}, NEW r \in Results,
           r # None, r \in Frames => r # Welcome /\ r.from = to[k], Back(k, r)
    PROVE  Promise!Next
<1>1. turn = k /\ turn' = None
  BY DEF Inv, TurnIsHeld, Back
<1>2. Outcome' = [Outcome EXCEPT ![k] = r]
  BY DEF Outcome, Back, Goto, At, Inv, TypeOK
<1>3. Promise!End(k, r)
  BY <1>1, <1>2, WaitsIs DEF Promise!End, Promise!Ends, Back, Outcome
<1>4. r \in (Frames \ {Welcome}) \cup {Changed, TimedOut}
  BY DEF Results
<1>5. QED
  BY <1>3, <1>4 DEF Promise!Next

LEMMA Implements == Inv /\ Inv' /\ [Next]_vars => [Promise!Next]_(Promise!vars)
<1> SUFFICES ASSUME Inv, Inv', [Next]_vars
             PROVE  Promise!Next \/ UNCHANGED Promise!vars
  OBVIOUS
<1> USE DEF At, Goto, caller, shared, wire
<1>1. ASSUME NEW k \in Calls, NEW p \in Peers, Call(k, p)
      PROVE  Promise!Ask(k, p)
  <2>1. Outcome' = Outcome
    BY <1>1, SameOutcome DEF Call, Inv, TypeOK
  <2>2. to[k] = None
    BY <1>1 DEF Call, Inv, Addressed
  <2>3. QED
    BY <1>1, <2>1, <2>2 DEF Call, Promise!Ask, Outcome
<1>2. ASSUME NEW k \in Calls, TakeTurn(k)
      PROVE  Promise!Begin(k)
  <2>1. Outcome' = Outcome
    BY <1>2, SameOutcome DEF TakeTurn, Inv, TypeOK
  <2>2. Promise!Waits(k)
    BY <1>2, WaitsIs DEF TakeTurn
  <2>3. QED
    BY <1>2, <2>1, <2>2 DEF TakeTurn, Promise!Begin, Outcome
<1>3. ASSUME NEW k \in Calls, SeeUp(k) \/ Arm(k) \/ Send(k)
      PROVE  UNCHANGED Promise!vars
  <2>1. Outcome' = Outcome
    BY <1>3, SameOutcome DEF SeeUp, Arm, Send, Inv, TypeOK
  <2>2. UNCHANGED <<to, turn>>
    BY <1>3 DEF SeeUp, Arm, Send
  <2>3. QED
    BY <2>1, <2>2 DEF Promise!vars, Outcome
<1>4. ASSUME NEW k \in Calls, SendFails(k) \/ Return(k)
      PROVE  Promise!Next
  <2>1. CASE SendFails(k)
    BY <2>1, BackEnds, FailuresAreNoFrames DEF SendFails
  <2>2. CASE Return(k)
    BY <2>2, BackEnds DEF Return, Inv, TypeOK, FromTheAsked
  <2>3. QED
    BY <1>4, <2>1, <2>2
<1>5. ASSUME NEW k \in Calls, Timeout(k)
      PROVE  Promise!Next
  <2>1. CASE step[k] = "turn"
    <3>1. turn # k /\ turn' = turn
      BY <1>5, <2>1 DEF Timeout, Back, Inv, TurnIsHeld
    <3>2. Outcome' = [Outcome EXCEPT ![k] = TimedOut]
      BY <1>5 DEF Timeout, Back, Outcome, Inv, TypeOK
    <3>3. Promise!GiveUp(k)
      BY <1>5, <2>1, <3>1, <3>2, WaitsIs DEF Timeout, Back, Promise!GiveUp, Outcome
    <3>4. QED
      BY <3>3 DEF Promise!Next
  <2>2. CASE step[k] # "turn"
    BY <1>5, <2>2, BackEnds, FailuresAreNoFrames DEF Timeout
  <2>3. QED
    BY <2>1, <2>2
<1>6. ASSUME Driver \/ Greet \/ Cut \/ (\E k \in Calls : Take(k) \/ Reply(k))
             \/ UNCHANGED vars
      PROVE  UNCHANGED Promise!vars
  <2>1. UNCHANGED <<step, to, turn>>
    BY <1>6 DEF Driver, Dial, Read, TellUp, End, EndTx, EndUp, EndWaiting, Greet, Cut,
                Take, Reply, vars
  <2>2. UNCHANGED result \/ \E r : HandOver(r)
    BY <1>6 DEF Driver, Dial, Read, TellUp, End, EndTx, EndUp, EndWaiting, Greet, Cut,
                Take, Reply, vars, Settle
  <2>3. \A k \in Calls : step[k] = "back" => result'[k] = result[k]
    BY <2>2 DEF HandOver
  <2>4. Outcome' = Outcome
    BY <2>1, <2>3, SameOutcome
  <2>5. QED
    BY <2>1, <2>4 DEF Promise!vars, Outcome
<1>7. QED
  BY <1>1, <1>2, <1>3, <1>4, <1>5, <1>6 DEF Next, Caller, Promise!Next

(* For any calls, peers and number of drops, the node implements Asks.       *)
THEOREM NodeKeepsAsks == Spec => KeepsAsks
<1>1. Init => Promise!Init
  BY DEF Init, Promise!Init, At
<1>2. QED
  BY <1>1, Invariance, Implements, PTL DEF Spec, KeepsAsks, Promise!Spec
=============================================================================
