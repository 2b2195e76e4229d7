------------------------------ MODULE DoorProofs ------------------------------
(***************************************************************************)
(* Theorems about the door, for any connections, permits, messages and      *)
(* frames: its admission, its types, and the order of what it passes on.    *)
(***************************************************************************)
EXTENDS DoorProps, FiniteSetTheorems, SequenceTheorems, TLAPS

-----------------------------------------------------------------------------
(* The inductive invariants: where tasks stand, and what has been shown there. *)

Stands == at \in [Conns -> Admitting \cup Pumping \cup {"away", "closed"}]

\* Only a random origin is asked for the proof, and nobody passes it without.
Asked == \A c \in Conns :
             /\ at[c] \in {"nonce", "proof"} => origin[c] = "random"
             /\ at[c] = "hello" \/ at[c] \in Pumping =>
                    origin[c] = "blink" \/ (origin[c] = "random" /\ c \in Paired)

Permits == /\ held = {c \in Conns : at[c] \in Admitting}
           /\ IsFiniteSet(held)
           /\ Cardinality(held) <= Gate

IInv == Stands /\ Asked /\ Permits

\* How a task may move, and what becomes of its permit.
Moves(c, from, to) == at[c] \in from /\ \E where \in to : at' = [at EXCEPT ![c] = where]

Entered(c) == /\ Moves(c, {"away"}, {"upgrade"})
              /\ Cardinality(held) < Gate
              /\ held' = held \cup {c}
Advanced(c) == /\ \/ Moves(c, {"upgrade"}, {"nonce"}) /\ origin[c] = "random"
                  \/ Moves(c, {"upgrade"}, {"hello"}) /\ origin[c] = "blink"
                  \/ Moves(c, {"nonce"}, {"proof"})
                  \/ Moves(c, {"proof"}, {"hello"}) /\ c \in Paired
               /\ held' = held
Released(c) == Moves(c, {"hello"}, {"select"}) /\ held' = held \ {c}
Refused(c) == Moves(c, Admitting, {"closed"}) /\ held' = held \ {c}
Outside(c) == /\ \/ Moves(c, {"away"} \cup Pumping, {"closed"})
                 \/ Moves(c, Pumping, Pumping)
                 \/ at' = at
              /\ held' = held

LEMMA StepIs == ASSUME Stands, [Next]_vars
                PROVE  \/ at' = at /\ held' = held
                       \/ \E c \in Conns : \/ Entered(c) \/ Advanced(c) \/ Released(c)
                                           \/ Refused(c) \/ Outside(c)
<1> USE DEF Moves, Goto, admission
<1>1. ASSUME NEW c \in Conns, Admission(c)
      PROVE  Entered(c) \/ Advanced(c) \/ Released(c) \/ Outside(c)
  BY <1>1 DEF Admission, Accept, Upgrade, Nonce, Prove, Admit, Advance, Entered, Advanced,
              Released, Outside
<1>2. ASSUME NEW c \in Conns, Refuse(c)
      PROVE  Refused(c)
  BY <1>2 DEF Refuse, Refused
<1>3. ASSUME NEW c \in Conns, Pump(c) \/ Idle(c)
      PROVE  Outside(c)
  BY <1>3 DEF Pump, Idle, Message, Write, Written, Part, Consume, PipeEnds, Sent, Gives, Passed,
              Pass, Quit, Outside, Pumping
<1>4. ASSUME NEW c \in Conns, Say(c) \/ Hush(c) \/ Stall(c) \/ Queue(c) \/ RouterEnds(c)
      PROVE  at' = at /\ held' = held
  BY <1>4 DEF Say, Hush, Stall, Queue, RouterEnds
<1> QED BY <1>1, <1>2, <1>3, <1>4 DEF Next, vars

LEMMA Start == Init => IInv
<1>1. ASSUME Init
      PROVE  held = {} /\ {c \in Conns : at[c] \in Admitting} = {}
  BY <1>1 DEF Init, Admitting
<1> QED BY <1>1, FS_EmptySet, DoorAssumption
        DEF Init, IInv, Stands, Asked, Permits, Admitting, Pumping

LEMMA StepKeeps == ASSUME IInv, [Next]_vars PROVE IInv'
<1> USE DEF Admitting, Pumping
<1>1. CASE at' = at /\ held' = held
  BY <1>1 DEF IInv, Stands, Asked, Permits, Pumping
<1>2. ASSUME NEW c \in Conns,
             Entered(c) \/ Advanced(c) \/ Released(c) \/ Refused(c) \/ Outside(c)
      PROVE  IInv'
  <2> USE DEF Entered, Advanced, Released, Refused, Outside, Moves, IInv, Stands
  <2>1. Stands'
    BY <1>2
  <2>2. Asked'
    BY <1>2 DEF Asked
  <2>3. held' = {d \in Conns : at'[d] \in Admitting}
    BY <1>2 DEF Permits
  <2>4. IsFiniteSet(held') /\ Cardinality(held') <= Gate
    <3>1. IsFiniteSet(held) /\ Cardinality(held) \in Nat
      BY FS_CardinalityType DEF Permits
    <3>2. CASE Entered(c)
      <4>1. IsFiniteSet(held \cup {c})
            /\ Cardinality(held \cup {c}) \in {Cardinality(held), Cardinality(held) + 1}
        BY <3>1, FS_AddElement
      <4>2. Cardinality(held) < Gate /\ held' = held \cup {c}
        BY <3>2
      <4> HIDE DEF Entered, Moves, IInv, Stands
      <4> QED BY <3>1, <4>1, <4>2, DoorAssumption
    <3>3. CASE held' = held \ {c}
      BY <3>1, <3>3, FS_RemoveElement, DoorAssumption DEF Permits
    <3>4. CASE held' = held
      BY <3>4 DEF Permits
    <3> QED BY <1>2, <3>2, <3>3, <3>4
  <2> QED BY <2>1, <2>2, <2>3, <2>4 DEF Permits
<1> QED BY <1>1, <1>2, StepIs DEF IInv

-----------------------------------------------------------------------------
(* The permits account for exactly the connections that are being admitted,  *)
(* and there are never more of these than permits (door.rs:31,67-70).        *)
THEOREM GateIsKept == Spec => []GateCounts
<1>1. IInv => GateCounts
  BY DEF IInv, Permits, GateCounts
<1> QED BY <1>1, Start, StepKeeps, PTL DEF Spec

(* Nothing is piped for a connection that passed neither its origin nor the  *)
(* proof (door.rs:5-20).                                                     *)
THEOREM StrangersStayOut == Spec => []OnlyTheProven
<1>1. IInv => OnlyTheProven
  BY DEF IInv, Asked, OnlyTheProven
<1> QED BY <1>1, Start, StepKeeps, PTL DEF Spec

-----------------------------------------------------------------------------
(* Types. *)

\* What a task writes to the router is an answer.
Typed == /\ TypeOK
         /\ \A c \in Conns : at[c] = "write" => sending[c] \in Frames

LEMMA Cleared == ASSUME Typed, NEW c \in Conns, Quit(c)
                 PROVE  Typed'
BY DEF Typed, TypeOK, Quit, Goto, admission, Sendable, Frames, Forbidden

\* What becomes of the place of a task and of what it passes on.
Carries == /\ at \in [Conns -> Admitting \cup Pumping \cup {"away", "closed"}]
           /\ sending \in [Conns -> Sendable]
           /\ \A c \in Conns : at[c] = "write" => sending[c] \in Frames

LEMMA PassTypes ==
    ASSUME Carries, NEW c \in Conns, NEW where \in Pumping, NEW x \in Sendable,
           where = "write" => x \in Frames, Pass(c, where, x)
    PROVE  Carries'
<1>1. at' = [at EXCEPT ![c] = where] /\ sending' = [sending EXCEPT ![c] = x]
  BY DEF Pass, Goto
<1> QED BY <1>1 DEF Carries

LEMMA TypeStart == Init => Typed
BY DEF Init, Typed, TypeOK, Sendable, Frames, Forbidden

LEMMA TypeStep == ASSUME Typed, [Next]_vars PROVE Typed'
<1> USE DEF Goto, Push, Pop, admission, inward, outward, browser, Typed
<1>1. ASSUME UNCHANGED vars PROVE Typed'
  BY <1>1 DEF vars, TypeOK
<1>2. ASSUME NEW c \in Conns, Admission(c) \/ Refuse(c) PROVE Typed'
  <2>1. /\ UNCHANGED <<inward, outward, browser>>
        /\ held' \subseteq Conns
        /\ \E where \in Admitting \cup {"select", "closed"} : at' = [at EXCEPT ![c] = where]
    BY <1>2 DEF Admission, Accept, Upgrade, Nonce, Prove, Admit, Advance, Refuse, TypeOK, Admitting
  <2> QED BY <2>1 DEF TypeOK, Admitting, Pumping
<1>3. ASSUME NEW c \in Conns, Message(c) PROVE Typed'
  <2> DEFINE m == Head(socket[c])
  <2>1. /\ m \in Messages /\ Tail(socket[c]) \in Seq(Messages)
    BY <1>3 DEF Message, TypeOK
  <2>2. CASE Quit(c)
    BY <2>2, Cleared
  <2>3. ASSUME ~Quit(c)
        PROVE  /\ UNCHANGED <<held, heard, said, pipe, got, ended, queued, mute, stalled>>
               /\ part' = [part EXCEPT ![c] = 0]
               /\ socket' = [socket EXCEPT ![c] = Tail(socket[c])]
               /\ \/ m > 0 /\ Pass(c, "write", m)
                  \/ Pass(c, "send", 0)
                  \/ UNCHANGED <<at, sending>>
    BY <2>3, <1>3 DEF Message, Forbidden
  <2>4. m > 0 => m \in Frames
    BY <2>1 DEF Messages, Frames, Call, Ping, Close
  <2> HIDE DEF m
  <2>5. CASE ~Quit(c)
    <3>1. Carries'
      <4>1. Carries /\ 0 \in Sendable /\ {"write", "send"} \subseteq Pumping
            /\ (m > 0 => m \in Sendable)
        BY <2>4 DEF TypeOK, Carries, Sendable, Forbidden, Pumping
      <4>2. CASE m > 0 /\ Pass(c, "write", m)
        BY <2>4, <4>1, <4>2, PassTypes
      <4>3. CASE Pass(c, "send", 0)
        BY <4>1, <4>3, PassTypes
      <4>4. CASE UNCHANGED <<at, sending>>
        BY <4>1, <4>4 DEF Carries
      <4> QED BY <2>3, <2>5, <4>2, <4>3, <4>4
    <3>2. socket \in [Conns -> Seq(Messages)] /\ part \in [Conns -> Nat]
      BY DEF TypeOK
    <3>3. /\ socket' = [socket EXCEPT ![c] = Tail(socket[c])]
          /\ part' = [part EXCEPT ![c] = 0]
      BY <2>3, <2>5
    <3>4. socket' \in [Conns -> Seq(Messages)]
      BY <2>1, <3>2, <3>3
    <3>5. part' \in [Conns -> Nat]
      BY <3>2, <3>3
    <3> QED BY <2>3, <2>5, <3>1, <3>4, <3>5 DEF TypeOK, Carries
  <2> QED BY <2>2, <2>5
<1>4. ASSUME NEW c \in Conns, Write(c) PROVE Typed'
  <2>1. CASE Quit(c)
    BY <2>1, Cleared
  <2>2. CASE Written(c, Push(heard, c, sending[c]))
    <3>1. sending[c] \in Nat \ {0}
      BY <1>4 DEF Write, Frames
    <3>2. heard' \in [Conns -> Seq(Nat \ {0})]
      BY <2>2, <3>1 DEF Written, TypeOK
    <3>3. Carries'
      BY <2>2, PassTypes DEF Written, Passed, TypeOK, Carries, Sendable, Forbidden, Pumping
    <3> QED BY <2>2, <3>2, <3>3 DEF Written, TypeOK, Carries
  <2> QED BY <2>1, <2>2, <1>4 DEF Write
<1>5. ASSUME NEW c \in Conns, Part(c) PROVE Typed'
  <2>1. /\ Head(pipe[c]) \in Parts /\ Tail(pipe[c]) \in Seq(Parts)
    BY <1>5 DEF Part, TypeOK
  <2>2. CASE Quit(c)
    BY <2>2, Cleared
  <2>3. CASE ~Quit(c)
    <3>1. /\ UNCHANGED <<held, socket, heard, said, got, ended, queued, mute, stalled>>
          /\ pipe' = [pipe EXCEPT ![c] = Tail(pipe[c])]
          /\ \E n \in Nat : part' = [part EXCEPT ![c] = n]
          /\ \/ UNCHANGED <<at, sending>>
             \/ \E x \in Sendable : Pass(c, "send", x)
      BY <2>1, <2>3, <1>5 DEF Part, Consume, Parts, Sendable, Frames
    <3>2. Carries'
      <4>1. Carries /\ "send" \in Pumping
        BY DEF TypeOK, Carries, Pumping
      <4>2. CASE UNCHANGED <<at, sending>>
        BY <4>1, <4>2 DEF Carries
      <4>3. CASE \E x \in Sendable : Pass(c, "send", x)
        BY <4>1, <4>3, PassTypes
      <4> QED BY <3>1, <4>2, <4>3
    <3> QED BY <2>1, <3>1, <3>2 DEF TypeOK, Carries
  <2> QED BY <2>2, <2>3
<1>6. ASSUME NEW c \in Conns, PipeEnds(c) \/ Idle(c) PROVE Typed'
  BY <1>6, Cleared DEF PipeEnds, Idle
<1>7. ASSUME NEW c \in Conns, Sent(c) PROVE Typed'
  BY <1>7 DEF Sent, Gives, Passed, Pass, TypeOK, Sendable, Forbidden, Pumping
<1>8. ASSUME NEW c \in Conns, Say(c) PROVE Typed'
  <2>1. PICK m \in {Len(said[c]) + 1, Call, Ping, Close} :
                /\ socket' = Push(socket, c, m)
                /\ said' = Push(said, c, IF m > 0 THEN m ELSE 0)
    BY <1>8 DEF Say
  <2>2. m \in Messages /\ (m > 0 => m \in Nat)
    BY <2>1 DEF TypeOK, Messages, Call, Ping, Close
  <2> QED BY <1>8, <2>1, <2>2 DEF Say, TypeOK
<1>9. ASSUME NEW c \in Conns, Hush(c) \/ Stall(c) PROVE Typed'
  BY <1>9 DEF Hush, Stall, TypeOK
<1>10. ASSUME NEW c \in Conns, Queue(c) PROVE Typed'
  <2> DEFINE n == queued[c] + 1
             P(w) == [frame |-> n, part |-> w]
  <2>1. n \in Nat /\ \A w \in {"whole", "head", "tail"} : P(w) \in Parts
    BY DEF TypeOK, Parts, Frames
  <2>2. \/ pipe' = [pipe EXCEPT ![c] = Append(pipe[c], P("whole"))]
        \/ pipe' = [pipe EXCEPT ![c] = pipe[c] \o <<P("head"), P("tail")>>]
    BY <1>10 DEF Queue
  <2>3. queued' = [queued EXCEPT ![c] = n]
        /\ UNCHANGED <<at, admission, inward, part, sending, got, ended, browser>>
    BY <1>10 DEF Queue
  <2> HIDE DEF n, P
  <2>4. pipe' \in [Conns -> Seq(Parts)]
    <3>1. pipe[c] \in Seq(Parts) /\ P("whole") \in Parts /\ <<P("head"), P("tail")>> \in Seq(Parts)
      BY <2>1 DEF TypeOK
    <3>2. /\ Append(pipe[c], P("whole")) \in Seq(Parts)
          /\ pipe[c] \o <<P("head"), P("tail")>> \in Seq(Parts)
      BY <3>1
    <3> QED BY <2>2, <3>2 DEF TypeOK
  <2>5. queued' \in [Conns -> Nat]
    BY <2>1, <2>3 DEF TypeOK
  <2> QED BY <2>3, <2>4, <2>5 DEF TypeOK
<1>11. ASSUME NEW c \in Conns, RouterEnds(c) PROVE Typed'
  <2>1. \A n \in Nat : n <= Len(pipe[c]) => SubSeq(pipe[c], 1, n) \in Seq(Parts)
    BY DEF TypeOK
  <2>2. pipe' \in [Conns -> Seq(Parts)]
    <3>1. pipe \in [Conns -> Seq(Parts)] /\ Len(pipe[c]) \in Nat
      BY DEF TypeOK
    <3>2. \/ UNCHANGED pipe
          \/ /\ Len(pipe[c]) > 0
             /\ pipe' = [pipe EXCEPT ![c] = SubSeq(pipe[c], 1, Len(pipe[c]) - 1)]
      BY <1>11 DEF RouterEnds
    <3> QED BY <2>1, <3>1, <3>2
  <2>3. ended' \in [Conns -> BOOLEAN]
    BY <1>11 DEF RouterEnds, TypeOK
  <2> QED BY <1>11, <2>2, <2>3 DEF RouterEnds, TypeOK
<1> QED BY <1>1, <1>2, <1>3, <1>4, <1>5, <1>6, <1>7, <1>8, <1>9, <1>10, <1>11 DEF Next, Pump

(* The door's state keeps its types, what a browser or the router send       *)
(* whenever they do.                                                          *)
THEOREM DoorTypes == Spec => []TypeOK
<1>1. Typed => TypeOK
  BY DEF Typed
<1> QED BY <1>1, TypeStart, TypeStep, PTL DEF Spec

-----------------------------------------------------------------------------
(* The order of frames: what a browser got, then what is being sent to it,   *)
(* then what is in the pipe, and all of it was queued.                        *)

Behind(c, x) == /\ x <= queued[c]
                /\ \A i \in DOMAIN pipe[c] : x < pipe[c][i].frame

\* Only the head of a frame may have its like behind it, and that is its tail.
PipeInOrder(c) ==
    /\ \A i \in DOMAIN pipe[c] : pipe[c][i].frame <= queued[c]
    /\ \A i, j \in DOMAIN pipe[c] :
           i < j => \/ pipe[c][i].frame < pipe[c][j].frame
                    \/ pipe[c][i].part = "head" /\ pipe[c][i].frame = pipe[c][j].frame

Passes(c) == at[c] = "send" /\ sending[c] \in Frames

Line(c) ==
    /\ PipeInOrder(c)
    /\ Passes(c) => Behind(c, sending[c])
    /\ \A i \in DOMAIN got[c] : got[c][i] \in Frames =>
           /\ Behind(c, got[c][i])
           /\ Passes(c) => got[c][i] < sending[c]
           /\ \A j \in DOMAIN got[c] : i < j /\ got[c][j] \in Frames =>
                  got[c][i] < got[c][j]

Ordered == \A c \in Conns : Line(c)


LEMMA PartsNumbered == ASSUME NEW s \in Seq(Parts), NEW i \in DOMAIN s
                       PROVE  s[i].frame \in Nat
<1>1. s[i] \in Parts
  OBVIOUS
<1> QED BY <1>1 DEF Parts, Frames

LEMMA LineKept ==
    ASSUME NEW c \in Conns, Line(c),
           pipe'[c] = pipe[c], got'[c] = got[c], queued'[c] = queued[c],
           Passes(c)' => Passes(c) /\ sending'[c] = sending[c]
    PROVE  Line(c)'
BY DEF Line, PipeInOrder, Behind, Passes

LEMMA LineEmpty ==
    ASSUME Typed, NEW c \in Conns, Quit(c)
    PROVE  Line(c)'
<1>1. pipe'[c] = <<>> /\ got'[c] = <<>> /\ at'[c] = "closed"
  BY DEF Quit, Goto, Typed, TypeOK
<1> QED BY <1>1 DEF Line, PipeInOrder, Behind, Passes

\* A part was read: the first of a frame, all that is left of one, or none that
\* is passed on as what it is.
LEMMA LinePopped ==
    ASSUME Typed, NEW c \in Conns, Line(c), pipe[c] # <<>>,
           pipe'[c] = Tail(pipe[c]), got'[c] = got[c], queued'[c] = queued[c],
           ~Passes(c),
           Passes(c)' => Head(pipe[c]).part # "head" /\ sending'[c] = Head(pipe[c]).frame
    PROVE  Line(c)'
<1>1. /\ pipe[c] \in Seq(Parts) /\ got[c] \in Seq(Sendable) /\ queued[c] \in Nat
      /\ Head(pipe[c]) = pipe[c][1] /\ 1 \in DOMAIN pipe[c]
  BY DEF Typed, TypeOK
<1>2. \A i \in DOMAIN pipe'[c] : /\ i + 1 \in DOMAIN pipe[c] /\ i \in Nat \ {0}
                                 /\ pipe'[c][i] = pipe[c][i + 1]
  BY <1>1
<1>3. \A i \in DOMAIN pipe[c] : pipe[c][i].frame \in Nat
  BY <1>1, PartsNumbered
<1>4. PipeInOrder(c)'
  BY <1>2 DEF Line, PipeInOrder
<1>5. \A x \in Int : Behind(c, x) => x <= queued'[c]
                                     /\ \A i \in DOMAIN pipe'[c] : x < pipe'[c][i].frame
  BY <1>2 DEF Behind
<1>6. Passes(c)' => /\ Behind(c, sending[c])'
                    /\ \A i \in DOMAIN got[c] : got[c][i] \in Frames => got[c][i] < sending'[c]
  <2>1. SUFFICES ASSUME Passes(c)'
                 PROVE  /\ Behind(c, sending[c])'
                        /\ \A i \in DOMAIN got[c] :
                               got[c][i] \in Frames => got[c][i] < sending'[c]
    OBVIOUS
  <2>2. sending'[c] = pipe[c][1].frame /\ pipe[c][1].part # "head"
    BY <1>1, <2>1
  <2>3. \A j \in DOMAIN pipe[c] : j > 1 => pipe[c][1].frame < pipe[c][j].frame
    BY <1>1, <2>2 DEF Line, PipeInOrder
  <2>4. pipe[c][1].frame <= queued[c]
    BY <1>1 DEF Line, PipeInOrder
  <2> QED BY <1>1, <1>2, <2>2, <2>3, <2>4 DEF Line, Behind
<1>7. \A i \in DOMAIN got[c] : got[c][i] \in Frames => Behind(c, got[c][i])'
  BY <1>5 DEF Line, Behind, Frames
<1> QED BY <1>4, <1>6, <1>7 DEF Line

LEMMA LineGiven ==
    ASSUME Typed, NEW c \in Conns, Line(c), at[c] = "send", ~Passes(c)',
           pipe'[c] = pipe[c], queued'[c] = queued[c],
           got'[c] = Append(got[c], sending[c])
    PROVE  Line(c)'
<1>1. got[c] \in Seq(Sendable) /\ sending[c] \in Sendable
  BY DEF Typed, TypeOK
<1>2. /\ Len(got[c]) \in Nat /\ DOMAIN got[c] = 1..Len(got[c])
      /\ DOMAIN got'[c] = 1..(Len(got[c]) + 1)
      /\ got'[c][Len(got[c]) + 1] = sending[c]
      /\ \A i \in DOMAIN got[c] : got'[c][i] = got[c][i]
  BY <1>1
<1>3. sending[c] \in Frames => Passes(c)
  BY DEF Passes
<1>4. \A i \in DOMAIN got'[c] : got'[c][i] \in Frames =>
          /\ Behind(c, got'[c][i])
          /\ \A j \in DOMAIN got'[c] : i < j /\ got'[c][j] \in Frames => got'[c][i] < got'[c][j]
  BY <1>2, <1>3 DEF Line
<1>5. \A x : Behind(c, x) => x <= queued'[c] /\ \A i \in DOMAIN pipe'[c] : x < pipe'[c][i].frame
  BY DEF Behind
<1> QED BY <1>4, <1>5 DEF Line, PipeInOrder, Behind

LEMMA OneMore ==
    ASSUME NEW S, NEW s \in Seq(S), NEW a \in S
    PROVE  /\ Len(s) + 2 \notin DOMAIN Append(s, a)
           /\ \A i \in DOMAIN Append(s, a) :
                  \/ i \in DOMAIN s /\ Append(s, a)[i] = s[i]
                  \/ i = Len(s) + 1 /\ Append(s, a)[i] = a
BY AppendProperties

LEMMA TwoMore ==
    ASSUME NEW S, NEW s \in Seq(S), NEW a \in S, NEW b \in S
    PROVE  /\ (s \o <<a, b>>)[Len(s) + 1] = a
           /\ \A i \in DOMAIN (s \o <<a, b>>) :
                  \/ i \in DOMAIN s /\ (s \o <<a, b>>)[i] = s[i]
                  \/ i = Len(s) + 1 /\ (s \o <<a, b>>)[i] = a
                  \/ i = Len(s) + 2 /\ (s \o <<a, b>>)[i] = b
<1>1. /\ <<a, b>> \in Seq(S) /\ Len(<<a, b>>) = 2
      /\ <<a, b>>[1] = a /\ <<a, b>>[2] = b
  OBVIOUS
<1>2. /\ s \o <<a, b>> \in Seq(S) /\ Len(s \o <<a, b>>) = Len(s) + 2
      /\ \A i \in 1..Len(s) + 2 : (s \o <<a, b>>)[i] = IF i <= Len(s) THEN s[i]
                                                     ELSE <<a, b>>[i - Len(s)]
  BY <1>1, ConcatProperties
<1> QED BY <1>1, <1>2

\* One more frame was queued, in one part or in two.
LEMMA LineQueued ==
    ASSUME Typed, NEW c \in Conns, Line(c), Queue(c)
    PROVE  Line(c)'
<1> DEFINE n == queued[c] + 1
           whole == [frame |-> n, part |-> "whole"]
           head == [frame |-> n, part |-> "head"]
           rear == [frame |-> n, part |-> "tail"]
<1>1. /\ queued[c] \in Nat /\ pipe[c] \in Seq(Parts) /\ got[c] \in Seq(Sendable)
      /\ sending[c] \in Sendable
  BY DEF Typed, TypeOK
<1>2. /\ queued'[c] = n
      /\ got'[c] = got[c] /\ sending' = sending /\ at' = at
      /\ \/ pipe'[c] = Append(pipe[c], whole)
         \/ pipe'[c] = pipe[c] \o <<head, rear>>
  BY <1>1 DEF Queue, Typed, TypeOK, Push
<1>3. \A i \in DOMAIN pipe[c] : i \in 1..Len(pipe[c]) /\ pipe[c][i].frame \in Nat
  BY <1>1, PartsNumbered
<1>4. Len(pipe[c]) \in Nat /\ DOMAIN pipe[c] = 1..Len(pipe[c])
  BY <1>1
<1> DEFINE end == Len(pipe[c])
<1>t. whole \in Parts /\ head \in Parts /\ rear \in Parts
  BY <1>1 DEF Parts, Frames
<1> HIDE DEF whole, head, rear
<1>5. /\ \A i \in DOMAIN pipe'[c] :
             \/ i \in DOMAIN pipe[c] /\ pipe'[c][i] = pipe[c][i]
             \/ i = end + 1 /\ pipe'[c][i] \in {whole, head}
             \/ i = end + 2 /\ pipe'[c][i] = rear
      /\ end + 2 \in DOMAIN pipe'[c] => pipe'[c][end + 1] = head
  <2>1. CASE pipe'[c] = Append(pipe[c], whole)
    BY <1>1, <1>t, <2>1, OneMore
  <2>2. CASE pipe'[c] = pipe[c] \o <<head, rear>>
    BY <1>1, <1>t, <2>2, TwoMore
  <2> QED BY <1>2, <2>1, <2>2
<1>6. whole.frame = n /\ head.frame = n /\ rear.frame = n /\ head.part = "head"
  BY DEF whole, head, rear
<1>7. n \in Nat /\ queued[c] < n
  BY <1>1
<1> HIDE DEF n
<1>8. \A i \in DOMAIN pipe[c] : pipe[c][i].frame <= queued[c] /\ pipe[c][i].frame \in Nat
  BY <1>3 DEF Line, PipeInOrder
<1>9. \A i \in DOMAIN pipe'[c] :
          \/ /\ i \in DOMAIN pipe[c] /\ pipe'[c][i] = pipe[c][i]
             /\ pipe'[c][i].frame < n
          \/ i = end + 1 /\ pipe'[c][i].frame = n
          \/ i = end + 2 /\ pipe'[c][i].frame = n /\ pipe'[c][end + 1].part = "head"
  BY <1>1, <1>5, <1>6, <1>7, <1>8
<1>10. PipeInOrder(c)'
  <2>1. \A i \in DOMAIN pipe'[c] : pipe'[c][i].frame <= queued'[c]
    BY <1>2, <1>7, <1>8, <1>9
  <2>2. ASSUME NEW i \in DOMAIN pipe'[c], NEW j \in DOMAIN pipe'[c], i < j
        PROVE  \/ pipe'[c][i].frame < pipe'[c][j].frame
               \/ pipe'[c][i].part = "head" /\ pipe'[c][i].frame = pipe'[c][j].frame
    <3>1. CASE j \in DOMAIN pipe[c]
      BY <1>4, <1>9, <2>2, <3>1 DEF Line, PipeInOrder
    <3>2. CASE j \notin DOMAIN pipe[c]
      BY <1>4, <1>9, <2>2, <3>2
    <3> QED BY <3>1, <3>2
  <2> QED BY <2>1, <2>2 DEF PipeInOrder
<1>11. ASSUME NEW x \in Nat, Behind(c, x)
       PROVE  x <= queued'[c] /\ \A i \in DOMAIN pipe'[c] : x < pipe'[c][i].frame
  <2>1. x <= queued[c] /\ x < n /\ \A i \in DOMAIN pipe[c] : x < pipe[c][i].frame
    BY <1>1, <1>7, <1>11 DEF Behind
  <2> QED BY <1>1, <1>2, <1>7, <1>9, <2>1
<1> QED BY <1>1, <1>2, <1>10, <1>11 DEF Line, Behind, Passes, Frames

\* The pipe may end without the last part.
LEMMA LineCut ==
    ASSUME Typed, NEW c \in Conns, Line(c), RouterEnds(c)
    PROVE  Line(c)'
<1>1. pipe[c] \in Seq(Parts)
  BY DEF Typed, TypeOK
<1>2. /\ queued' = queued /\ got' = got /\ sending' = sending /\ at' = at
      /\ \/ pipe' = pipe
         \/ Len(pipe[c]) > 0 /\ pipe'[c] = SubSeq(pipe[c], 1, Len(pipe[c]) - 1)
  BY DEF RouterEnds, Typed, TypeOK
<1>3. \A i \in DOMAIN pipe'[c] : i \in DOMAIN pipe[c] /\ pipe'[c][i] = pipe[c][i]
  BY <1>1, <1>2
<1> QED BY <1>2, <1>3 DEF Line, PipeInOrder, Behind, Passes

LEMMA OrderStart == Init => Ordered
BY DEF Init, Ordered, Line, PipeInOrder, Behind, Passes

\* A step of one connection leaves the line of another as it is.
LEMMA OrderOf ==
    ASSUME Typed, Ordered, NEW c \in Conns, Line(c)',
           \A d \in Conns \ {c} : /\ at'[d] = at[d] /\ sending'[d] = sending[d]
                                  /\ pipe'[d] = pipe[d] /\ got'[d] = got[d]
                                  /\ queued'[d] = queued[d]
    PROVE  Ordered'
<1>1. ASSUME NEW d \in Conns \ {c} PROVE Line(d)'
  <2>1. Passes(d)' => Passes(d) /\ sending'[d] = sending[d]
    BY DEF Passes
  <2> QED BY <2>1, LineKept DEF Ordered
<1> QED BY <1>1 DEF Ordered

LEMMA QuitKeepsOrder == ASSUME Typed, Ordered, NEW c \in Conns, Quit(c)
                        PROVE  Ordered'
<1>1. \A d \in Conns \ {c} : /\ at'[d] = at[d] /\ sending'[d] = sending[d]
                             /\ pipe'[d] = pipe[d] /\ got'[d] = got[d]
                             /\ queued'[d] = queued[d]
  BY DEF Quit, Goto, Typed, TypeOK
<1> QED BY <1>1, LineEmpty, OrderOf

LEMMA OrderStep == ASSUME Typed, Ordered, [Next]_vars PROVE Ordered'
<1> USE DEF Goto, Push, Pop, inward, outward
<1>1. CASE UNCHANGED vars
  BY <1>1, LineKept DEF vars, Ordered, Passes
<1>2. ASSUME NEW c \in Conns,
             \/ Admission(c) \/ Refuse(c) \/ Message(c) \/ Write(c)
             \/ Say(c) \/ Hush(c) \/ Stall(c)
      PROVE  Ordered'
  <2>1. CASE Quit(c)
    BY <2>1, QuitKeepsOrder
  <2>2. CASE ~Quit(c)
    <3>1. /\ pipe' = pipe /\ got' = got /\ queued' = queued
          /\ \/ at' = at /\ sending' = sending
             \/ /\ \E where \in Admitting \cup Pumping \cup {"closed"} : at' = [at EXCEPT ![c] = where]
                /\ \/ at'[c] # "send" /\ sending' = sending
                   \/ \E x : /\ sending' = [sending EXCEPT ![c] = x]
                             /\ at'[c] = "send" => x = Forbidden
      BY <1>2, <2>2 DEF Admission, Accept, Upgrade, Nonce, Prove, Admit, Advance, Refuse,
            Message, Write, Written, Passed, Pass, Say, Hush, Stall, Typed, TypeOK,
            Admitting, Pumping
    <3>2. Passes(c)' => Passes(c) /\ sending'[c] = sending[c]
      BY <3>1 DEF Passes, Frames, Forbidden, Typed, TypeOK
    <3>3. Line(c)'
      BY <3>1, <3>2, LineKept DEF Ordered
    <3>4. \A d \in Conns \ {c} : at'[d] = at[d] /\ sending'[d] = sending[d]
      BY <3>1 DEF Typed, TypeOK
    <3> QED BY <3>1, <3>3, <3>4, OrderOf
  <2> QED BY <2>1, <2>2
<1>3. ASSUME NEW c \in Conns, Part(c) PROVE Ordered'
  <2>1. CASE Quit(c)
    BY <2>1, QuitKeepsOrder
  <2>2. CASE ~Quit(c)
    <3>1. /\ pipe[c] # <<>> /\ at[c] = "select"
          /\ pipe' = [pipe EXCEPT ![c] = Tail(pipe[c])]
          /\ got' = got /\ queued' = queued
          /\ \/ at' = at /\ sending' = sending
             \/ \E x : /\ Pass(c, "send", x)
                       /\ x = Noise \/ (Head(pipe[c]).part # "head" /\ x = Head(pipe[c]).frame)
      BY <1>3, <2>2 DEF Part, Consume
    <3>2. ~Passes(c)
      BY <3>1 DEF Passes
    <3>3. Passes(c)' => Head(pipe[c]).part # "head" /\ sending'[c] = Head(pipe[c]).frame
      BY <3>1 DEF Passes, Pass, Frames, Noise, Typed, TypeOK
    <3>4. pipe'[c] = Tail(pipe[c]) /\ got'[c] = got[c] /\ queued'[c] = queued[c]
      BY <3>1 DEF Typed, TypeOK
    <3>5. Line(c)'
      BY <3>1, <3>2, <3>3, <3>4, LinePopped DEF Ordered
    <3>6. \A d \in Conns \ {c} : /\ at'[d] = at[d] /\ sending'[d] = sending[d]
                                 /\ pipe'[d] = pipe[d]
      BY <3>1 DEF Pass, Typed, TypeOK
    <3> QED BY <3>1, <3>5, <3>6, OrderOf
  <2> QED BY <2>1, <2>2
<1>4. ASSUME NEW c \in Conns, PipeEnds(c) \/ Idle(c) PROVE Ordered'
  BY <1>4, QuitKeepsOrder DEF PipeEnds, Idle
<1>5. ASSUME NEW c \in Conns, Sent(c) PROVE Ordered'
  <2>1. /\ at[c] = "send" /\ at' = [at EXCEPT ![c] = "select"]
        /\ sending' = [sending EXCEPT ![c] = 0]
        /\ got' = [got EXCEPT ![c] = Append(got[c], sending[c])]
        /\ pipe' = pipe /\ queued' = queued
    BY <1>5 DEF Sent, Gives, Passed, Pass
  <2>2. ~Passes(c)' /\ got'[c] = Append(got[c], sending[c])
    BY <2>1 DEF Passes, Typed, TypeOK
  <2>3. Line(c)'
    BY <2>1, <2>2, LineGiven DEF Ordered
  <2>4. \A d \in Conns \ {c} : /\ at'[d] = at[d] /\ sending'[d] = sending[d]
                               /\ got'[d] = got[d]
    BY <2>1 DEF Typed, TypeOK
  <2> QED BY <2>1, <2>3, <2>4, OrderOf
<1>6. ASSUME NEW c \in Conns, Queue(c) PROVE Ordered'
  <2>1. /\ at' = at /\ sending' = sending /\ got' = got
        /\ \A d \in Conns \ {c} : pipe'[d] = pipe[d] /\ queued'[d] = queued[d]
    BY <1>6 DEF Queue, Typed, TypeOK
  <2> QED BY <1>6, <2>1, LineQueued, OrderOf DEF Ordered
<1>7. ASSUME NEW c \in Conns, RouterEnds(c) PROVE Ordered'
  <2>1. /\ at' = at /\ sending' = sending /\ got' = got /\ queued' = queued
        /\ \A d \in Conns \ {c} : pipe'[d] = pipe[d]
    BY <1>7 DEF RouterEnds, Typed, TypeOK
  <2> QED BY <1>7, <2>1, LineCut, OrderOf DEF Ordered
<1> QED BY <1>1, <1>2, <1>3, <1>4, <1>5, <1>6, <1>7 DEF Next, Pump

(* Frames reach the browser in the order they were queued, none of them      *)
(* twice, whatever reads are cancelled (door.rs:176-198).                     *)
THEOREM FramesComeOnce == Spec => []NeverTwice
<1>1. Ordered => NeverTwice
  BY DEF Ordered, Line, NeverTwice
<1> QED BY <1>1, TypeStart, TypeStep, OrderStart, OrderStep, PTL DEF Spec

-----------------------------------------------------------------------------
(* The order of answers: what the router heard, then what is being written to *)
(* it, then what is in the socket, and all of it was said.                     *)

LEMMA AnswersAppend == ASSUME NEW S, NEW s \in Seq(S), NEW x \in S
                       PROVE  Answers(Append(s, x)) = Answers(s) \cup ({x} \ {Call, Ping, Close})
<1>1. {Append(s, x)[i] : i \in DOMAIN Append(s, x)} = {s[i] : i \in DOMAIN s} \cup {x}
  <2>1. /\ DOMAIN s = 1..Len(s) /\ Len(s) \in Nat
        /\ DOMAIN Append(s, x) = 1..(Len(s) + 1)
        /\ \A i \in 1..Len(s) : Append(s, x)[i] = s[i]
        /\ Append(s, x)[Len(s) + 1] = x
    BY AppendProperties
  <2> QED BY <2>1
<1> QED BY <1>1 DEF Answers

LEMMA AnswersTail == ASSUME NEW S, NEW s \in Seq(S), s # <<>>
                     PROVE  Answers(s) = Answers(Tail(s)) \cup ({Head(s)} \ {Call, Ping, Close})
<1>1. {s[i] : i \in DOMAIN s} = {Tail(s)[i] : i \in DOMAIN Tail(s)} \cup {Head(s)}
  <2>1. /\ DOMAIN s = 1..Len(s) /\ Len(s) \in Nat \ {0} /\ Head(s) = s[1]
        /\ DOMAIN Tail(s) = 1..(Len(s) - 1)
        /\ \A i \in 1..(Len(s) - 1) : Tail(s)[i] = s[i + 1]
    OBVIOUS
  <2>2. \A i \in DOMAIN s : i = 1 \/ (i - 1 \in DOMAIN Tail(s) /\ Tail(s)[i - 1] = s[i])
    BY <2>1
  <2>3. \A i \in DOMAIN Tail(s) : i + 1 \in DOMAIN s /\ s[i + 1] = Tail(s)[i]
    BY <2>1
  <2>4. 1 \in DOMAIN s /\ Head(s) = s[1]
    BY <2>1
  <2>5. {s[i] : i \in DOMAIN s} \subseteq {Tail(s)[i] : i \in DOMAIN Tail(s)} \cup {Head(s)}
    BY <2>2, <2>4
  <2>6. {Tail(s)[i] : i \in DOMAIN Tail(s)} \cup {Head(s)} \subseteq {s[i] : i \in DOMAIN s}
    BY <2>3, <2>4
  <2> QED BY <2>5, <2>6
<1> QED BY <1>1 DEF Answers

\* What the router heard is the least of it.
Said(c) ==
    /\ Answers(said[c]) = Answers(heard[c]) \cup Unheard(c) \cup Answers(socket[c])
    /\ \A i, j \in DOMAIN heard[c] : i < j => heard[c][i] < heard[c][j]
    /\ \A i \in DOMAIN heard[c] :
           /\ heard[c][i] <= Len(said[c])
           /\ \A x \in Unheard(c) : heard[c][i] < x
           /\ \A k \in DOMAIN socket[c] : socket[c][k] > 0 => heard[c][i] < socket[c][k]
    /\ \A x \in Unheard(c) :
           /\ x <= Len(said[c])
           /\ \A k \in DOMAIN socket[c] : socket[c][k] > 0 => x < socket[c][k]
    /\ \A k \in DOMAIN socket[c] : socket[c][k] > 0 =>
           /\ socket[c][k] <= Len(said[c])
           /\ \A l \in DOMAIN socket[c] : k < l /\ socket[c][l] > 0 =>
                  socket[c][k] < socket[c][l]

InTurn == \A c \in Conns : Said(c)

LEMMA SaidKept ==
    ASSUME NEW c \in Conns, Said(c), heard'[c] = heard[c], socket'[c] = socket[c],
           said'[c] = said[c], Unheard(c)' = Unheard(c)
    PROVE  Said(c)'
BY DEF Said

LEMMA SaidEmpty ==
    ASSUME Typed, NEW c \in Conns, Quit(c)
    PROVE  Said(c)'
<1>1. heard'[c] = <<>> /\ socket'[c] = <<>> /\ said'[c] = <<>> /\ at'[c] = "closed"
  BY DEF Quit, Goto, Typed, TypeOK
<1> QED BY <1>1 DEF Said, Answers, Unheard

\* The first message of the socket is written to the router if it is an answer.
LEMMA SaidRead ==
    ASSUME Typed, NEW c \in Conns, Said(c), Unheard(c) = {},
           socket[c] # <<>>, socket'[c] = Tail(socket[c]),
           heard'[c] = heard[c], said'[c] = said[c],
           Unheard(c)' = {Head(socket[c])} \ {Call, Ping, Close}
    PROVE  Said(c)'
<1>1. /\ socket[c] \in Seq(Messages) /\ heard[c] \in Seq(Nat \ {0}) /\ Len(said[c]) \in Nat
      /\ Head(socket[c]) = socket[c][1] /\ 1 \in DOMAIN socket[c]
      /\ Head(socket[c]) \in Messages
  BY DEF Typed, TypeOK
<1>2. \A k \in DOMAIN socket'[c] : /\ k + 1 \in DOMAIN socket[c] /\ k \in Nat \ {0}
                                   /\ socket'[c][k] = socket[c][k + 1]
  BY <1>1
<1>3. Answers(said[c])' = Answers(heard[c])' \cup Unheard(c)' \cup Answers(socket[c])'
  <2>1. Answers(socket[c]) = Answers(Tail(socket[c])) \cup Unheard(c)'
    BY <1>1, AnswersTail
  <2>2. /\ Answers(said[c])' = Answers(said[c]) /\ Answers(heard[c])' = Answers(heard[c])
        /\ Answers(socket[c])' = Answers(Tail(socket[c]))
    BY DEF Answers
  <2> QED BY <2>1, <2>2 DEF Said
<1>4. \A x \in Unheard(c)' : x = socket[c][1] /\ x > 0
  BY <1>1 DEF Messages, Call, Ping, Close
<1>5. \A x \in Unheard(c)' :
          /\ x <= Len(said'[c])
          /\ \A k \in DOMAIN socket'[c] : socket'[c][k] > 0 => x < socket'[c][k]
          /\ \A i \in DOMAIN heard'[c] : heard'[c][i] < x
  <2>1. \A k \in DOMAIN socket'[c] : 1 < k + 1
    BY <1>2
  <2> QED BY <1>1, <1>2, <1>4, <2>1 DEF Said
<1>6. \A k \in DOMAIN socket'[c] : socket'[c][k] > 0 =>
           /\ socket'[c][k] <= Len(said'[c])
           /\ \A l \in DOMAIN socket'[c] : k < l /\ socket'[c][l] > 0 =>
                  socket'[c][k] < socket'[c][l]
           /\ \A i \in DOMAIN heard'[c] : heard'[c][i] < socket'[c][k]
  BY <1>2 DEF Said
<1> QED BY <1>3, <1>5, <1>6 DEF Said

\* What was unheard is heard, after everything else.
LEMMA SaidWritten ==
    ASSUME Typed, NEW c \in Conns, Said(c), at[c] = "write", Unheard(c)' = {},
           socket'[c] = socket[c], said'[c] = said[c],
           heard'[c] = Append(heard[c], sending[c])
    PROVE  Said(c)'
<1>1. /\ heard[c] \in Seq(Nat \ {0}) /\ sending[c] \in Nat \ {0}
      /\ Unheard(c) = {sending[c]}
  BY DEF Typed, TypeOK, Frames, Unheard
<1>2. /\ Len(heard[c]) \in Nat /\ DOMAIN heard[c] = 1..Len(heard[c])
      /\ DOMAIN heard'[c] = 1..(Len(heard[c]) + 1)
      /\ heard'[c][Len(heard[c]) + 1] = sending[c]
      /\ \A i \in DOMAIN heard[c] : heard'[c][i] = heard[c][i]
  BY <1>1
<1>3. Answers(said[c])' = Answers(heard[c])' \cup Unheard(c)' \cup Answers(socket[c])'
  <2>1. Answers(Append(heard[c], sending[c])) = Answers(heard[c]) \cup {sending[c]}
    <3>1. sending[c] \notin {Call, Ping, Close}
      BY <1>1 DEF Call, Ping, Close
    <3> QED BY <1>1, <3>1, AnswersAppend
  <2>2. /\ Answers(said[c])' = Answers(said[c]) /\ Answers(socket[c])' = Answers(socket[c])
        /\ Answers(heard[c])' = Answers(Append(heard[c], sending[c]))
    BY DEF Answers
  <2> QED BY <1>1, <2>1, <2>2 DEF Said
<1>4. \A i \in DOMAIN heard'[c] :
           /\ heard'[c][i] <= Len(said'[c])
           /\ \A j \in DOMAIN heard'[c] : i < j => heard'[c][i] < heard'[c][j]
           /\ \A k \in DOMAIN socket'[c] : socket'[c][k] > 0 => heard'[c][i] < socket'[c][k]
  BY <1>1, <1>2 DEF Said
<1> QED BY <1>3, <1>4 DEF Said

\* The next answer is a greater number than all before.
LEMMA SaidMore ==
    ASSUME Typed, NEW c \in Conns, Said(c), Say(c)
    PROVE  Said(c)'
<1>1. PICK m \in {Len(said[c]) + 1, Call, Ping, Close} :
          /\ socket'[c] = Append(socket[c], m)
          /\ said'[c] = Append(said[c], IF m > 0 THEN m ELSE 0)
  BY DEF Say, Push, Typed, TypeOK
<1> DEFINE r == IF m > 0 THEN m ELSE 0
<1>2. /\ socket[c] \in Seq(Messages) /\ heard[c] \in Seq(Nat \ {0}) /\ said[c] \in Seq(Nat)
      /\ Len(said[c]) \in Nat /\ m \in Messages /\ r \in Nat
      /\ m > 0 => m = Len(said[c]) + 1
      /\ {r} \ {Call, Ping, Close} = {m} \ {Call, Ping, Close}
  BY <1>1 DEF Typed, TypeOK, Messages, Call, Ping, Close
<1>3. heard' = heard /\ Unheard(c)' = Unheard(c)
  BY DEF Say, Unheard, outward
<1>4. Answers(said[c])' = Answers(heard[c])' \cup Unheard(c)' \cup Answers(socket[c])'
  <2>1. Answers(Append(said[c], r)) = Answers(said[c]) \cup ({r} \ {Call, Ping, Close})
    <3>1. said[c] \in Seq(Nat) /\ r \in Nat
      BY <1>2
    <3> HIDE DEF r
    <3> QED BY <3>1, AnswersAppend
  <2>2. Answers(Append(socket[c], m)) = Answers(socket[c]) \cup ({m} \ {Call, Ping, Close})
    <3>1. socket[c] \in Seq(Messages) /\ m \in Messages
      BY <1>2
    <3> QED BY <3>1, AnswersAppend
  <2>3. /\ Answers(said[c])' = Answers(Append(said[c], r))
        /\ Answers(socket[c])' = Answers(Append(socket[c], m))
        /\ Answers(heard[c])' = Answers(heard[c])
    BY <1>1, <1>3 DEF Answers
  <2> QED BY <1>2, <1>3, <2>1, <2>2, <2>3 DEF Said
<1>5. Len(said'[c]) = Len(said[c]) + 1
  BY <1>1, <1>2
<1>6. /\ Len(socket[c]) \in Nat /\ DOMAIN socket[c] = 1..Len(socket[c])
      /\ DOMAIN socket'[c] = 1..(Len(socket[c]) + 1)
      /\ socket'[c][Len(socket[c]) + 1] = m
      /\ \A k \in DOMAIN socket[c] : socket'[c][k] = socket[c][k] /\ socket[c][k] \in Int
  <2>1. Len(socket[c]) \in Nat /\ DOMAIN socket[c] = 1..Len(socket[c])
    BY <1>2, LenProperties
  <2>2. /\ Append(socket[c], m) \in Seq(Messages)
        /\ Len(Append(socket[c], m)) = Len(socket[c]) + 1
        /\ \A k \in 1..Len(socket[c]) : Append(socket[c], m)[k] = socket[c][k]
        /\ Append(socket[c], m)[Len(socket[c]) + 1] = m
    BY <1>2, AppendProperties
  <2>3. DOMAIN Append(socket[c], m) = 1..(Len(socket[c]) + 1)
    BY <2>2, LenProperties
  <2>4. \A k \in DOMAIN socket[c] : socket[c][k] \in Messages
    BY <1>2, <2>1, ElementOfSeq
  <2>5. Messages \subseteq Int
    BY DEF Messages, Call, Ping, Close
  <2> QED BY <1>1, <2>1, <2>2, <2>3, <2>4, <2>5
<1>7. \A x \in Int : x <= Len(said[c]) => x <= Len(said'[c]) /\ (m > 0 => x < m)
  BY <1>2, <1>5
<1>8. \A x \in Unheard(c) : x \in Int
  BY DEF Unheard, Typed, Frames
<1>9. \A i \in DOMAIN heard[c] : heard[c][i] \in Int
  BY <1>2
<1>10. ASSUME NEW k \in DOMAIN socket'[c], socket'[c][k] > 0
       PROVE  /\ socket'[c][k] <= Len(said'[c])
              /\ \A l \in DOMAIN socket'[c] : k < l /\ socket'[c][l] > 0 =>
                     socket'[c][k] < socket'[c][l]
  <2>1. CASE k \in DOMAIN socket[c]
    <3>1. /\ socket'[c][k] = socket[c][k] /\ socket[c][k] \in Int
          /\ socket[c][k] <= Len(said[c])
      BY <1>6, <1>10, <2>1 DEF Said
    <3>2. ASSUME NEW l \in DOMAIN socket'[c], k < l, socket'[c][l] > 0
          PROVE  socket'[c][k] < socket'[c][l]
      <4>1. CASE l \in DOMAIN socket[c]
        BY <1>6, <1>10, <2>1, <3>2, <4>1 DEF Said
      <4>2. CASE l = Len(socket[c]) + 1
        BY <1>6, <1>7, <3>1, <3>2, <4>2
      <4> QED BY <1>6, <4>1, <4>2
    <3> QED BY <1>7, <3>1, <3>2
  <2>2. CASE k = Len(socket[c]) + 1
    BY <1>2, <1>5, <1>6, <1>10, <2>2
  <2> QED BY <1>6, <2>1, <2>2
<1>11. \A x \in Unheard(c) :
           /\ x <= Len(said'[c])
           /\ \A k \in DOMAIN socket'[c] : socket'[c][k] > 0 => x < socket'[c][k]
  BY <1>6, <1>7, <1>8 DEF Said
<1>12. \A i \in DOMAIN heard[c] :
           /\ heard[c][i] <= Len(said'[c])
           /\ \A k \in DOMAIN socket'[c] : socket'[c][k] > 0 => heard[c][i] < socket'[c][k]
  BY <1>6, <1>7, <1>9 DEF Said
<1> QED BY <1>3, <1>4, <1>10, <1>11, <1>12 DEF Said
LEMMA TurnStart == Init => InTurn
BY DEF Init, InTurn, Said, Answers, Unheard

\* A step of one connection leaves what another said as it is.
LEMMA TurnOf ==
    ASSUME Typed, InTurn, NEW c \in Conns, Said(c)',
           \A d \in Conns \ {c} : /\ at'[d] = at[d] /\ sending'[d] = sending[d]
                                  /\ heard'[d] = heard[d] /\ socket'[d] = socket[d]
                                  /\ said'[d] = said[d]
    PROVE  InTurn'
<1>1. ASSUME NEW d \in Conns \ {c} PROVE Said(d)'
  <2>1. Unheard(d)' = Unheard(d)
    BY DEF Unheard
  <2> QED BY <2>1, SaidKept DEF InTurn
<1> QED BY <1>1 DEF InTurn

LEMMA QuitKeepsTurn == ASSUME Typed, InTurn, NEW c \in Conns, Quit(c)
                       PROVE  InTurn'
<1>1. \A d \in Conns \ {c} : /\ at'[d] = at[d] /\ sending'[d] = sending[d]
                             /\ heard'[d] = heard[d] /\ socket'[d] = socket[d]
                             /\ said'[d] = said[d]
  BY DEF Quit, Goto, Typed, TypeOK
<1> QED BY <1>1, SaidEmpty, TurnOf

LEMMA TurnStep == ASSUME Typed, InTurn, [Next]_vars PROVE InTurn'
<1> USE DEF Goto, Push, Pop, inward
<1>1. CASE UNCHANGED vars
  <2>1. \A c \in Conns : Unheard(c)' = Unheard(c)
    BY <1>1 DEF vars, outward, Unheard
  <2> QED BY <1>1, <2>1, SaidKept DEF vars, InTurn
<1>2. ASSUME NEW c \in Conns,
             \/ Admission(c) \/ Refuse(c) \/ Part(c) \/ Sent(c)
             \/ Hush(c) \/ Stall(c) \/ Queue(c) \/ RouterEnds(c)
      PROVE  InTurn'
  <2>1. CASE Quit(c)
    BY <2>1, QuitKeepsTurn
  <2>2. CASE ~Quit(c)
    <3>1. /\ UNCHANGED inward
          /\ \/ at' = at /\ sending' = sending
             \/ /\ at[c] # "write"
                /\ \E where \in {"upgrade", "nonce", "proof", "hello", "select", "send", "closed"} :
                      at' = [at EXCEPT ![c] = where]
                /\ \/ sending' = sending
                   \/ \E x : sending' = [sending EXCEPT ![c] = x]
      BY <1>2, <2>2 DEF Admission, Accept, Upgrade, Nonce, Prove, Admit, Advance, Refuse,
            Part, Consume, Sent, Gives, Passed, Pass, Hush, Stall, Queue, RouterEnds,
            outward, Admitting
    <3>2. Unheard(c)' = Unheard(c)
      BY <3>1 DEF Unheard, Typed, TypeOK
    <3>3. Said(c)'
      BY <3>1, <3>2, SaidKept DEF InTurn
    <3>4. \A d \in Conns \ {c} : at'[d] = at[d] /\ sending'[d] = sending[d]
      BY <3>1 DEF Typed, TypeOK
    <3> QED BY <3>1, <3>3, <3>4, TurnOf
  <2> QED BY <2>1, <2>2
<1>3. ASSUME NEW c \in Conns, Message(c) PROVE InTurn'
  <2> DEFINE m == Head(socket[c])
  <2>1. CASE Quit(c)
    BY <2>1, QuitKeepsTurn
  <2>2. CASE ~Quit(c)
    <3>1. /\ socket[c] # <<>> /\ at[c] = "select"
          /\ socket' = [socket EXCEPT ![c] = Tail(socket[c])]
          /\ heard' = heard /\ said' = said
          /\ \/ m > 0 /\ Pass(c, "write", m)
             \/ m = Call /\ Pass(c, "send", Forbidden)
             \/ m = Ping /\ at' = at /\ sending' = sending
      BY <1>3, <2>2 DEF Message
    <3>2. Unheard(c) = {}
      BY <3>1 DEF Unheard
    <3>3. Unheard(c)' = {m} \ {Call, Ping, Close}
      BY <3>1 DEF Unheard, Pass, Call, Ping, Close, Typed, TypeOK
    <3>4. socket'[c] = Tail(socket[c]) /\ heard'[c] = heard[c] /\ said'[c] = said[c]
      BY <3>1 DEF Typed, TypeOK
    <3>5. Said(c)'
      BY <3>1, <3>2, <3>3, <3>4, SaidRead DEF InTurn
    <3>6. \A d \in Conns \ {c} : /\ at'[d] = at[d] /\ sending'[d] = sending[d]
                                 /\ socket'[d] = socket[d]
      BY <3>1 DEF Pass, Typed, TypeOK
    <3> QED BY <3>1, <3>5, <3>6, TurnOf
  <2> QED BY <2>1, <2>2
<1>4. ASSUME NEW c \in Conns, Write(c) PROVE InTurn'
  <2>1. CASE Quit(c)
    BY <2>1, QuitKeepsTurn
  <2>2. CASE ~Quit(c)
    <3>1. /\ at[c] = "write" /\ at' = [at EXCEPT ![c] = "select"]
          /\ sending' = [sending EXCEPT ![c] = 0]
          /\ heard' = [heard EXCEPT ![c] = Append(heard[c], sending[c])]
          /\ socket' = socket /\ said' = said
      BY <1>4, <2>2 DEF Write, Written, Passed, Pass
    <3>2. Unheard(c)' = {} /\ heard'[c] = Append(heard[c], sending[c])
      BY <3>1 DEF Unheard, Typed, TypeOK
    <3>3. Said(c)'
      BY <3>1, <3>2, SaidWritten DEF InTurn
    <3>4. \A d \in Conns \ {c} : /\ at'[d] = at[d] /\ sending'[d] = sending[d]
                                 /\ heard'[d] = heard[d]
      BY <3>1 DEF Typed, TypeOK
    <3> QED BY <3>1, <3>3, <3>4, TurnOf
  <2> QED BY <2>1, <2>2
<1>5. ASSUME NEW c \in Conns, PipeEnds(c) \/ Idle(c) PROVE InTurn'
  BY <1>5, QuitKeepsTurn DEF PipeEnds, Idle
<1>6. ASSUME NEW c \in Conns, Say(c) PROVE InTurn'
  <2>1. /\ at' = at /\ sending' = sending /\ heard' = heard
        /\ \A d \in Conns \ {c} : socket'[d] = socket[d] /\ said'[d] = said[d]
    BY <1>6 DEF Say, outward, Typed, TypeOK
  <2> QED BY <1>6, <2>1, SaidMore, TurnOf DEF InTurn
<1> QED BY <1>1, <1>2, <1>3, <1>4, <1>5, <1>6 DEF Next, Pump

(* The router hears the answers of a browser in order, each once, and none   *)
(* is lost while the pump goes on (door.rs:22-28).                            *)
THEOREM AnswersComeInOrder == Spec => []PipedInOrder
<1>1. InTurn => PipedInOrder
  BY DEF InTurn, Said, PipedInOrder
<1> QED BY <1>1, TypeStart, TypeStep, TurnStart, TurnStep, PTL DEF Spec
=============================================================================
