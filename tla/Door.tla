-------------------------------- MODULE Door --------------------------------
(***************************************************************************)
(* The browser door (src/door.rs): a task for each connection, which admits *)
(* it under a permit and a deadline and then pumps frames between the web   *)
(* socket and a pipe whose other end the router handles.                    *)
(*                                                                         *)
(* Admission is one step for each message awaited; a deadline can strike at *)
(* any of them.  The pump is a select over the next message, the next frame *)
(* from the router and the idle timer: taking one arm drops the futures of  *)
(* the others, and with them what the frame reader had consumed of a frame. *)
(* A frame that does not fit the pipe comes in two parts with a wait        *)
(* between them.  Frames to a browser are numbered in the order the router  *)
(* queued them, answers in the order the browser sent them; what is in them *)
(* is left out.  Time is left out too: a timer may expire whenever its arm  *)
(* is polled, and does in the end.                                          *)
(***************************************************************************)
EXTENDS Integers, Sequences, FiniteSets

CONSTANTS
    Conns,       \* the connections made to the door
    origin,      \* the kind of Origin and Host each presents
    Paired,      \* those that hold the pairing key
    Gate,        \* ADMITTING
    MaxMessages, \* how many messages each browser sends once admitted
    MaxFrames    \* how many frames the router queues for each browser

ASSUME DoorAssumption == /\ origin \in [Conns -> {"blink", "random", "other"}]
                         /\ Paired \subseteq Conns
                         /\ Gate \in Nat \ {0}
                         /\ MaxMessages \in [Conns -> Nat]
                         /\ MaxFrames \in [Conns -> Nat]

VARIABLES
    at,          \* where the task of each connection stands
    held,        \* the connections that hold a permit
    socket,      \* messages of each browser that were not read
    heard,       \* messages that reached the router
    pipe,        \* parts of frames the router wrote and the door did not read
    part,        \* what the frame reader of a pending select consumed
    sending,     \* what the task passes on
    got,         \* what each browser received
    ended,       \* the router dropped its end of the pipe
    said,        \* what each browser sent: its answers by number, 0 for the rest
    queued,      \* how many frames the router queued for each browser
    mute,        \* the browser sends nothing any more
    stalled      \* the browser does not read, and its socket is full

admission == <<held>>
inward == <<socket, heard, said>>
outward == <<pipe, part, sending, got, ended, queued>>
browser == <<mute, stalled>>
vars == <<at, admission, inward, outward, browser>>

Admitting == {"upgrade", "nonce", "proof", "hello"}
Pumping == {"select", "write", "send"}

\* A numbered RESPONSE or frame for the router, a frame that calls someone, what
\* the web socket answers by itself, and what cannot be decoded or closes.
Call == 0
Ping == -1
Close == -2
Messages == Nat \cup {Call, Ping, Close}

\* What the task sends: a frame of the router, its refusal, or the bytes of a
\* frame whose beginning was lost.
Frames == Nat \ {0}
Forbidden == 0
Noise == -1
Sendable == Frames \cup {Forbidden, Noise}

Parts == [frame : Frames, part : {"whole", "head", "tail"}]

TypeOK == /\ at \in [Conns -> Admitting \cup Pumping \cup {"away", "closed"}]
          /\ held \subseteq Conns
          /\ socket \in [Conns -> Seq(Messages)]
          /\ heard \in [Conns -> Seq(Nat \ {0})]
          /\ said \in [Conns -> Seq(Nat)]
          /\ pipe \in [Conns -> Seq(Parts)]
          /\ part \in [Conns -> Nat]
          /\ sending \in [Conns -> Sendable]
          /\ got \in [Conns -> Seq(Sendable)]
          /\ ended \in [Conns -> BOOLEAN]
          /\ queued \in [Conns -> Nat]
          /\ mute \in [Conns -> BOOLEAN]
          /\ stalled \in [Conns -> BOOLEAN]

Init == /\ at = [c \in Conns |-> "away"]
        /\ held = {}
        /\ socket = [c \in Conns |-> <<>>]
        /\ heard = [c \in Conns |-> <<>>]
        /\ said = [c \in Conns |-> <<>>]
        /\ pipe = [c \in Conns |-> <<>>]
        /\ part = [c \in Conns |-> 0]
        /\ sending = [c \in Conns |-> 0]
        /\ got = [c \in Conns |-> <<>>]
        /\ ended = [c \in Conns |-> FALSE]
        /\ queued = [c \in Conns |-> 0]
        /\ mute = [c \in Conns |-> FALSE]
        /\ stalled = [c \in Conns |-> FALSE]

Goto(c, where) == at' = [at EXCEPT ![c] = where]

Push(box, c, x) == [box EXCEPT ![c] = Append(@, x)]
Pop(box, c) == [box EXCEPT ![c] = Tail(@)]

-----------------------------------------------------------------------------
(* Admission. *)

\* Mutant: connections wait for a permit that nothing gives back.
AcceptAll(c) == /\ at[c] = "away"
                /\ held' = held \cup {c}
                /\ Goto(c, "upgrade")
                /\ UNCHANGED <<inward, outward, browser>>

\* serve: past the gate a connection is closed on accept.
Accept(c) == /\ at[c] = "away"
             /\ IF Cardinality(held) < Gate
                THEN held' = held \cup {c} /\ Goto(c, "upgrade")
                ELSE Goto(c, "closed") /\ UNCHANGED held
             /\ UNCHANGED <<inward, outward, browser>>

Advance(c, from, to) == /\ at[c] = from
                        /\ Goto(c, to)
                        /\ UNCHANGED <<admission, inward, outward, browser>>

\* Mutant: the callback's flag says admitted, not admitted without a proof.
UpgradeAll(c) == origin[c] # "other" /\ Advance(c, "upgrade", "hello")

\* check: one fixed origin needs no proof, the random ones do.
Upgrade(c) == \/ origin[c] = "blink" /\ Advance(c, "upgrade", "hello")
              \/ origin[c] = "random" /\ Advance(c, "upgrade", "nonce")

\* prove: the client's nonce is answered with the router's proof, and only the
\* key answers that.
Nonce(c) == Advance(c, "nonce", "proof")

Prove(c) == c \in Paired /\ Advance(c, "proof", "hello")

\* Mutant: the permit lives as long as the connection.
AdmitHolding(c) == Advance(c, "hello", "select")

\* browser_hello: the permit is given back, the router handles the other end of
\* a new pipe, and the hello is the first it hears.
Admit(c) == /\ at[c] = "hello"
            /\ held' = held \ {c}
            /\ Goto(c, "select")
            /\ UNCHANGED <<inward, outward, browser>>

\* Refused, gone, out of turn, or 2 s have passed: the task ends.
Refuse(c) == /\ at[c] \in Admitting
             /\ held' = held \ {c}
             /\ Goto(c, "closed")
             /\ UNCHANGED <<inward, outward, browser>>

-----------------------------------------------------------------------------
(* The pump. *)

\* The task ends and drops the socket and the pipe; the connection was all that
\* the browser and the router had to do with each other.
Quit(c) ==
    /\ Goto(c, "closed")
    /\ socket' = [socket EXCEPT ![c] = <<>>] /\ heard' = [heard EXCEPT ![c] = <<>>]
    /\ said' = [said EXCEPT ![c] = <<>>]     /\ pipe' = [pipe EXCEPT ![c] = <<>>]
    /\ part' = [part EXCEPT ![c] = 0]        /\ sending' = [sending EXCEPT ![c] = 0]
    /\ got' = [got EXCEPT ![c] = <<>>]       /\ queued' = [queued EXCEPT ![c] = 0]
    /\ ended' = [ended EXCEPT ![c] = FALSE]  /\ mute' = [mute EXCEPT ![c] = FALSE]
    /\ stalled' = [stalled EXCEPT ![c] = FALSE]
    /\ UNCHANGED admission

Pass(c, where, x) == Goto(c, where) /\ sending' = [sending EXCEPT ![c] = x]

\* Mutant: calls are passed on like answers.
MessageUnchecked(c) == /\ at[c] = "select"
                       /\ socket[c] # <<>>
                       /\ Head(socket[c]) >= Call
                       /\ socket' = Pop(socket, c)
                       /\ part' = [part EXCEPT ![c] = 0]
                       /\ Pass(c, "write", Head(socket[c]))
                       /\ UNCHANGED <<admission, heard, said, pipe, got, ended, queued,
                                      browser>>

\* The first arm of the select: the read of a frame is cancelled.
Message(c) ==
    /\ at[c] = "select"
    /\ socket[c] # <<>>
    /\ LET m == Head(socket[c])
       IN \/ /\ m # Close
             /\ socket' = Pop(socket, c)
             /\ part' = [part EXCEPT ![c] = 0]
             /\ \/ m > 0 /\ Pass(c, "write", m)
                \/ m = Call /\ Pass(c, "send", Forbidden)
                \/ m = Ping /\ UNCHANGED <<at, sending>>
             /\ UNCHANGED <<admission, heard, said, pipe, got, ended, queued, browser>>
          \/ m = Close /\ Quit(c)

Passed(c) == Pass(c, "select", 0)

Written(c, box) == /\ heard' = box
                   /\ Passed(c)
                   /\ UNCHANGED <<admission, socket, said, pipe, part, got, ended, queued,
                                  browser>>

\* Mutant: the write is an arm of the select, and can be cancelled too.
WriteCancelled(c) == /\ at[c] = "write"
                     /\ \E box \in {heard, Push(heard, c, sending[c])} : Written(c, box)

\* write_all to the router, which reads as long as it has the pipe.
Write(c) == /\ at[c] = "write"
            /\ \/ ended[c] /\ Quit(c)
               \/ ~ended[c] /\ Written(c, Push(heard, c, sending[c]))

Consume(c, rest) == /\ pipe' = Pop(pipe, c)
                    /\ part' = [part EXCEPT ![c] = rest]
                    /\ UNCHANGED <<admission, inward, got, ended, queued, browser>>

\* The second arm, the frame reader.  Without its head the tail of a frame is
\* read as the length of another: an error, or bytes that are no frame.
Part(c) ==
    /\ at[c] = "select"
    /\ pipe[c] # <<>>
    /\ LET p == Head(pipe[c])
           lost == p.part = "tail" /\ part[c] # p.frame
       IN \/ p.part = "head" /\ Consume(c, p.frame) /\ UNCHANGED <<at, sending>>
          \/ p.part # "head" /\ ~lost /\ Consume(c, 0) /\ Pass(c, "send", p.frame)
          \/ lost /\ Consume(c, 0) /\ Pass(c, "send", Noise)
          \/ lost /\ Quit(c)

\* The pipe is at its end.
PipeEnds(c) == /\ at[c] = "select"
               /\ ended[c]
               /\ pipe[c] = <<>>
               /\ Quit(c)

Gives(c) == /\ at[c] = "send"
            /\ ~stalled[c]
            /\ got' = Push(got, c, sending[c])
            /\ UNCHANGED <<admission, inward, pipe, part, ended, queued, browser>>

\* Mutant: a send that succeeded is tried again.
SentAgain(c) == /\ Len(got[c]) < 4
                /\ Gives(c)
                /\ Passed(c) \/ UNCHANGED <<at, sending>>

\* ws.send returns when the socket took the message.
Sent(c) == Gives(c) /\ Passed(c)

\* Mutant: the first message starts the timer.
IdleAfterFirst(c) == said[c] # <<>> /\ at[c] = "select" /\ Quit(c)

\* The third arm: no frame came for 60 s; a ping does not count.
Idle(c) == at[c] = "select" /\ Quit(c)

-----------------------------------------------------------------------------
(* The browser and the router. *)

Open(c) == at[c] \in Pumping

Say(c) == /\ Open(c)
          /\ ~mute[c]
          /\ Len(said[c]) < MaxMessages[c]
          /\ \E m \in {Len(said[c]) + 1, Call, Ping, Close} :
                /\ socket' = Push(socket, c, m)
                /\ said' = Push(said, c, IF m > 0 THEN m ELSE 0)
          /\ UNCHANGED <<at, admission, heard, outward, browser>>

\* The browser's machine sleeps, its tab is frozen, or it is wedged.
Hush(c) == /\ Open(c)
           /\ mute' = [mute EXCEPT ![c] = TRUE]
           /\ UNCHANGED <<at, admission, inward, outward, stalled>>

Stall(c) == /\ mute[c]
            /\ stalled' = [stalled EXCEPT ![c] = TRUE]
            /\ UNCHANGED <<at, admission, inward, outward, mute>>

\* The router's pump writes a frame; a large one waits for the door to read.
Queue(c) == /\ Open(c)
            /\ ~ended[c]
            /\ queued[c] < MaxFrames[c]
            /\ LET n == queued[c] + 1
                   P(w) == [frame |-> n, part |-> w]
               IN /\ queued' = [queued EXCEPT ![c] = n]
                  /\ \/ pipe' = Push(pipe, c, P("whole"))
                     \/ pipe' = [pipe EXCEPT ![c] = @ \o <<P("head"), P("tail")>>]
            /\ UNCHANGED <<at, admission, inward, part, sending, got, ended, browser>>

\* The router refuses the hello or ends the connection, perhaps in the middle of
\* a frame it writes.
RouterEnds(c) == /\ Open(c)
                 /\ ended' = [ended EXCEPT ![c] = TRUE]
                 /\ LET parts == pipe[c]
                        n == Len(parts)
                    IN \/ UNCHANGED pipe
                       \/ /\ ~ended[c] /\ n > 0 /\ parts[n].part = "tail"
                          /\ pipe' = [pipe EXCEPT ![c] = SubSeq(parts, 1, n - 1)]
                 /\ UNCHANGED <<at, admission, inward, part, sending, got, queued, browser>>

-----------------------------------------------------------------------------
Admission(c) == Accept(c) \/ Upgrade(c) \/ Nonce(c) \/ Prove(c) \/ Admit(c)

Pump(c) == Message(c) \/ Write(c) \/ Part(c) \/ PipeEnds(c) \/ Sent(c)

Next == \E c \in Conns : \/ Admission(c)
                         \/ Refuse(c)
                         \/ Pump(c) \/ Idle(c)
                         \/ Say(c) \/ Hush(c) \/ Stall(c)
                         \/ Queue(c) \/ RouterEnds(c)

\* The deadline strikes, a task that can go on does, and the idle timer of a
\* silent browser expires if nothing else happens.  A client has to do nothing,
\* nor has the router.
Fairness == \A c \in Conns : WF_vars(Refuse(c) \/ Pump(c) \/ (mute[c] /\ Idle(c)))

Spec == Init /\ [][Next]_vars /\ Fairness
=============================================================================
