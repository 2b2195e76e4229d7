-------------------------------- MODULE Node --------------------------------
(***************************************************************************)
(* A node (src/node.rs): the task that `join` spawns, which dials, runs a   *)
(* session and dials again when it drops, and the callers of `call` and     *)
(* `nodes`, which take turns to put one question to the router and wait.    *)
(* The two sides share `tx`, `up` and `waiting`, each behind a lock of its  *)
(* own, and nothing else: every use of one of them is a step.               *)
(*                                                                         *)
(* The router and the other nodes are there only as far as this node can    *)
(* tell: the router takes its frames, refuses or passes them on, registers  *)
(* it and may go at any time; whoever was asked answers late, or through    *)
(* the next router, or never.  Frame contents are left out; `call` in a     *)
(* frame is not on the wire, it names the call the frame answers.           *)
(***************************************************************************)
EXTENDS Naturals, Sequences

CONSTANTS
    Calls,      \* the calls ever made on this node
    Peers,      \* who can be asked: other nodes, and the router itself
    Zapd,       \* the router, asked for the list of nodes
    None,       \* nobody, nothing
    MaxCuts     \* how often the connection drops

ASSUME NodeAssumption == /\ Zapd \in Peers
                         /\ None \notin Calls \cup Peers
                         /\ MaxCuts \in Nat

VARIABLES
    step,       \* where each call stands in `ask`
    to,         \* whom it asks
    result,     \* what its oneshot channel holds, or what it returned
    turn,       \* the call that holds the turn
    waiting,    \* the one outstanding call and who must answer it
    tx,         \* the node has a live connection's writer
    up,         \* what the watch channel says
    driver,     \* where the task of `join` stands
    inbox,      \* frames from the router this session has not read
    outbox,     \* calls queued for the writer task of this session
    greeted,    \* how far the router got: not yet, entered, welcomed
    cut,        \* the router's end of this session is closed
    cuts,       \* how many sessions were cut so far
    asked       \* calls that reached the one asked and are not answered yet

caller == <<step, to, turn>>
shared == <<result, waiting, tx, up>>
wire == <<inbox, outbox, greeted, cut, cuts, asked>>
vars == <<caller, shared, driver, wire>>

Welcome == [typ |-> "WELCOME"]
Answer(k) == [typ |-> "ANSWER", from |-> to[k], call |-> k]
NoRoute(k) == [typ |-> "NO_ROUTE", from |-> to[k], call |-> k]

Frames == {Welcome}
            \cup [typ : {"ANSWER", "NO_ROUTE"}, from : Peers, call : Calls]
\* What a call fails with of itself: "router changed", or its timeout.
Changed == [typ |-> "CHANGED"]
TimedOut == [typ |-> "TIMED_OUT"]
Results == Frames \cup {None, Changed, TimedOut}

Waiters == [who : Peers, call : Calls]

ASSUME NothingAssumption == None \notin Frames \cup {Changed, TimedOut} \cup Waiters

TypeOK == /\ step \in [Calls -> {"idle", "turn", "up", "arm", "send", "await", "back"}]
          /\ to \in [Calls -> Peers \cup {None}]
          /\ result \in [Calls -> Results]
          /\ turn \in Calls \cup {None}
          /\ waiting \in Waiters \cup {None}
          /\ tx \in BOOLEAN
          /\ up \in BOOLEAN
          /\ driver \in {"dial", "session", "welcomed", "endTx", "endUp", "endWaiting"}
          /\ inbox \in Seq(Frames)
          /\ outbox \subseteq Calls
          /\ greeted \in {"no", "entered", "welcomed"}
          /\ cut \in BOOLEAN
          /\ cuts \in 0..MaxCuts
          /\ asked \subseteq Calls

Init == /\ step = [k \in Calls |-> "idle"]
        /\ to = [k \in Calls |-> None]
        /\ result = [k \in Calls |-> None]
        /\ turn = None
        /\ waiting = None
        /\ tx = FALSE
        /\ up = FALSE
        /\ driver = "dial"
        /\ inbox = <<>>
        /\ outbox = {}
        /\ greeted = "no"
        /\ cut = FALSE
        /\ cuts = 0
        /\ asked = {}

-----------------------------------------------------------------------------
(* A caller.  It waits, and its timeout can strike, at "turn", "up" and      *)
(* "await" only; from arming to sending it does not wait.                    *)

At(k, s) == step[k] = s
Goto(k, s) == step' = [step EXCEPT ![k] = s]

Call(k, p) == /\ At(k, "idle")
              /\ to' = [to EXCEPT ![k] = p]
              /\ Goto(k, "turn")
              /\ UNCHANGED <<turn, shared, driver, wire>>

TakeTurn(k) == /\ At(k, "turn")
               /\ turn = None
               /\ turn' = k
               /\ Goto(k, "up")
               /\ UNCHANGED <<to, shared, driver, wire>>

SeeUp(k) == /\ At(k, "up")
            /\ up
            /\ Goto(k, "arm")
            /\ UNCHANGED <<to, turn, shared, driver, wire>>

\* Mutant: the caller's channel is kept, the name it asked is not.
ArmNameless(k) == /\ At(k, "arm")
                  /\ waiting' = [call |-> k]
                  /\ Goto(k, "send")
                  /\ UNCHANGED <<to, turn, result, tx, up, driver, wire>>

\* Whatever an earlier call left in `waiting` is overwritten.
Arm(k) == /\ At(k, "arm")
          /\ waiting' = [who |-> to[k], call |-> k]
          /\ Goto(k, "send")
          /\ UNCHANGED <<to, turn, result, tx, up, driver, wire>>

\* Mutant: a call that waits in the queue gives the turn back, too.
BackFreely(k, r) == /\ Goto(k, "back")
                    /\ result' = [result EXCEPT ![k] = r]
                    /\ turn' = None
                    /\ UNCHANGED to

\* The call is over: it gives the turn back.
Back(k, r) == /\ Goto(k, "back")
              /\ result' = [result EXCEPT ![k] = r]
              /\ turn' = IF turn = k THEN None ELSE turn
              /\ UNCHANGED to

\* Mutant: nobody looks whether there was a channel.
SendUnchecked(k) == /\ At(k, "send")
                    /\ outbox' = IF tx THEN outbox \cup {k} ELSE outbox
                    /\ Goto(k, "await")
                    /\ UNCHANGED <<to, turn, shared, driver, inbox, greeted, cut,
                                   cuts, asked>>

\* The channel takes the frame.  If the session is over its writer is being
\* aborted, and the frame goes nowhere.
Send(k) == /\ At(k, "send")
           /\ tx
           /\ outbox' = IF driver = "endTx" THEN outbox ELSE outbox \cup {k}
           /\ Goto(k, "await")
           /\ UNCHANGED <<to, turn, shared, driver, inbox, greeted, cut, cuts, asked>>

\* There is no channel, or its writer failed or was aborted.
SendFails(k) == /\ At(k, "send")
                /\ ~tx \/ cut
                /\ waiting' = None
                /\ Back(k, Changed)
                /\ UNCHANGED <<tx, up, driver, wire>>

Return(k) == /\ At(k, "await")
             /\ result[k] # None
             /\ Back(k, result[k])
             /\ UNCHANGED <<waiting, tx, up, driver, wire>>

\* Dropping the future releases the turn and leaves `waiting` as it is.
Timeout(k) == /\ step[k] \in {"turn", "up", "await"}
              /\ result[k] = None
              /\ Back(k, TimedOut)
              /\ UNCHANGED <<waiting, tx, up, driver, wire>>

-----------------------------------------------------------------------------
(* The task of `join`. *)

\* Hand r to the outstanding call; a caller that is gone takes nothing.
HandOver(r) == /\ waiting' = None
               /\ result' = [k \in Calls |->
                      IF k = waiting.call /\ step[k] \in {"send", "await"}
                      THEN r ELSE result[k]]

\* Mutant: only the first session is ever dialled.
DialOnce == /\ driver = "dial" /\ cuts = 0
            /\ driver' = "session"
            /\ greeted' = "no"
            /\ cut' = FALSE
            /\ UNCHANGED <<caller, shared, inbox, outbox, cuts, asked>>

\* dial: whoever serves the door holds the lock, and the hello is written.
Dial == /\ driver = "dial"
        /\ driver' = "session"
        /\ greeted' = "no"
        /\ cut' = FALSE
        /\ UNCHANGED <<caller, shared, inbox, outbox, cuts, asked>>

\* settle: the outstanding call gets f if f comes from the one it asked.
Settle(f) == IF waiting # None /\ waiting.who = f.from
             THEN HandOver(f) ELSE UNCHANGED <<waiting, result>>

\* One frame read in `session`.
Read == /\ driver = "session"
        /\ inbox # <<>>
        /\ inbox' = Tail(inbox)
        /\ \/ /\ Head(inbox) = Welcome
              /\ tx' = TRUE
              /\ driver' = "welcomed"
              /\ UNCHANGED <<result, waiting>>
           \/ /\ Head(inbox) # Welcome
              /\ Settle(Head(inbox))
              /\ UNCHANGED <<tx, driver>>
        /\ UNCHANGED <<caller, up, outbox, greeted, cut, cuts, asked>>

\* The rest of the WELCOME arm: callers are let in once the writer is there.
TellUp == /\ driver = "welcomed"
          /\ up' = TRUE
          /\ driver' = "session"
          /\ UNCHANGED <<caller, result, waiting, tx, wire>>

\* The read meets the end of the stream; the writer is aborted with what it had.
End == /\ driver = "session"
       /\ cut
       /\ inbox = <<>>
       /\ outbox' = {}
       /\ driver' = "endTx"
       /\ UNCHANGED <<caller, shared, inbox, greeted, cut, cuts, asked>>

EndTx == /\ driver = "endTx"
         /\ tx' = FALSE
         /\ driver' = "endUp"
         /\ UNCHANGED <<caller, result, waiting, up, wire>>

EndUp == /\ driver = "endUp"
         /\ up' = FALSE
         /\ driver' = "endWaiting"
         /\ UNCHANGED <<caller, result, waiting, tx, wire>>

\* Mutant: the outstanding call is left to its timeout.
EndWaitingNot == /\ driver = "endWaiting"
                 /\ driver' = "dial"
                 /\ UNCHANGED <<caller, shared, wire>>

\* The outstanding call fails; then the task sleeps and dials again.
EndWaiting == /\ driver = "endWaiting"
              /\ IF waiting # None THEN HandOver(Changed)
                                   ELSE UNCHANGED <<waiting, result>>
              /\ driver' = "dial"
              /\ UNCHANGED <<caller, tx, up, wire>>

-----------------------------------------------------------------------------
(* The other end. *)

Live == driver # "dial" /\ ~cut

\* The router enters the node in its registry and queues the welcome: frames
\* for the node's id can come in between.
Greet == /\ Live
         /\ \/ /\ greeted = "no"
               /\ greeted' = "entered"
               /\ UNCHANGED inbox
            \/ /\ greeted = "entered"
               /\ greeted' = "welcomed"
               /\ inbox' = Append(inbox, Welcome)
         /\ UNCHANGED <<caller, shared, driver, outbox, cut, cuts, asked>>

\* The router takes a question: it passes it on, or knows nobody of that name.
Take(k) == /\ Live
           /\ k \in outbox
           /\ outbox' = outbox \ {k}
           /\ \/ asked' = asked \cup {k} /\ UNCHANGED inbox
              \/ /\ to[k] # Zapd
                 /\ inbox' = Append(inbox, NoRoute(k))
                 /\ UNCHANGED asked
           /\ UNCHANGED <<caller, shared, driver, greeted, cut, cuts>>

\* An answer, addressed to the node's id: it reaches whatever session is
\* registered by then, or nobody.
Reply(k) == /\ k \in asked
            /\ asked' = asked \ {k}
            /\ inbox' = IF Live /\ greeted # "no" THEN Append(inbox, Answer(k)) ELSE inbox
            /\ UNCHANGED <<caller, shared, driver, outbox, greeted, cut, cuts>>

\* The router's process exits, or another node took this id.  The router's own
\* answers go with it, other nodes' do not; what is on the wire can be read.
Cut == /\ Live
       /\ cuts < MaxCuts
       /\ cut' = TRUE
       /\ cuts' = cuts + 1
       /\ asked' = {k \in asked : to[k] # Zapd}
       /\ UNCHANGED <<caller, shared, driver, inbox, outbox, greeted>>

-----------------------------------------------------------------------------
Caller(k) == \/ TakeTurn(k) \/ SeeUp(k) \/ Arm(k)
             \/ Send(k) \/ SendFails(k) \/ Return(k)

Driver == Dial \/ Read \/ TellUp \/ End \/ EndTx \/ EndUp \/ EndWaiting

Next == \/ \E k \in Calls : \/ Caller(k)
                            \/ Timeout(k)
                            \/ \E p \in Peers : Call(k, p)
                            \/ Take(k)
                            \/ Reply(k)
        \/ Driver
        \/ Greet
        \/ Cut

\* Ready tasks run, some router can be dialled and greets who comes.  Nobody
\* has to answer, and no timeout has to strike.
Fairness == /\ \A k \in Calls : WF_vars(Caller(k))
            /\ WF_vars(Driver)
            /\ WF_vars(Greet)

Spec == Init /\ [][Next]_vars /\ Fairness
=============================================================================
