-------------------------------- MODULE Asks --------------------------------
(***************************************************************************)
(* What a node promises those who ask (`call` and `nodes` of src/node.rs),  *)
(* with no sessions, channels or locks in sight: one call at a time has the *)
(* turn; a call ends once, and keeps its end; it ends with what came from   *)
(* the one it asked, or fails; and one that never had the turn can only     *)
(* time out.                                                                *)
(***************************************************************************)

CONSTANTS
    Calls,      \* the calls ever made
    Peers,      \* who can be asked
    Replies,    \* what they can reply, the names of their senders in it
    TimedOut,   \* how a call ends that waited too long
    Changed,    \* how it ends when the router changed
    None        \* nobody, not yet

VARIABLES
    asked,      \* whom each call asks
    turn,       \* the call whose question is before the router
    outcome     \* what each call returned

vars == <<asked, turn, outcome>>

Init == /\ asked = [k \in Calls |-> None]
        /\ turn = None
        /\ outcome = [k \in Calls |-> None]

Waits(k) == asked[k] # None /\ outcome[k] = None

Ask(k, p) == /\ asked[k] = None
             /\ asked' = [asked EXCEPT ![k] = p]
             /\ UNCHANGED <<turn, outcome>>

Begin(k) == /\ Waits(k)
            /\ turn = None
            /\ turn' = k
            /\ UNCHANGED <<asked, outcome>>

\* What came from the one asked, or a failure.
Ends(k, r) == r \in Replies => r.from = asked[k]

End(k, r) == /\ Waits(k)
             /\ turn = k
             /\ Ends(k, r)
             /\ turn' = None
             /\ outcome' = [outcome EXCEPT ![k] = r]
             /\ UNCHANGED asked

GiveUp(k) == /\ Waits(k)
             /\ turn # k
             /\ outcome' = [outcome EXCEPT ![k] = TimedOut]
             /\ UNCHANGED <<asked, turn>>

Next == \E k \in Calls : \/ \E p \in Peers : Ask(k, p)
                         \/ Begin(k)
                         \/ \E r \in Replies \cup {Changed, TimedOut} : End(k, r)
                         \/ GiveUp(k)

Spec == Init /\ [][Next]_vars
=============================================================================
