-------------------------------- MODULE Seats --------------------------------
(***************************************************************************)
(* What the registry of a zapd router promises, with no locks, tasks or    *)
(* queues in sight.  An id is a seat.  A connection sits on at most one    *)
(* seat, once in its life; a newcomer may unseat whoever sits there unless *)
(* it came through the browser door; a connection that stood up, or was    *)
(* unseated, never sits again, so it can neither clobber the one that      *)
(* replaced it nor hold its id for ever.                                   *)
(***************************************************************************)

CONSTANTS
    Conns,      \* the connections a router ever serves
    Door,       \* those that come through the browser door
    Ids,        \* the ids nodes register
    None        \* nobody sits here

VARIABLES
    seat,       \* who sits on each id
    past        \* the connections that sat once and do not any more

vars == <<seat, past>>

Init == /\ seat = [i \in Ids |-> None]
        /\ past = {}

\* c takes the seat i; whoever sat there is unseated for good.
Sit(c, i) == /\ c \notin past
             /\ \A j \in Ids : seat[j] # c
             /\ c \in Door => seat[i] = None
             /\ seat' = [seat EXCEPT ![i] = c]
             /\ past' = past \cup ({seat[i]} \ {None})

\* c gives its own seat back, and nobody else's.
Rise(c, i) == /\ seat[i] = c
              /\ seat' = [seat EXCEPT ![i] = None]
              /\ past' = past \cup {c}

Next == \E c \in Conns, i \in Ids : Sit(c, i) \/ Rise(c, i)

Spec == Init /\ [][Next]_vars
=============================================================================
