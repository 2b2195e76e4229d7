------------------------------- MODULE MCDoor -------------------------------
(* Door on a small instance: a browser of the fixed origin, a paired one and  *)
(* one without the key, and one permit.                                       *)
EXTENDS DoorProps, TLC

CONSTANTS c1, c2, c3

MCConns == {c1, c2, c3}
MCOrigin == (c1 :> "blink") @@ (c2 :> "random") @@ (c3 :> "random")
MCPaired == {c2}

\* The paired browser talks, the other only comes, falls silent and goes.
MCMessages == [c \in MCConns |-> IF c = c2 THEN 1 ELSE 0]
MCFrames == [c \in MCConns |-> IF c = c2 THEN 2 ELSE 0]

MCOne == {c2}
MCOneOrigin == (c2 :> "random")
MCTwoEach == (c2 :> 2)
=============================================================================
