------------------------------- MODULE MCPair -------------------------------
(* Pair on small instances: each call in a process of its own, or two loads  *)
(* in the threads of one.                                                    *)
EXTENDS PairProps, TLC

CONSTANTS l1, l2, r1, r2, p1, p2, p3

MCLoads == {l1}
MCResets == {r1, r2}
MCProcs == {p1, p2, p3}
MCApart == (l1 :> p1) @@ (r1 :> p2) @@ (r2 :> p3)

MCBrowsers == {l1, l2}
MCRouter == {p1}
MCTogether == [c \in MCBrowsers |-> p1]
MCNoResets == {}
=============================================================================
