------------------------------ MODULE MCRouter ------------------------------
(* Router on small instances: two nodes on the UDS and a browser.            *)
EXTENDS RouterProps, TLC

CONSTANTS u1, u2, b, x, y

MCConns == {u1, u2, b}
MCDoor == {b}

\* Two ids, so that one is taken over while a third party watches.
MCIds == {x, y}
MCSymmetry == Permutations({u1, u2}) \cup Permutations(MCIds)

\* Two nodes that both talk.
MCTalkers == {u1, u2}
MCNoDoor == {}
=============================================================================
