------------------------------- MODULE MCNode -------------------------------
(* Node on a small instance: calls that ask one other node or the router.    *)
EXTENDS NodeProps

CONSTANTS k1, k2, p

MCCalls == {k1, k2}
MCPeers == {p, Zapd}
=============================================================================
