----------------------------- MODULE MCElection -----------------------------
(* Election on a small instance, on both platforms. *)
EXTENDS ElectionProps

CONSTANTS p1, p2, p3

MCProcs == {p1, p2, p3}
MCPlatforms == {"unix", "windows"}
=============================================================================
