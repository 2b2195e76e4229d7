------------------------------ MODULE NodeProps ------------------------------
(* What callers of a node may rely on, stated about Node. *)
EXTENDS Node

(* A call that returns an answer, or the news that nobody has that name,     *)
(* returns what came from the one it asked (node.rs:14-16,205-212).          *)
AnsweredByTheAsked ==
    \A k \in Calls : result[k] \in Frames => result[k].from = to[k]

(* No call is stranded: while one waits with nothing to return, it is the    *)
(* outstanding call, and the session it was sent on has not got past failing *)
(* it - though the caller arms and sends under two locks and the end of a    *)
(* session clears the writer, the flag and the call under three              *)
(* (node.rs:75-82,128-139).                                                  *)
NoneStranded ==
    \A k \in Calls : At(k, "await") /\ result[k] = None =>
        /\ waiting = [who |-> to[k], call |-> k]
        /\ tx \/ driver \in {"endUp", "endWaiting"}

(* A call that is outstanding when the connection drops comes back without   *)
(* its timeout's help (node.rs:77-82).                                       *)
DropEndsTheCall ==
    \A k \in Calls : (At(k, "await") /\ cut) ~> At(k, "back")

(* The node comes back for good once the connection stops dropping: its      *)
(* writer is there and callers are let through (node.rs:3-7,61-86).          *)
StaysJoined == <>[](up /\ tx /\ greeted = "welcomed")

(* The node with its turn, flag, writer and teardown keeps what Asks         *)
(* promises: whatever the session does meanwhile, one question at a time is  *)
(* before the router, and a call ends once, for good, with what came from    *)
(* the one it asked or an error, never with another's turn in its hands      *)
(* (node.rs:14-16,96-143).                                                   *)
Promise == INSTANCE Asks WITH
              Replies <- Frames \ {Welcome},
              asked <- to,
              outcome <- [k \in Calls |-> IF At(k, "back") THEN result[k] ELSE None]

KeepsAsks == Promise!Spec

(* "correlation lives in the payload's schema, not the envelope, so the node *)
(* does not interleave two calls it could not tell apart" (node.rs:14-16): a *)
(* call returns the answer to its own question.                              *)
AnswersItsQuestion ==
    \A k \in Calls : result[k] \in Frames => result[k].call = k
=============================================================================
