------------------------------ MODULE DoorProps ------------------------------
(* What the door should guarantee, stated about Door. *)
EXTENDS Door

(* "eight connections at most are between accept and HELLO at any time"      *)
(* (door.rs:31): the permits account for exactly the connections being       *)
(* admitted, so none is lost to one that was refused, timed out or admitted. *)
GateCounts == /\ held = {c \in Conns : at[c] \in Admitting}
              /\ Cardinality(held) <= Gate

(* A connection of which the router hears passed the origin check, and the   *)
(* proof unless its origin needs none (door.rs:5-20).                        *)
OnlyTheProven == \A c \in Conns : at[c] \in Pumping =>
                     origin[c] = "blink" \/ (origin[c] = "random" /\ c \in Paired)

(* "piped into router::handle exactly as a UDS stream would be"              *)
(* (door.rs:22-28): the router hears the answers the browser sent, in order, *)
(* each once, and none is lost while the pump goes on.                       *)
Answers(s) == {s[i] : i \in DOMAIN s} \ {Call, Ping, Close}

Unheard(c) == IF at[c] = "write" THEN {sending[c]} ELSE {}

PipedInOrder ==
    \A c \in Conns : at[c] \in Pumping =>
        /\ Answers(said[c]) = Answers(heard[c]) \cup Unheard(c) \cup Answers(socket[c])
        /\ \A i, j \in DOMAIN heard[c] : i < j => heard[c][i] < heard[c][j]

(* Frames of the router reach the browser in the order they were queued,     *)
(* none of them twice, though a cancelled read may lose some                 *)
(* (door.rs:176-198).                                                        *)
NeverTwice ==
    \A c \in Conns : \A i, j \in DOMAIN got[c] :
        i < j /\ got[c][i] \in Frames /\ got[c][j] \in Frames => got[c][i] < got[c][j]

(* "60 s of silence closes it" (door.rs:29), as far as the code keeps it: a  *)
(* browser that went silent is closed, whatever was on its way to or from    *)
(* it, unless it has stopped reading too: the timer is not polled while a    *)
(* frame is being sent (door.rs:193).                                        *)
SilenceCloses == \A c \in Conns : mute[c] ~> (at[c] = "closed" \/ stalled[c])

(* "The same bytes ride every transport" (frame.rs:21-23): what a browser    *)
(* receives is what the router queued, frame by frame, and its refusals.     *)
SameFrames ==
    \A c \in Conns : LET frames == SelectSeq(got[c], LAMBDA x : x # Forbidden)
                     IN \A i \in DOMAIN frames : frames[i] = i
=============================================================================
