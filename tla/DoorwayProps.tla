---------------------------- MODULE DoorwayProps ----------------------------
(* What should hold of the way to the browser door, stated about Doorway. *)
EXTENDS Doorway

(* "Every door connection reads it afresh" (pair.rs:22, door.rs:232-233): a  *)
(* browser that is in proved a key that the file held at some moment since   *)
(* it connected; a code replaced before that is good for nothing, whichever  *)
(* router serves and however often it was good before.                       *)
OldCodesStayOut == \A b \in Browsers : at[b] = "in" => code[b].key \in seen[b]

(* "the next router elected binds the new port" (pair.rs:164-166): a router  *)
(* elected after the file last changed serves on the port it names and no    *)
(* other, whatever was held when it began.                                   *)
NextRouterBindsTheNewPort ==
    \A r \in fresh : place[r] = "serve" => /\ pairing # None
                                           /\ bound[pairing.port] = r

(* "retrying while the port is held elsewhere: by another program, or for    *)
(* the moment it takes a killed router's process to close its listener"      *)
(* (elect.rs:153-155): once a router stays and what the file says is not     *)
(* squatted, browsers have a door - also if a reset moved it off a port that *)
(* never frees.                                                              *)
Settled == /\ lock # None
           /\ IF pairing = None THEN minted < MaxKeys /\ Free # {}
              ELSE bound[pairing.port] # Squatter

DoorComesUp == <>[]Settled => <>[](lock # None /\ place[lock] = "serve")
=============================================================================
