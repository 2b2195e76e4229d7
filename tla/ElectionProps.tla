---------------------------- MODULE ElectionProps ----------------------------
(* What the election should guarantee, stated about Election. *)
EXTENDS Election

(* A process that says it is the router holds the lock, also while it        *)
(* resigns: its own node is never told to trust a door that another process  *)
(* is about to make (elect.rs:83-90,98-110).                                 *)
ElectedHolds == \A p \in Procs : elected[p] /\ Alive(p) => lock = p

(* The door of the router that serves is the one at the address: no process  *)
(* that stands, resigns or takes over ever unlinks or replaces it            *)
(* (elect.rs:23-25, os/unix.rs:138-146, tests/election.rs:412-440).          *)
ServingIsReachable ==
    \A p \in Procs : At(p, "serve") => lock = p /\ p \in open /\ address = p

(* A node is joined to the lock holder and to nobody else, though it reads   *)
(* who serves the door and who holds the lock at different moments: never to *)
(* the rogue, and never to a process that lost or gave up the lock and lives *)
(* (node.rs:9-12,146-157, tests/election.rs:553-585).                        *)
JoinedToTheHolder ==
    \A p \in Procs : Alive(p) /\ node[p] = "joined" =>
        /\ peer[p] \in Procs
        /\ Alive(peer[p]) => At(peer[p], "serve") /\ lock = peer[p]

(* Whatever died, once the rogue has left the address, the holder's record   *)
(* was written and no child holds what a dead router had, every node comes   *)
(* to be joined to a live router and stays so, as long as some process       *)
(* stands (elect.rs:3-10, node.rs:3-7).                                      *)
Undisturbed ==
    /\ address # Rogue
    /\ \E p \in Procs : Alive(p) /\ ~At(p, "out")
    /\ platform = "windows" /\ lock # None /\ At(lock, "serve") => record = lock

Orphans == {p \in children : ~Alive(p)}

AllJoined == \A p \in Procs : Alive(p) => node[p] = "joined" /\ Alive(peer[p])

Converges == <>[](Undisturbed /\ Orphans = {}) => <>[]AllJoined
=============================================================================
