----------------------------- MODULE NamesProps -----------------------------
(* What ids should guarantee, stated about Names. *)
EXTENDS Names

TypeOK == /\ host \in Labels
          /\ at \in [Conns -> {"hello", "in", "out"}]
          /\ said \in [Conns -> Proposals \cup Ids \cup {None}]
          /\ id \in [Conns -> Ids \cup {None}]

(* "a door context can never become, or evict, an engine, an agent or any    *)
(* other node" (door.rs:26-27,206-222): what comes through the door is       *)
(* registered as a browser, though the door looks at the proposal with       *)
(* another parser than the one that makes the id.                            *)
OnlyBrowsersThroughTheDoor ==
    \A c \in Door : at[c] = "in" => id[c][1] = BROWSER

(* "The router stamps it at hello; a node never chooses it" and names are    *)
(* "distinct among nodes of one kind on one host" (id.rs:4-9): nodes that    *)
(* are registered have the router's host and differ in kind or name,         *)
(* whatever hosts they claimed and whichever router they come from.          *)
OneSeatPerName ==
    \A c \in Conns : at[c] = "in" =>
        /\ id[c][2] = host
        /\ \A d \in Conns \ {c} : at[d] = "in" =>
              <<id[c][1], id[c][3]>> # <<id[d][1], id[d][3]>>

(* "stable across its reconnects" (id.rs:8-9), "a node that reconnects after *)
(* a router takeover must get its id back" (router.rs:64-66): a node that    *)
(* dials again, with what it proposed or with the id it was given by another *)
(* router, even one of another hostname, is never somebody else.             *)
StaysItself ==
    [][\A c \in Conns : id[c] # None => /\ id'[c] # None
                                        /\ id'[c][1] = id[c][1]
                                        /\ id'[c][3] = id[c][3]]_vars
=============================================================================
