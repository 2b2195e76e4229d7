----------------------------- MODULE RouterProps -----------------------------
(***************************************************************************)
(* What the router should guarantee, stated about Router.                  *)
(***************************************************************************)
EXTENDS Router

(* No ghost seat: an entry of the registry names a connection that          *)
(* registered that very id and whose task has not got past the removal, so  *)
(* no id stays wedged by a connection that ended (router.rs:89-92,147-157). *)
EntryIsServed == \A i \in Ids : peers[i] # None =>
                     /\ id[peers[i]] = i
                     /\ phase[peers[i]] \in Serving

(* While a connection is served it holds its id, unless a newer one took the *)
(* id and its evict channel fired: nobody loses a seat without being told,   *)
(* and the end of an older connection does not clobber a faster reconnect    *)
(* (router.rs:35-37).                                                        *)
LosesSeatOnlyByEviction ==
    \A c \in Conns : phase[c] \in Serving => (evicted[c] <=> peers[id[c]] # c)

(* The list a connection asked for and receives itself names its own id,    *)
(* though the registry is read and the reply queued under two locks         *)
(* (router.rs:177-185, python/tests/test_embed.py:81).                      *)
ListsTheAsker ==
    \A c \in Conns : \A n \in DOMAIN mailbox[c] :
        LET m == mailbox[c][n]
        IN m.typ = "PROVIDERS" /\ m.by = c => id[c] \in m.list

(* A frame comes back as no_route only if nobody has that name or whoever has *)
(* it closed: a pump that died before its task noticed, or is being replaced *)
(* by a take-over, never makes a live registered node unreachable            *)
(* (router.rs:125-131,196-205,226-231).                                      *)
NoRouteIsTrue ==
    [][\A c \in Conns, i \in Ids :
          phase[c] = "relay" /\ phase'[c] = "reply" /\ pending'[c] = Refusal(c, i) =>
              peers[i] = None \/ ~open[peers[i]]]_vars

-----------------------------------------------------------------------------
\* Every task waits for its client and every mailbox is drained.
Quiet == \A c \in Conns :
            /\ \/ phase[c] \in {"hello", "done"}
               \/ phase[c] = "relay" /\ open[c] /\ ~evicted[c]
            /\ mailbox[c] = <<>>

\* No second connection ever registered i.
UsedOnce(i) == \A c, d \in Conns : id[c] = i /\ id[d] = i => c = d

(* Presence ends up true: once all is quiet, what a registered client last   *)
(* heard of an id is what the registry holds, provided no second connection  *)
(* ever took that id (router.rs:134-139,147-166).                            *)
PresenceSettles ==
    Quiet => \A c \in Conns, i \in Ids :
                phase[c] = "relay" /\ UsedOnce(i) =>
                    /\ heard[c][i] = "connected" => peers[i] # None
                    /\ heard[c][i] = "gone" => peers[i] = None

(* Of two registered nodes at least one was told of the other: a connection *)
(* enters the registry before it is announced, so two that arrive together  *)
(* cannot miss each other (router.rs:95-139).                               *)
EveryPairIsIntroduced ==
    Quiet => \A c, d \in Conns :
                /\ c # d
                /\ phase[c] = "relay" /\ UsedOnce(id[c])
                /\ phase[d] = "relay" /\ UsedOnce(id[d])
                => heard[c][id[d]] = "connected" \/ heard[d][id[c]] = "connected"

-----------------------------------------------------------------------------
(* The registry keeps the promise of Seats: only a UDS hello unseats, a      *)
(* departure frees no seat but its own, and whoever lost a seat never sits   *)
(* again (router.rs:64-67,94-112,147-157).                                   *)
Seating == INSTANCE Seats WITH
              seat <- peers,
              past <- {c \in Conns : id[c] # None /\ peers[id[c]] # c}

KeepsSeats == Seating!Spec

-----------------------------------------------------------------------------
(* A registered connection that closed, or whose id was taken, comes to its  *)
(* end and leaves no entry behind, whatever its client goes on doing         *)
(* (router.rs:38-40,141-157).                                                *)
Over(c) == id[c] # None /\ (~open[c] \/ evicted[c])

Forgotten(c) == phase[c] = "done" /\ \A i \in Ids : peers[i] # c

OverIsForgotten == \A c \in Conns : Over(c) ~> Forgotten(c)
=============================================================================
