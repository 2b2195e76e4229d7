------------------------------ MODULE Doorway -------------------------------
(***************************************************************************)
(* The way to the browser door, composed of the election (browser_door of   *)
(* src/elect.rs), the pairing (src/pair.rs) and the proof (src/door.rs).    *)
(* The pairing file names the port the router is to bind and the key a      *)
(* browser must prove; routers succeed one another; the user mints, resets  *)
(* and deletes at any time; other programs take ports.                      *)
(*                                                                         *)
(* A load or a reset is one step: that the system calls it is made of keep  *)
(* that promise is what Pair shows of Secret.  What the election is made of *)
(* is in Election, the rest of an admission in Door.                        *)
(***************************************************************************)
EXTENDS Naturals, FiniteSets

CONSTANTS
    Routers,    \* the processes that come to be the router
    Browsers,   \* browsers of an origin that must prove its pairing
    Ports,      \* the ports a door may have
    WELL_KNOWN, \* those that a new pairing takes first, least first
    MaxKeys,    \* how many keys are minted
    MaxSquats,  \* how often a port is taken by something else
    None,       \* no pairing, no port
    Squatter    \* another program, or a child that outlives its router

ASSUME DoorwayAssumption == /\ Ports \subseteq Nat
                            /\ WELL_KNOWN \subseteq Ports
                            /\ MaxKeys \in Nat /\ MaxSquats \in Nat
                            /\ None \notin Ports \cup Routers \cup {Squatter}
                            /\ Squatter \notin Routers
                            /\ None \notin [port : Ports, key : Nat]

VARIABLES
    pairing,    \* what the file says
    minted,     \* how many keys there are
    fresh,      \* the routers that began, or minted, after the file's last change
    bound,      \* who listens on each port
    squats,     \* how often a port was taken
    lock,       \* the router
    place,      \* where browser_door stands in each process
    port,       \* the port it loaded
    at,         \* where the admission of each browser's connection stands
    code,       \* the code each browser was given
    key,        \* the key its proof is checked against
    seen        \* the keys that were current since it connected

file == <<pairing, minted, fresh>>
tcp == <<bound, squats>>
task == <<lock, place, port>>
conn == <<at, code, key, seen>>
vars == <<file, tcp, task, conn>>

Keys == 1..MaxKeys
Pairing == [port : Ports, key : Keys]

TypeOK == /\ pairing \in Pairing \cup {None}
          /\ minted \in 0..MaxKeys
          /\ fresh \subseteq Routers
          /\ bound \in [Ports -> Routers \cup {Squatter, None}]
          /\ squats \in 0..MaxSquats
          /\ lock \in Routers \cup {None}
          /\ place \in [Routers -> {"out", "load", "bind", "serve", "dying", "dead"}]
          /\ port \in [Routers -> Ports \cup {None}]
          /\ at \in [Browsers -> {"out", "hello", "proof", "in"}]
          /\ code \in [Browsers -> Pairing \cup {None}]
          /\ key \in [Browsers -> Keys \cup {None}]
          /\ seen \in [Browsers -> SUBSET Keys]

Init == /\ pairing = None
        /\ minted = 0
        /\ fresh = {}
        /\ bound = [p \in Ports |-> None]
        /\ squats = 0
        /\ lock = None
        /\ place = [r \in Routers |-> "out"]
        /\ port = [r \in Routers |-> None]
        /\ at = [b \in Browsers |-> "out"]
        /\ code = [b \in Browsers |-> None]
        /\ key = [b \in Browsers |-> None]
        /\ seen = [b \in Browsers |-> {}]

Goto(r, s) == place' = [place EXCEPT ![r] = s]

-----------------------------------------------------------------------------
(* The pairing. *)

Free == {p \in Ports : bound[p] = None}

\* free_port: the ports it may return.
FreePort == LET known == Free \cap WELL_KNOWN
            IN IF known = {} THEN Free ELSE {p \in known : \A q \in known : p <= q}

\* A new token on a new free port, in the place of what there was.
Mint == /\ minted < MaxKeys
        /\ minted' = minted + 1
        /\ \E p \in FreePort : pairing' = [port |-> p, key |-> minted']
        /\ seen' = [b \in Browsers |-> IF at[b] = "out" THEN seen[b]
                                       ELSE seen[b] \cup {minted'}]

\* load: what pairing' is from now on, minted by one of the routers in `by`.
Load(by) == \/ pairing # None /\ UNCHANGED <<file, seen>>
            \/ pairing = None /\ Mint /\ fresh' = by

\* `zapd pair`: the user copies the code into a browser whose connection is over.
Show(b) == /\ at[b] = "out"
           /\ Load({})
           /\ code' = [code EXCEPT ![b] = pairing']
           /\ UNCHANGED <<tcp, task, at, key>>

\* reset: the load it begins with has found or minted a pairing.
Reset == /\ pairing # None
         /\ Mint
         /\ fresh' = {}
         /\ UNCHANGED <<tcp, task, at, code, key>>

\* The user deletes the file.
Delete == /\ pairing # None
          /\ pairing' = None
          /\ fresh' = {}
          /\ UNCHANGED <<minted, tcp, task, conn>>

-----------------------------------------------------------------------------
(* The router: browser_door. *)

\* The next one elected begins its task.
Elect(r) == /\ lock = None
            /\ place[r] = "out"
            /\ lock' = r
            /\ Goto(r, "load")
            /\ fresh' = fresh \cup {r}
            /\ UNCHANGED <<pairing, minted, tcp, port, conn>>

\* Mutant: the port is loaded once, before the loop.
LoadOnce(r) == /\ place[r] = "load"
               /\ Goto(r, "bind")
               /\ IF port[r] # None THEN UNCHANGED <<file, seen, port>>
                  ELSE Load({r}) /\ port' = [port EXCEPT ![r] = pairing'.port]
               /\ UNCHANGED <<tcp, lock, at, code, key>>

\* A load that fails waits and is made again.
LoadPort(r) == /\ place[r] = "load"
               /\ Load({r})
               /\ port' = [port EXCEPT ![r] = pairing'.port]
               /\ Goto(r, "bind")
               /\ UNCHANGED <<tcp, lock, at, code, key>>

\* Mutant: where the port is held, another one will do.
BindAnother(r) == /\ place[r] = "bind"
                  /\ \E p \in IF bound[port[r]] = None THEN {port[r]} ELSE FreePort :
                        /\ bound' = [bound EXCEPT ![p] = r]
                        /\ port' = [port EXCEPT ![r] = p]
                  /\ Goto(r, "serve")
                  /\ UNCHANGED <<file, squats, lock, conn>>

\* The door is bound, or the port is held elsewhere and the pairing read again.
Bind(r) == /\ place[r] = "bind"
           /\ IF bound[port[r]] = None
              THEN bound' = [bound EXCEPT ![port[r]] = r] /\ Goto(r, "serve")
              ELSE Goto(r, "load") /\ UNCHANGED bound
           /\ UNCHANGED <<file, squats, lock, port, conn>>

Die(r) == /\ lock = r
          /\ lock' = None
          /\ Goto(r, "dying")
          /\ UNCHANGED <<file, tcp, port, conn>>

\* A moment after it freed the lock, the kernel closes the listener and the
\* connections - or a child forked while it served keeps the former.
Close(r) == /\ place[r] = "dying"
            /\ Goto(r, "dead")
            /\ \/ /\ bound' = [p \in Ports |-> IF bound[p] = r THEN None ELSE bound[p]]
                  /\ UNCHANGED squats
               \/ /\ squats < MaxSquats
                  /\ squats' = squats + 1
                  /\ bound' = [p \in Ports |-> IF bound[p] = r THEN Squatter
                                               ELSE bound[p]]
            /\ at' = [b \in Browsers |-> IF code[b] # None /\ bound[code[b].port] = r
                                         THEN "out" ELSE at[b]]
            /\ UNCHANGED <<file, lock, port, code, key, seen>>

-----------------------------------------------------------------------------
(* The door: the proof of admit. *)

Serves(p) == bound[p] \in Routers /\ place[bound[p]] = "serve"

Connect(b) == /\ at[b] = "out"
              /\ code[b] # None
              /\ Serves(code[b].port)
              /\ at' = [at EXCEPT ![b] = "hello"]
              /\ seen' = [seen EXCEPT ![b] = IF pairing = None THEN {} ELSE {pairing.key}]
              /\ UNCHANGED <<file, tcp, task, code, key>>

\* Mutant: a code that was read once is not read again.
ProveByCache(b) == /\ at[b] = "hello"
                   /\ Serves(code[b].port)
                   /\ IF key[b] # None THEN UNCHANGED <<file, seen, key>>
                      ELSE Load({}) /\ key' = [key EXCEPT ![b] = pairing'.key]
                   /\ at' = [at EXCEPT ![b] = "proof"]
                   /\ UNCHANGED <<tcp, task, code>>

\* prove: the pairing is read, or minted, before the browser proves its own.
Prove(b) == /\ at[b] = "hello"
            /\ Serves(code[b].port)
            /\ Load({})
            /\ key' = [key EXCEPT ![b] = pairing'.key]
            /\ at' = [at EXCEPT ![b] = "proof"]
            /\ UNCHANGED <<tcp, task, code>>

\* The browser's own proof is good under that key, or the door refuses.
Verify(b) == /\ at[b] = "proof"
             /\ Serves(code[b].port)
             /\ at' = [at EXCEPT ![b] = IF code[b].key = key[b] THEN "in" ELSE "out"]
             /\ UNCHANGED <<file, tcp, task, code, key, seen>>

\* A browser leaves, an admission times out or its load fails.
Leave(b) == /\ at[b] # "out"
            /\ at' = [at EXCEPT ![b] = "out"]
            /\ UNCHANGED <<file, tcp, task, code, key, seen>>

-----------------------------------------------------------------------------
Squat(p) == /\ bound[p] = None
            /\ squats < MaxSquats
            /\ bound' = [bound EXCEPT ![p] = Squatter]
            /\ squats' = squats + 1
            /\ UNCHANGED <<file, task, conn>>

Vacate(p) == /\ bound[p] = Squatter
             /\ bound' = [bound EXCEPT ![p] = None]
             /\ UNCHANGED <<file, squats, task, conn>>

browser_door(r) == LoadPort(r) \/ Bind(r)

Next == \/ \E b \in Browsers : Show(b) \/ Connect(b) \/ Prove(b) \/ Verify(b) \/ Leave(b)
        \/ Reset \/ Delete
        \/ \E r \in Routers : Elect(r) \/ browser_door(r) \/ Die(r) \/ Close(r)
        \/ \E p \in Ports : Squat(p) \/ Vacate(p)

\* The task runs again and again, and the kernel closes what a dead process had.
Fairness == \A r \in Routers : WF_vars(browser_door(r)) /\ WF_vars(Close(r))

Spec == Init /\ [][Next]_vars /\ Fairness
=============================================================================
