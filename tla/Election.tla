------------------------------ MODULE Election ------------------------------
(***************************************************************************)
(* The election (src/elect.rs, src/os): every process of a user may stand   *)
(* for router; one lock file decides; the holder makes a door at the one    *)
(* address all nodes dial, and a node speaks only to a door whose process   *)
(* holds the lock.  Each process has one election thread and one node.      *)
(*                                                                         *)
(* A dying process goes in two steps: the kernel frees its lock, and later  *)
(* closes its door and its connections - unless a child forked while it      *)
(* served has inherited them.  The rogue is whatever else makes a           *)
(* door at the address without standing for election.  On Unix the door is  *)
(* a socket whose file outlives its process and the lock names its holder;  *)
(* on Windows it is a pipe that goes with its process and the holder writes *)
(* its pid beside the lock.                                                 *)
(***************************************************************************)
EXTENDS Naturals

CONSTANTS
    Procs,      \* this user's processes
    Rogue,      \* a process outside the election
    None,       \* nobody
    Platforms,  \* "unix", "windows", or both
    MaxFaults   \* how many things go wrong

ASSUME ElectionAssumption == /\ Rogue \notin Procs
                             /\ None \notin Procs \cup {Rogue}
                             /\ Platforms \subseteq {"unix", "windows"}
                             /\ MaxFaults \in Nat

VARIABLES
    platform,   \* which os module is compiled in
    thread,     \* where the election thread of each process stands
    elected,    \* the ELECTED flag of each process
    lock,       \* who holds the lock
    record,     \* the pid in zapd.pid, read on Windows only
    address,    \* whose door is at the address
    open,       \* the processes whose door is open
    node,       \* where the node of each process stands in `dial`
    peer,       \* the process at the other end of its connection
    children,   \* the processes that forked a child while they served
    kept,       \* the nodes whose connection such a child has inherited
    faults      \* what went wrong so far

world == <<platform, children>>
vars == <<world, thread, elected, lock, record, address, open, node, peer, kept, faults>>

Threads == {"out", "wait", "announce", "elect", "unlink", "bind", "serve",
            "resign", "unlock", "dying", "dead"}

TypeOK == /\ platform \in Platforms
          /\ thread \in [Procs -> Threads]
          /\ elected \in [Procs -> BOOLEAN]
          /\ lock \in Procs \cup {None}
          /\ record \in Procs \cup {None}
          /\ address \in Procs \cup {Rogue, None}
          /\ open \subseteq Procs \cup {Rogue}
          /\ node \in [Procs -> {"dial", "check", "joined"}]
          /\ peer \in [Procs -> Procs \cup {Rogue, None}]
          /\ children \subseteq Procs
          /\ kept \subseteq Procs
          /\ faults \in 0..MaxFaults

\* A rogue's door may be there from the start.
Init == /\ platform \in Platforms
        /\ thread = [p \in Procs |-> "out"]
        /\ elected = [p \in Procs |-> FALSE]
        /\ lock = None
        /\ record = None
        /\ address \in {Rogue, None}
        /\ open = {Rogue} \cap {address}
        /\ node = [p \in Procs |-> "dial"]
        /\ peer = [p \in Procs |-> None]
        /\ children = {}
        /\ kept = {}
        /\ faults = 0

Alive(p) == thread[p] \notin {"dying", "dead"}

At(p, t) == thread[p] = t
Goto(p, t) == thread' = [thread EXCEPT ![p] = t]

door == <<address, open>>
nodes == <<node, peer, kept>>

Fault == faults < MaxFaults /\ faults' = faults + 1

-----------------------------------------------------------------------------
(* The election thread. *)

\* embed: the first call of a process starts the thread.
Embed(p) == /\ At(p, "out")
            /\ Goto(p, "wait")
            /\ UNCHANGED <<world, elected, lock, record, door, nodes, faults>>

\* Mutant: a lock that does not exclude, as after another handle on the file
\* was closed.
LockShared(p) == /\ At(p, "wait")
                 /\ lock' = p
                 /\ Goto(p, "announce")
                 /\ UNCHANGED <<world, elected, record, door, nodes, faults>>

\* The kernel grants the lock to one of those that wait for it.
Lock(p) == /\ At(p, "wait")
           /\ lock = None
           /\ lock' = p
           /\ Goto(p, "announce")
           /\ UNCHANGED <<world, elected, record, door, nodes, faults>>

\* Writing the record may fail; that is only logged.
Announce(p) == /\ At(p, "announce")
               /\ Goto(p, "elect")
               /\ \/ /\ record' = IF platform = "windows" THEN p ELSE record
                     /\ UNCHANGED faults
                  \/ /\ platform = "windows"
                     /\ Fault
                     /\ UNCHANGED record
               /\ UNCHANGED <<world, elected, lock, door, nodes>>

\* Mutant: the pid is stored where the flag belongs.
ElectByPid(p) == /\ At(p, "elect")
                 /\ elected' = [elected EXCEPT ![p] = p]
                 /\ Goto(p, IF platform = "unix" THEN "unlink" ELSE "bind")
                 /\ UNCHANGED <<world, lock, record, door, nodes, faults>>

Elect(p) == /\ At(p, "elect")
            /\ elected' = [elected EXCEPT ![p] = TRUE]
            /\ Goto(p, IF platform = "unix" THEN "unlink" ELSE "bind")
            /\ UNCHANGED <<world, lock, record, door, nodes, faults>>

\* Mutant: a stale socket is left where it is.
UnlinkNothing(p) == /\ At(p, "unlink")
                    /\ Goto(p, "bind")
                    /\ UNCHANGED <<world, elected, lock, record, door, nodes, faults>>

\* Whatever socket is at the path is unlinked, its listener being stale or not.
Unlink(p) == /\ At(p, "unlink")
             /\ address' = None
             /\ Goto(p, "bind")
             /\ UNCHANGED <<world, elected, lock, record, open, nodes, faults>>

Bind(p) == /\ At(p, "bind")
           /\ address = None
           /\ address' = p
           /\ open' = open \cup {p}
           /\ Goto(p, "serve")
           /\ UNCHANGED <<world, elected, lock, record, nodes, faults>>

\* The directory cannot be used or something is at the address: on Windows, the
\* door of a process that is still dying.  Or the socket was made and its mode
\* not set: its file stays, and its listener closes.
BindFails(p) == /\ \/ /\ At(p, "bind")
                      /\ address # None
                      /\ UNCHANGED <<address, faults>>
                   \/ /\ thread[p] \in {"unlink", "bind"}
                      /\ Fault
                      /\ UNCHANGED address
                   \/ /\ At(p, "bind")
                      /\ platform = "unix"
                      /\ address = None
                      /\ Fault
                      /\ address' = p
                /\ Goto(p, "resign")
                /\ UNCHANGED <<world, elected, lock, record, open, nodes>>

\* Mutant: the lock goes first, the flag after it.
ResignLockFirst(p) == /\ At(p, "resign")
                      /\ lock' = None
                      /\ Goto(p, "unlock")
                      /\ UNCHANGED <<world, elected, record, door, nodes, faults>>

\* Resign, so that another process can try: the flag first, then the lock.
Resign(p) == /\ At(p, "resign")
             /\ elected' = [elected EXCEPT ![p] = FALSE]
             /\ Goto(p, "unlock")
             /\ UNCHANGED <<world, lock, record, door, nodes, faults>>

Unlock(p) == /\ At(p, "unlock")
             /\ lock' = None
             /\ Goto(p, "wait")
             /\ UNCHANGED <<world, elected, record, door, nodes, faults>>

Thread(p) == \/ Lock(p) \/ Announce(p) \/ Elect(p) \/ Unlink(p)
             \/ Bind(p) \/ BindFails(p) \/ Resign(p) \/ Unlock(p)

-----------------------------------------------------------------------------
(* The node: `dial` in src/node.rs and src/os. *)

\* elect::holder, as a thread of p sees it.  On Unix a process is never told
\* that it holds the lock itself.
Holder(p) == CASE elected[p] -> p
               [] ~elected[p] /\ platform = "unix" -> IF lock = p THEN None ELSE lock
               [] ~elected[p] /\ platform = "windows" -> record

Connect(p) == /\ Alive(p)
              /\ node[p] = "dial"
              /\ address \in open
              /\ peer' = [peer EXCEPT ![p] = address]
              /\ node' = [node EXCEPT ![p] = "check"]
              /\ UNCHANGED <<world, thread, elected, lock, record, door, kept, faults>>

\* Mutant: whoever serves the door is the router.
CheckNothing(p) == /\ Alive(p)
                   /\ node[p] = "check"
                   /\ node' = [node EXCEPT ![p] = "joined"]
                   /\ UNCHANGED <<world, thread, elected, lock, record, door,
                                  peer, kept, faults>>

Hangs(p) == /\ node' = [node EXCEPT ![p] = "dial"]
            /\ peer' = [peer EXCEPT ![p] = None]
            /\ kept' = kept \ {p}

\* The peer was read when the connection was made, the holder is read now.
Check(p) == /\ Alive(p)
            /\ node[p] = "check"
            /\ \/ /\ peer[p] = Holder(p)
                  /\ node' = [node EXCEPT ![p] = "joined"]
                  /\ UNCHANGED <<peer, kept>>
               \/ peer[p] # Holder(p) /\ Hangs(p)
            /\ UNCHANGED <<world, thread, elected, lock, record, door, faults>>

\* Nobody has the other end open any more.
Closed(p) == \/ peer[p] \notin open
             \/ peer[p] \in Procs /\ At(peer[p], "dead") /\ p \notin kept

\* The other end closed: the session ends and the node dials again.
Drop(p) == /\ Alive(p)
           /\ node[p] = "joined"
           /\ Closed(p)
           /\ Hangs(p)
           /\ UNCHANGED <<world, thread, elected, lock, record, door, faults>>

Dialler(p) == Connect(p) \/ Check(p) \/ Drop(p)

-----------------------------------------------------------------------------
(* What goes wrong. *)

\* Exit of any kind: the kernel frees the lock.
Die(p) == /\ Alive(p)
          /\ Fault
          /\ lock' = IF lock = p THEN None ELSE lock
          /\ Goto(p, "dying")
          /\ UNCHANGED <<world, elected, record, door, nodes>>

\* A moment later it closes the door and every connection.  A pipe is gone with
\* its process; a socket leaves its file at the path.
Shut(s) == /\ open' = open \ {s}
           /\ address' = IF platform = "windows" /\ address = s THEN None ELSE address

Close(p) == /\ At(p, "dying")
            /\ IF p \in children THEN UNCHANGED door ELSE Shut(p)
            /\ Goto(p, "dead")
            /\ UNCHANGED <<world, elected, lock, record, nodes, faults>>

\* A child forked without exec has no part of the lock, but every descriptor:
\* the listener of the door and the connections there are.
Fork(p) == /\ platform = "unix"
           /\ At(p, "serve")
           /\ Fault
           /\ children' = children \cup {p}
           /\ kept' = kept \cup {q \in Procs : peer[q] = p}
           /\ UNCHANGED <<platform, thread, elected, lock, record, door, node, peer>>

ChildExits(p) == /\ p \in children
                 /\ children' = children \ {p}
                 /\ kept' = {q \in kept : peer[q] # p}
                 /\ IF At(p, "dead") THEN Shut(p) ELSE UNCHANGED door
                 /\ UNCHANGED <<platform, thread, elected, lock, record, node, peer,
                                faults>>

\* The rogue makes its door where there is none, and may leave again.
RogueBinds == /\ address = None
              /\ Fault
              /\ address' = Rogue
              /\ open' = open \cup {Rogue}
              /\ UNCHANGED <<world, thread, elected, lock, record, nodes>>

RogueLeaves == /\ Rogue \in open
               /\ Shut(Rogue)
               /\ UNCHANGED <<world, thread, elected, lock, record, nodes, faults>>

-----------------------------------------------------------------------------
Next == \/ \E p \in Procs : \/ Embed(p)
                            \/ Thread(p)
                            \/ Dialler(p)
                            \/ Die(p) \/ Close(p)
                            \/ Fork(p) \/ ChildExits(p)
        \/ RogueBinds
        \/ RogueLeaves

\* Threads that can run do, and the kernel finishes off a dying process.  No
\* process has to stand, to die, or to leave the address to others, and no child
\* to exit.
Fairness == \A p \in Procs : /\ WF_vars(Thread(p))
                             /\ WF_vars(Dialler(p))
                             /\ WF_vars(Close(p))

Spec == Init /\ [][Next]_vars /\ Fairness
=============================================================================
