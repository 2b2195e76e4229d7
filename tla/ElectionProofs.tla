--------------------------- MODULE ElectionProofs ---------------------------
(***************************************************************************)
(* Theorems about Election, for any number of processes and of faults, on   *)
(* either platform.                                                         *)
(***************************************************************************)
EXTENDS ElectionProps, TLAPS

USE ElectionAssumption

\* The threads that hold the lock.
Holding == {"announce", "elect", "unlink", "bind", "serve", "resign", "unlock"}

\* The kernel's lock and the threads agree on who holds it.
LockAgrees == \A p \in Procs : thread[p] \in Holding <=> lock = p

\* The flag is up from the election to the resignation.
FlagWindow ==
    \A p \in Procs : elected[p] /\ Alive(p) =>
                        thread[p] \in {"unlink", "bind", "serve", "resign"}

\* A process of this election has a door as long as it serves, and until the
\* kernel closes it or its child exits; the one that serves has it at the address.
DoorIsServed ==
    \A p \in Procs : /\ At(p, "serve") => p \in open /\ address = p
                     /\ p \in open => \/ thread[p] \in {"serve", "dying"}
                                      \/ thread[p] = "dead" /\ p \in children

\* A connection was made to an open door, and a living process never closes its
\* door.
PeerServes ==
    \A p \in Procs : node[p] \in {"check", "joined"} =>
        /\ peer[p] # None
        /\ peer[p] \in Procs => thread[peer[p]] \in {"serve", "dying", "dead"}

\* Nobody joined the rogue.
NoRoguePeer == \A p \in Procs : node[p] = "joined" => peer[p] \in Procs

Inv == /\ TypeOK
       /\ LockAgrees
       /\ FlagWindow
       /\ DoorIsServed
       /\ PeerServes
       /\ NoRoguePeer

LEMMA InitInv == Init => Inv
BY DEF Init, Inv, TypeOK, Threads, LockAgrees, Holding, FlagWindow, Alive,
       DoorIsServed, At, PeerServes, NoRoguePeer

LEMMA StepInv == Inv /\ [Next]_vars => Inv'
<1> SUFFICES ASSUME Inv, [Next]_vars
             PROVE  Inv'
  OBVIOUS
<1> USE DEF Inv, TypeOK, Threads, LockAgrees, Holding, FlagWindow, Alive,
            DoorIsServed, At, Goto, PeerServes, NoRoguePeer, Fault, door, nodes,
            world
<1>1. CASE UNCHANGED vars
  BY <1>1 DEF vars
<1>2. ASSUME NEW p \in Procs, Embed(p)
      PROVE  Inv'
  BY <1>2 DEF Embed
<1>3. ASSUME NEW p \in Procs, Thread(p)
      PROVE  Inv'
  <2>1. CASE Lock(p)
    BY <2>1 DEF Lock
  <2>2. CASE Announce(p)
    BY <2>2 DEF Announce
  <2>3. CASE Elect(p)
    BY <2>3 DEF Elect
  <2>4. CASE Unlink(p)
    BY <2>4 DEF Unlink
  <2>5. CASE Bind(p)
    BY <2>5 DEF Bind
  <2>6. CASE BindFails(p)
    BY <2>6 DEF BindFails
  <2>7. CASE Resign(p)
    BY <2>7 DEF Resign
  <2>8. CASE Unlock(p)
    BY <2>8 DEF Unlock
  <2>9. QED
    BY <1>3, <2>1, <2>2, <2>3, <2>4, <2>5, <2>6, <2>7, <2>8 DEF Thread
<1>4. ASSUME NEW p \in Procs, Dialler(p)
      PROVE  Inv'
  <2>1. CASE Connect(p)
    BY <2>1 DEF Connect
  <2>2. CASE Check(p)
    <3>1. Holder(p) \in Procs \cup {None}
      BY <2>2 DEF Holder
    <3>2. QED
      BY <2>2, <3>1 DEF Check, Hangs
  <2>3. CASE Drop(p)
    BY <2>3 DEF Drop, Hangs
  <2>4. QED
    BY <1>4, <2>1, <2>2, <2>3 DEF Dialler
<1>5. ASSUME NEW p \in Procs, Die(p)
      PROVE  Inv'
  BY <1>5 DEF Die
<1>6. ASSUME NEW p \in Procs, Close(p)
      PROVE  Inv'
  BY <1>6 DEF Close, Shut
<1>7. CASE RogueBinds
  BY <1>7 DEF RogueBinds
<1>8. CASE RogueLeaves
  BY <1>8 DEF RogueLeaves, Shut
<1>9. ASSUME NEW p \in Procs, Fork(p)
      PROVE  Inv'
  BY <1>9 DEF Fork
<1>10. ASSUME NEW p \in Procs, ChildExits(p)
       PROVE  Inv'
  BY <1>10 DEF ChildExits, Shut
<1>11. QED
  BY <1>1, <1>2, <1>3, <1>4, <1>5, <1>6, <1>7, <1>8, <1>9, <1>10 DEF Next

LEMMA Invariance == Spec => []Inv
BY InitInv, StepInv, PTL DEF Spec

(* Type correctness. *)
THEOREM ElectionTypes == Spec => []TypeOK
BY Invariance, PTL DEF Inv

(* A process that says it is the router holds the lock, whoever dies, fails  *)
(* to bind or resigns meanwhile.                                             *)
THEOREM TheElectedHold == Spec => []ElectedHolds
<1>1. Inv => ElectedHolds
  BY DEF Inv, LockAgrees, Holding, FlagWindow, ElectedHolds
<1>2. QED
  BY <1>1, Invariance, PTL

(* The door of the router that serves stays the one at the address.          *)
THEOREM TheServingIsReachable == Spec => []ServingIsReachable
<1>1. Inv => ServingIsReachable
  BY DEF Inv, LockAgrees, Holding, DoorIsServed, ServingIsReachable, At
<1>2. QED
  BY <1>1, Invariance, PTL

(* A node is joined to the living lock holder, or to a process on its way    *)
(* out, and never to the rogue.                                              *)
THEOREM NodesJoinTheHolder == Spec => []JoinedToTheHolder
<1>1. Inv => JoinedToTheHolder
  BY DEF Inv, LockAgrees, Holding, PeerServes, NoRoguePeer, JoinedToTheHolder,
         Alive, At
<1>2. QED
  BY <1>1, Invariance, PTL
=============================================================================
