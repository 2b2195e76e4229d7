---------------------------- MODULE RouterProofs ----------------------------
(***************************************************************************)
(* Theorems about Router, for every set of connections, every choice of    *)
(* browsers among them, every set of ids and every bound on the frames.    *)
(***************************************************************************)
EXTENDS RouterProps, TLAPS

USE RouterAssumption

-----------------------------------------------------------------------------
(* Lemmas about the mailboxes. *)

\* Sending well-formed frames keeps the mailboxes well formed.
LEMMA QueuedType ==
    ASSUME TypeOK, NEW C, NEW m \in Frames
    PROVE  Queued(C, m) \in [Conns -> Seq(Frames)]
BY DEF Queued, TypeOK

\* A frame in a mailbox after a send was there before, or is the one sent to a
\* connection of the audience.
LEMMA QueuedFrames ==
    ASSUME TypeOK, NEW C, NEW m \in Frames, NEW d \in Conns,
           NEW n \in DOMAIN Queued(C, m)[d]
    PROVE  \/ /\ n \in DOMAIN mailbox[d]
              /\ Queued(C, m)[d][n] = mailbox[d][n]
           \/ d \in C /\ Queued(C, m)[d][n] = m
<1>1. mailbox[d] \in Seq(Frames)
  BY DEF TypeOK
<1>2. CASE d \in C /\ pump[d]
  BY <1>1, <1>2 DEF Queued
<1>3. CASE ~(d \in C /\ pump[d])
  BY <1>3 DEF Queued
<1>4. QED
  BY <1>2, <1>3

\* The frames the router makes are frames.
LEMMA FramesType ==
    /\ [typ |-> "WELCOME"] \in Frames
    /\ \A i \in Ids : /\ Presence("PEER_CONNECTED", i) \in Frames
                      /\ Presence("PEER_DISCONNECTED", i) \in Frames
    /\ \A c \in Conns : /\ \A L \in SUBSET Ids : Listing(c, L) \in Frames
                        /\ \A i \in Ids : Refusal(c, i) \in Frames
                        /\ Refusal(c, "unknown_control") \in Frames
                        /\ id[c] \in Ids => Routed(c) \in Frames
BY DEF Frames, Presence, Listing, Refusal, Routed

-----------------------------------------------------------------------------
(* The inductive invariant. *)

\* A connection has no id exactly as long as it was never registered.
Anonymous ==
    \A c \in Conns :
        /\ phase[c] = "hello" => id[c] = None /\ ~evicted[c]
        /\ id[c] = None => phase[c] \in {"hello", "done"}

\* A handler between making a reply and queueing it has one in hand.
ReplyInHand ==
    \A c \in Conns : phase[c] = "reply" => pending[c] \in Frames

Inv == /\ TypeOK
       /\ Anonymous
       /\ ReplyInHand
       /\ EntryIsServed
       /\ LosesSeatOnlyByEviction

LEMMA InitInv == Init => Inv
BY DEF Init, Inv, TypeOK, Anonymous, ReplyInHand, EntryIsServed,
       LosesSeatOnlyByEviction, Phases, Serving, Unheard

\* Reading a frame stays within the bound.
LEMMA ReadsCount == ASSUME TypeOK, NEW c \in Conns, Reads(c)
                    PROVE  sent' \in 0..MaxFrames
BY DEF Reads, TypeOK

\* Type correctness is preserved, given that ids are known where they are used.
LEMMA TypePreserved == Inv /\ [Next]_vars => TypeOK'
<1> SUFFICES ASSUME Inv, [Next]_vars
             PROVE  TypeOK'
  OBVIOUS
<1> USE DEF Inv
<1>1. CASE UNCHANGED vars
  BY <1>1 DEF TypeOK, vars
<1>2. ASSUME NEW c \in Conns, Client(c)
      PROVE  TypeOK'
  <2>1. CASE RefuseHello(c)
    BY <2>1 DEF RefuseHello, End, Goto, TypeOK, Phases
  <2>2. ASSUME NEW i \in Ids, RefuseTaken(c, i)
        PROVE  TypeOK'
    BY <2>2 DEF RefuseTaken, End, Goto, TypeOK, Phases
  <2>3. ASSUME NEW i \in Ids, Register(c, i)
        PROVE  TypeOK'
    BY <2>3 DEF Register, Enter, Goto, TypeOK, Phases, Serving
  <2>4. ASSUME NEW i \in Ids, Forward(c, i)
        PROVE  TypeOK'
    <3>1. id[c] \in Ids
      BY <2>4 DEF Forward, Prepare, Reads, TypeOK, Anonymous
    <3>2. Routed(c) \in Frames /\ Refusal(c, i) \in Frames
      BY <3>1, FramesType
    <3>0. sent' \in 0..MaxFrames
      BY <2>4, ReadsCount DEF Forward, Prepare
    <3>3. CASE Reachable(i)
      <4>1. mailbox' \in [Conns -> Seq(Frames)]
        BY <2>4, <3>2, <3>3, QueuedType DEF Forward, Prepare, Queue
      <4>2. QED
        BY <2>4, <3>0, <3>3, <4>1 DEF Forward, Prepare, Reads, TypeOK
    <3>4. CASE ~Reachable(i)
      <4>1. /\ pending' = [pending EXCEPT ![c] = Refusal(c, i)]
            /\ phase' = [phase EXCEPT ![c] = "reply"]
            /\ UNCHANGED <<id, peers, open, evicted, pump, mailbox, heard>>
        BY <2>4, <3>4 DEF Forward, Prepare, Reads, Goto
      <4>2. QED
        BY <3>0, <3>2, <4>1 DEF TypeOK, Phases, Serving
    <3>5. QED
      BY <3>3, <3>4
  <2>5. CASE List(c)
    <3>1. Listing(c, {i \in Ids : peers[i] # None}) \in Frames
      BY FramesType
    <3>0. sent' \in 0..MaxFrames
      BY <2>5, ReadsCount DEF List, Prepare, Registered
    <3>2. QED
      BY <2>5, <3>0, <3>1 DEF List, Prepare, Registered, Reads, Goto, TypeOK,
                              Phases, Serving
  <2>6. CASE BadControl(c)
    <3>1. mailbox' \in [Conns -> Seq(Frames)]
      BY <2>6, FramesType, QueuedType DEF BadControl, Queue
    <3>2. sent' \in 0..MaxFrames
      BY <2>6, ReadsCount DEF BadControl
    <3>3. QED
      BY <2>6, <3>1, <3>2 DEF BadControl, Reads, TypeOK
  <2>7. CASE Close(c)
    BY <2>7 DEF Close, TypeOK
  <2>8. QED
    BY <1>2, <2>1, <2>2, <2>3, <2>4, <2>5, <2>6, <2>7 DEF Client
<1>3. ASSUME NEW c \in Conns, Task(c)
      PROVE  TypeOK'
  <2>1. CASE Welcome(c)
    <3>1. mailbox' \in [Conns -> Seq(Frames)]
      BY <2>1, FramesType, QueuedType DEF Welcome, Queue
    <3>2. QED
      BY <2>1, <3>1 DEF Welcome, Goto, TypeOK, Phases, Serving
  <2>2. CASE Announce(c)
    <3>1. id[c] \in Ids
      BY <2>2 DEF Announce, TypeOK, Anonymous
    <3>2. mailbox' \in [Conns -> Seq(Frames)]
      BY <2>2, <3>1, FramesType, QueuedType DEF Announce, Queue
    <3>3. QED
      BY <2>2, <3>2 DEF Announce, Goto, TypeOK, Phases, Serving
  <2>3. CASE Reply(c)
    <3>1. mailbox' \in [Conns -> Seq(Frames)]
      BY <2>3, QueuedType DEF Reply, Queue, ReplyInHand
    <3>2. QED
      BY <2>3, <3>1 DEF Reply, Goto, TypeOK, Phases, Serving
  <2>4. CASE Leave(c)
    BY <2>4 DEF Leave, Break, Goto, TypeOK, Phases, Serving
  <2>5. CASE Unregister(c)
    <3>1. CASE peers[id[c]] = c
      BY <2>5, <3>1 DEF Unregister, Release, Finish, Goto, TypeOK, Phases
    <3>2. CASE peers[id[c]] # c
      <4>1. /\ phase' = [phase EXCEPT ![c] = "done"]
            /\ open' = [open EXCEPT ![c] = FALSE]
            /\ pump' = [pump EXCEPT ![c] = FALSE]
            /\ mailbox' = [mailbox EXCEPT ![c] = <<>>]
            /\ heard' = [heard EXCEPT ![c] = Unheard]
            /\ UNCHANGED <<id, peers, evicted, pending, sent>>
        BY <2>5, <3>2 DEF Unregister, Release, Finish, Drop, End, Goto
      <4>2. QED
        BY <4>1 DEF TypeOK, Phases, Unheard
    <3>3. QED
      BY <3>1, <3>2
  <2>6. CASE Depart(c)
    <3>1. id[c] \in Ids
      BY <2>6 DEF Depart, Finish, TypeOK, Anonymous
    <3> DEFINE Q == Queued(Audience(id[c]), Presence("PEER_DISCONNECTED", id[c]))
    <3>2. Q \in [Conns -> Seq(Frames)]
      BY <3>1, FramesType, QueuedType
    <3>3. mailbox' = [Q EXCEPT ![c] = <<>>]
      BY <2>6 DEF Depart, Finish, Drop
    <3> HIDE DEF Q
    <3>4. mailbox' \in [Conns -> Seq(Frames)]
      BY <3>2, <3>3
    <3>5. QED
      BY <2>6, <3>4 DEF Depart, Finish, Drop, End, Goto, TypeOK, Phases, Unheard
  <2>7. QED
    BY <1>3, <2>1, <2>2, <2>3, <2>4, <2>5, <2>6 DEF Task
<1>4. ASSUME NEW c \in Conns, Deliver(c)
      PROVE  TypeOK'
  <2>1. mailbox[c] \in Seq(Frames) /\ mailbox[c] # <<>>
    BY <1>4 DEF Deliver, TypeOK
  <2>2. Head(mailbox[c]) \in Frames /\ Tail(mailbox[c]) \in Seq(Frames)
    BY <2>1
  <2>3. Told(heard[c], Head(mailbox[c])) \in [Ids -> {"nothing", "connected", "gone"}]
    BY <2>2 DEF Told, TypeOK, Frames
  <2>4. QED
    BY <1>4, <2>2, <2>3 DEF Deliver, TypeOK
<1>5. ASSUME NEW c \in Conns, PumpFails(c)
      PROVE  TypeOK'
  BY <1>5 DEF PumpFails, Drop, TypeOK, Unheard
<1>6. QED
  BY <1>1, <1>2, <1>3, <1>4, <1>5 DEF Next

\* Who sits where, and whether the others know, is preserved.  Only three
\* actions touch it: registering, removing an entry, and the end of a task.
Standing == Anonymous /\ ReplyInHand /\ EntryIsServed /\ LosesSeatOnlyByEviction

\* A step that moves a task within the part of `handle` that may hold an entry.
LEMMA MovesOn ==
    ASSUME Inv, NEW c \in Conns, NEW p \in Serving,
           phase[c] \in Serving, phase' = [phase EXCEPT ![c] = p],
           p = "reply" => pending'[c] \in Frames,
           \A d \in Conns \ {c} : pending'[d] = pending[d],
           UNCHANGED <<id, peers, evicted>>
    PROVE  Standing'
BY DEF Inv, TypeOK, Standing, Anonymous, ReplyInHand, EntryIsServed,
       LosesSeatOnlyByEviction, Serving

LEMMA StandingPreserved == Inv /\ [Next]_vars => Standing'
<1> SUFFICES ASSUME Inv, [Next]_vars
             PROVE  Standing'
  OBVIOUS
<1> USE DEF Inv
<1>0. ASSUME UNCHANGED <<phase, id, peers, evicted, pending>>
      PROVE  Standing'
  BY <1>0 DEF Standing, Anonymous, ReplyInHand, EntryIsServed,
              LosesSeatOnlyByEviction
<1>1. CASE UNCHANGED vars
  BY <1>0, <1>1 DEF vars
<1>2. ASSUME NEW c \in Conns, Client(c)
      PROVE  Standing'
  <2>1. ASSUME phase[c] = "hello", End(c), UNCHANGED <<id, peers, evicted, pending>>
        PROVE  Standing'
    BY <2>1 DEF End, Goto, TypeOK, Standing, Anonymous, ReplyInHand, EntryIsServed,
                LosesSeatOnlyByEviction, Serving
  <2>2. CASE RefuseHello(c)
    BY <2>1, <2>2 DEF RefuseHello
  <2>3. ASSUME NEW i \in Ids, RefuseTaken(c, i)
        PROVE  Standing'
    BY <2>1, <2>3 DEF RefuseTaken
  <2>4. ASSUME NEW i \in Ids, Register(c, i)
        PROVE  Standing'
    <3>1. /\ phase[c] = "hello" /\ id[c] = None /\ ~evicted[c]
          /\ \A j \in Ids : peers[j] # c
      BY <2>4 DEF Register, Enter, Anonymous, EntryIsServed, Serving
    <3>2. /\ phase' = [phase EXCEPT ![c] = "welcome"]
          /\ id' = [id EXCEPT ![c] = i]
          /\ peers' = [peers EXCEPT ![i] = c]
          /\ evicted' = [d \in Conns |-> evicted[d] \/ peers[i] = d]
          /\ pending' = pending
      BY <2>4 DEF Register, Enter, Goto
    <3>3. Anonymous' /\ ReplyInHand'
      BY <3>1, <3>2 DEF TypeOK, Anonymous, ReplyInHand, EntryIsServed, Serving
    <3>4. EntryIsServed'
      BY <3>1, <3>2 DEF TypeOK, EntryIsServed, Serving
    <3>5. LosesSeatOnlyByEviction'
      <4> SUFFICES ASSUME NEW d \in Conns, phase'[d] \in Serving
                   PROVE  evicted'[d] <=> peers'[id'[d]] # d
        BY DEF LosesSeatOnlyByEviction
      <4>1. CASE d = c
        BY <3>1, <3>2, <4>1 DEF TypeOK
      <4>2. CASE d # c
        <5>1. phase[d] \in Serving /\ id'[d] = id[d] /\ id[d] \in Ids
          BY <3>2, <4>2 DEF TypeOK, Anonymous, Serving
        <5>2. CASE id[d] = i
          BY <3>2, <4>2, <5>1, <5>2 DEF TypeOK, LosesSeatOnlyByEviction
        <5>3. CASE id[d] # i
          BY <3>2, <4>2, <5>1, <5>3 DEF TypeOK, EntryIsServed, LosesSeatOnlyByEviction
        <5>4. QED
          BY <5>2, <5>3
      <4>3. QED
        BY <4>1, <4>2
    <3>6. QED
      BY <3>3, <3>4, <3>5 DEF Standing
  <2>5. ASSUME NEW i \in Ids, Forward(c, i)
        PROVE  Standing'
    <3>1. CASE Reachable(i)
      BY <1>0, <2>5, <3>1 DEF Forward, Prepare, Reads
    <3>2. CASE ~Reachable(i)
      <4>1. Refusal(c, i) \in Frames
        BY FramesType
      <4>2. /\ phase[c] = "relay" /\ phase' = [phase EXCEPT ![c] = "reply"]
            /\ pending' = [pending EXCEPT ![c] = Refusal(c, i)]
            /\ UNCHANGED <<id, peers, evicted>>
        BY <2>5, <3>2 DEF Forward, Prepare, Reads, Goto
      <4>3. QED
        BY <4>1, <4>2, MovesOn DEF Serving, TypeOK
    <3>3. QED
      BY <3>1, <3>2
  <2>6. CASE List(c)
    <3> DEFINE L == Listing(c, {i \in Ids : peers[i] # None})
    <3>1. L \in Frames
      BY FramesType
    <3>2. /\ phase[c] = "relay" /\ phase' = [phase EXCEPT ![c] = "reply"]
          /\ pending' = [pending EXCEPT ![c] = L]
          /\ UNCHANGED <<id, peers, evicted>>
      BY <2>6 DEF List, Prepare, Registered, Reads, Goto
    <3> HIDE DEF L
    <3>3. QED
      BY <3>1, <3>2, MovesOn DEF Serving, TypeOK
  <2>7. CASE BadControl(c)
    BY <1>0, <2>7 DEF BadControl, Reads
  <2>8. CASE Close(c)
    BY <1>0, <2>8 DEF Close
  <2>9. QED
    BY <1>2, <2>2, <2>3, <2>4, <2>5, <2>6, <2>7, <2>8 DEF Client
<1>3. ASSUME NEW c \in Conns, Task(c)
      PROVE  Standing'
  <2>1. CASE Welcome(c)
    BY <2>1, MovesOn DEF Welcome, Goto, Serving
  <2>2. CASE Announce(c)
    BY <2>2, MovesOn DEF Announce, Goto, Serving
  <2>3. CASE Reply(c)
    BY <2>3, MovesOn DEF Reply, Goto, Serving, TypeOK
  <2>4. CASE Leave(c)
    BY <2>4, MovesOn DEF Leave, Break, Goto, Serving
  <2>5. CASE Unregister(c)
    <3>1. id[c] \in Ids
      BY <2>5 DEF Unregister, Release, Finish, TypeOK, Anonymous
    <3>2. UNCHANGED <<id, evicted, pending>> /\ phase[c] = "leave"
      BY <2>5 DEF Unregister, Release, Finish
    <3>3. CASE peers[id[c]] = c
      <4>1. /\ phase' = [phase EXCEPT ![c] = "depart"]
            /\ peers' = [peers EXCEPT ![id[c]] = None]
        BY <2>5, <3>3 DEF Unregister, Release, Finish, Goto
      <4>2. \A d \in Conns : d # c /\ phase[d] \in Serving => id[d] \in Ids
        BY DEF TypeOK, Anonymous, Serving
      <4>3. QED
        BY <3>1, <3>2, <3>3, <4>1, <4>2
           DEF TypeOK, Standing, Anonymous, ReplyInHand, EntryIsServed,
               LosesSeatOnlyByEviction, Serving
    <3>4. CASE peers[id[c]] # c
      <4>1. phase' = [phase EXCEPT ![c] = "done"] /\ peers' = peers
        BY <2>5, <3>4 DEF Unregister, Release, Finish, End, Goto
      <4>2. QED
        BY <3>1, <3>2, <3>4, <4>1
           DEF TypeOK, Standing, Anonymous, ReplyInHand, EntryIsServed,
               LosesSeatOnlyByEviction, Serving
    <3>5. QED
      BY <3>3, <3>4
  <2>6. CASE Depart(c)
    <3>1. /\ phase[c] = "depart" /\ phase' = [phase EXCEPT ![c] = "done"]
          /\ UNCHANGED <<id, peers, evicted, pending>>
      BY <2>6 DEF Depart, Finish, End, Goto
    <3>2. QED
      BY <3>1 DEF TypeOK, Standing, Anonymous, ReplyInHand, EntryIsServed,
                  LosesSeatOnlyByEviction, Serving
  <2>7. QED
    BY <1>3, <2>1, <2>2, <2>3, <2>4, <2>5, <2>6 DEF Task
<1>4. ASSUME NEW c \in Conns, Deliver(c) \/ PumpFails(c)
      PROVE  Standing'
  BY <1>0, <1>4 DEF Deliver, PumpFails
<1>5. QED
  BY <1>1, <1>2, <1>3, <1>4 DEF Next

LEMMA Invariance == Spec => []Inv
<1>1. Inv /\ [Next]_vars => Inv'
  BY TypePreserved, StandingPreserved DEF Inv, Standing
<1>2. QED
  BY InitInv, <1>1, PTL DEF Spec

(* Type correctness. *)
THEOREM RouterTypes == Spec => []TypeOK
BY Invariance, PTL DEF Inv

(* No ghost seat: whatever connections come, close, are evicted or race for  *)
(* an id, an entry of the registry names a connection still being served.    *)
THEOREM NoGhostSeat == Spec => []EntryIsServed
BY Invariance, PTL DEF Inv

(* A served connection that no longer holds its id has been told so.         *)
THEOREM SeatsAreLostByEviction == Spec => []LosesSeatOnlyByEviction
BY Invariance, PTL DEF Inv

-----------------------------------------------------------------------------
(* Router implements Seats. *)

\* Who sits, and who sat, depends on ids and entries alone.
LEMMA SeatingStutters ==
    UNCHANGED <<id, peers>> => UNCHANGED Seating!vars
BY DEF Seating!vars

\* A registration is Seats' Sit: c never sat, and unseats only whom it replaces.
LEMMA RegisterSits ==
    ASSUME Inv, NEW c \in Conns, NEW i \in Ids, Register(c, i)
    PROVE  Seating!Sit(c, i)
<1> DEFINE past == {d \in Conns : id[d] # None /\ peers[id[d]] # d}
<1> USE DEF Inv
<1>1. id[c] = None /\ \A j \in Ids : peers[j] # c
  BY DEF Register, Enter, Anonymous, EntryIsServed, Serving
<1>2. /\ id' = [id EXCEPT ![c] = i]
      /\ peers' = [peers EXCEPT ![i] = c]
      /\ c \in Door => peers[i] = None
  BY DEF Register, Enter
<1>3. peers[i] # None => peers[i] \in Conns /\ id[peers[i]] = i
  BY DEF TypeOK, EntryIsServed
<1>4. past' = past \cup ({peers[i]} \ {None})
  <2>1. ASSUME NEW d \in Conns
        PROVE  d \in past' <=> d \in past \/ (d = peers[i] /\ peers[i] # None)
    <3>1. CASE d = c
      BY <1>1, <1>2, <3>1 DEF TypeOK
    <3>2. CASE d # c
      <4>1. id'[d] = id[d] /\ id[d] \in Ids \cup {None}
        BY <1>2, <3>2 DEF TypeOK
      <4>2. CASE id[d] = i
        BY <1>2, <1>3, <3>2, <4>1, <4>2 DEF TypeOK
      <4>3. CASE id[d] # i
        BY <1>2, <1>3, <3>2, <4>1, <4>3 DEF TypeOK
      <4>4. QED
        BY <4>2, <4>3
    <3>3. QED
      BY <3>1, <3>2
  <2>2. past' \subseteq Conns /\ past \subseteq Conns
    OBVIOUS
  <2> HIDE DEF past
  <2>3. QED
    BY <1>3, <2>1, <2>2
<1>5. c \notin past
  BY <1>1
<1>6. QED
  BY <1>1, <1>2, <1>4, <1>5 DEF Seating!Sit

\* Removing one's own entry is Seats' Rise.
LEMMA UnregisterRises ==
    ASSUME Inv, NEW c \in Conns, Unregister(c)
    PROVE  (\E i \in Ids : Seating!Rise(c, i)) \/ UNCHANGED Seating!vars
<1> DEFINE past == {d \in Conns : id[d] # None /\ peers[id[d]] # d}
<1> USE DEF Inv
<1>1. id[c] \in Ids /\ id' = id
  BY DEF Unregister, Release, Finish, TypeOK, Anonymous
<1>2. CASE peers[id[c]] = c
  <2>1. peers' = [peers EXCEPT ![id[c]] = None]
    BY <1>2 DEF Unregister, Release, Finish
  <2>2. ASSUME NEW d \in Conns
        PROVE  d \in past' <=> d \in past \/ d = c
    BY <1>1, <1>2, <2>1, <2>2 DEF TypeOK
  <2>3. past' = past \cup {c}
    BY <2>2
  <2>4. \E i \in Ids : Seating!Rise(c, i)
    <3>1. PICK i \in Ids : i = id[c]
      BY <1>1
    <3>2. Seating!Rise(c, i)
      BY <1>2, <2>1, <2>3, <3>1 DEF Seating!Rise
    <3>3. QED
      BY <3>2
  <2>5. QED
    BY <2>4
<1>3. CASE peers[id[c]] # c
  BY <1>1, <1>3, SeatingStutters DEF Unregister, Release, Finish
<1>4. QED
  BY <1>2, <1>3

(* The registry keeps the promise of Seats: a browser's hello unseats nobody, *)
(* a departing connection frees no seat but its own, and one that lost its    *)
(* seat never sits again.                                                     *)
THEOREM RouterKeepsSeats == Spec => KeepsSeats
<1>1. Init => Seating!Init
  BY DEF Init, Seating!Init
<1>2. Inv /\ [Next]_vars => [Seating!Next]_(Seating!vars)
  <2> SUFFICES ASSUME Inv, [Next]_vars
               PROVE  Seating!Next \/ UNCHANGED Seating!vars
    OBVIOUS
  <2>1. CASE UNCHANGED vars
    BY <2>1, SeatingStutters DEF vars
  <2>2. ASSUME NEW c \in Conns, Client(c)
        PROVE  Seating!Next \/ UNCHANGED Seating!vars
    <3>1. CASE \E i \in Ids : Register(c, i)
      BY <3>1, RegisterSits DEF Seating!Next
    <3>2. CASE ~ \E i \in Ids : Register(c, i)
      BY <2>2, <3>2, SeatingStutters
         DEF Client, RefuseHello, RefuseTaken, Forward, Prepare, List, Registered,
             BadControl, Close, Reads
    <3>3. QED
      BY <3>1, <3>2
  <2>3. ASSUME NEW c \in Conns, Task(c)
        PROVE  Seating!Next \/ UNCHANGED Seating!vars
    <3>1. CASE Unregister(c)
      BY <3>1, UnregisterRises DEF Seating!Next
    <3>2. CASE ~Unregister(c)
      BY <2>3, <3>2, SeatingStutters
         DEF Task, Welcome, Announce, Reply, Leave, Break, Depart, Finish
    <3>3. QED
      BY <3>1, <3>2
  <2>4. ASSUME NEW c \in Conns, Deliver(c) \/ PumpFails(c)
        PROVE  UNCHANGED Seating!vars
    BY <2>4, SeatingStutters DEF Deliver, PumpFails
  <2>5. QED
    BY <2>1, <2>2, <2>3, <2>4 DEF Next
<1>3. QED
  BY <1>1, <1>2, Invariance, PTL DEF Spec, KeepsSeats, Seating!Spec

-----------------------------------------------------------------------------
(* A list names the one who asked. *)

\* The list in a handler's hands names its own id, as long as the connection
\* holds that id: if it lost the id since, the list goes to somebody else.
ListInHand ==
    \A c \in Conns :
        phase[c] = "reply" /\ pending[c].typ = "PROVIDERS" =>
            /\ pending[c].by = c
            /\ peers[id[c]] = c => id[c] \in pending[c].list

\* What a step may do to the lists: a mailbox gains a frame that is no list of
\* its owner's without its id, and no id changes under a list.
LEMMA ListsKept ==
    ASSUME Inv, ListsTheAsker, UNCHANGED id, NEW C, NEW m \in Frames,
           mailbox' = Queued(C, m),
           \A d \in C \cap Conns : m.typ = "PROVIDERS" /\ m.by = d => id[d] \in m.list
    PROVE  ListsTheAsker'
<1>1. ASSUME NEW d \in Conns, NEW n \in DOMAIN Queued(C, m)[d],
             Queued(C, m)[d][n].typ = "PROVIDERS", Queued(C, m)[d][n].by = d
      PROVE  id[d] \in Queued(C, m)[d][n].list
  BY <1>1, QueuedFrames DEF Inv, ListsTheAsker
<1>2. QED
  BY <1>1 DEF ListsTheAsker

\* A step that only drops frames.
LEMMA ListsDropped ==
    ASSUME Inv, ListsTheAsker, NEW c \in Conns, UNCHANGED id,
           mailbox' = [mailbox EXCEPT ![c] = <<>>]
    PROVE  ListsTheAsker'
BY DEF Inv, TypeOK, ListsTheAsker

LEMMA ListsTheAskerPreserved ==
    Inv /\ ListInHand /\ ListsTheAsker /\ [Next]_vars => ListsTheAsker'
<1> SUFFICES ASSUME Inv, ListInHand, ListsTheAsker, [Next]_vars
             PROVE  ListsTheAsker'
  OBVIOUS
<1>0. ASSUME UNCHANGED <<id, mailbox>>
      PROVE  ListsTheAsker'
  BY <1>0 DEF ListsTheAsker
<1>1. CASE UNCHANGED vars
  BY <1>0, <1>1 DEF vars
<1>2. ASSUME NEW c \in Conns, Client(c)
      PROVE  ListsTheAsker'
  <2>1. CASE RefuseHello(c) \/ List(c) \/ Close(c) \/ \E i \in Ids : RefuseTaken(c, i)
    BY <1>0, <2>1 DEF RefuseHello, RefuseTaken, List, Prepare, Registered, Close, Reads
  <2>2. ASSUME NEW i \in Ids, Register(c, i)
        PROVE  ListsTheAsker'
    <3>1. id[c] = None /\ id' = [id EXCEPT ![c] = i] /\ mailbox' = mailbox
      BY <2>2 DEF Register, Enter, Inv, Anonymous
    <3>2. ASSUME NEW n \in DOMAIN mailbox[c], mailbox[c][n].typ = "PROVIDERS",
                 mailbox[c][n].by = c
          PROVE  FALSE
      <4>1. mailbox[c][n] \in Frames
        BY DEF Inv, TypeOK
      <4>2. mailbox[c][n].list \in SUBSET Ids
        BY <3>2, <4>1 DEF Frames
      <4>3. QED
        BY <3>1, <3>2, <4>2 DEF ListsTheAsker
    <3>3. QED
      BY <3>1, <3>2 DEF Inv, TypeOK, ListsTheAsker
  <2>3. ASSUME NEW i \in Ids, Forward(c, i)
        PROVE  ListsTheAsker'
    <3>1. CASE Reachable(i)
      <4>1. id[c] \in Ids
        BY <2>3 DEF Forward, Prepare, Reads, Inv, TypeOK, Anonymous
      <4>2. mailbox' = Queued({peers[i]}, Routed(c)) /\ id' = id
        BY <2>3, <3>1 DEF Forward, Prepare, Reads, Queue
      <4>3. Routed(c) \in Frames /\ Routed(c).typ # "PROVIDERS"
        BY <4>1, FramesType DEF Routed
      <4>4. QED
        BY <4>2, <4>3, ListsKept
    <3>2. CASE ~Reachable(i)
      BY <1>0, <2>3, <3>2 DEF Forward, Prepare, Reads
    <3>3. QED
      BY <3>1, <3>2
  <2>4. CASE BadControl(c)
    <3>1. /\ mailbox' = Queued({peers[id[c]]}, Refusal(c, "unknown_control"))
          /\ id' = id
      BY <2>4 DEF BadControl, Reads, Queue
    <3>2. /\ Refusal(c, "unknown_control") \in Frames
          /\ Refusal(c, "unknown_control").typ # "PROVIDERS"
      BY FramesType DEF Refusal
    <3>3. QED
      BY <3>1, <3>2, ListsKept
  <2>5. QED
    BY <1>2, <2>1, <2>2, <2>3, <2>4 DEF Client
<1>3. ASSUME NEW c \in Conns, Task(c)
      PROVE  ListsTheAsker'
  <2>1. CASE Welcome(c)
    <3>1. mailbox' = Queued({c}, [typ |-> "WELCOME"]) /\ id' = id
      BY <2>1 DEF Welcome, Queue
    <3>2. QED
      BY <3>1, FramesType, ListsKept
  <2>2. ASSUME NEW t \in {"PEER_CONNECTED", "PEER_DISCONNECTED"}, id[c] \in Ids
        PROVE  /\ Presence(t, id[c]) \in Frames
               /\ Presence(t, id[c]).typ # "PROVIDERS"
    BY <2>2, FramesType DEF Presence
  <2>3. CASE Announce(c)
    <3>1. id[c] \in Ids
      BY <2>3 DEF Announce, Inv, TypeOK, Anonymous
    <3>2. /\ mailbox' = Queued(Audience(id[c]), Presence("PEER_CONNECTED", id[c]))
          /\ id' = id
      BY <2>3 DEF Announce, Queue
    <3>3. QED
      BY <2>2, <3>1, <3>2, ListsKept
  <2>4. CASE Reply(c)
    <3>1. /\ mailbox' = Queued({peers[id[c]]}, pending[c])
          /\ phase[c] = "reply" /\ id' = id /\ pending[c] \in Frames
      BY <2>4 DEF Reply, Queue, Inv, ReplyInHand
    <3>2. ASSUME NEW d \in Conns, d = peers[id[c]],
                 pending[c].typ = "PROVIDERS", pending[c].by = d
          PROVE  id[d] \in pending[c].list
      BY <3>1, <3>2 DEF ListInHand
    <3>3. QED
      BY <3>1, <3>2, ListsKept
  <2>5. CASE Leave(c)
    BY <1>0, <2>5 DEF Leave, Break
  <2>6. CASE Unregister(c)
    BY <1>0, <2>6, ListsDropped DEF Unregister, Release, Finish, Drop
  <2>7. CASE Depart(c)
    <3> DEFINE M == Presence("PEER_DISCONNECTED", id[c])
               Q == Queued(Audience(id[c]), M)
    <3>1. id[c] \in Ids
      BY <2>7 DEF Depart, Finish, Inv, TypeOK, Anonymous
    <3>2. mailbox' = [Q EXCEPT ![c] = <<>>] /\ id' = id
      BY <2>7 DEF Depart, Finish, Drop
    <3>3. M \in Frames /\ M.typ # "PROVIDERS"
      BY <2>2, <3>1
    <3>4. Q \in [Conns -> Seq(Frames)]
      BY <3>3, QueuedType DEF Inv
    <3> HIDE DEF M
    <3>5. ASSUME NEW d \in Conns \ {c}, NEW n \in DOMAIN Q[d],
                 Q[d][n].typ = "PROVIDERS", Q[d][n].by = d
          PROVE  id[d] \in Q[d][n].list
      <4>1. n \in DOMAIN mailbox[d] /\ Q[d][n] = mailbox[d][n]
        BY <3>3, <3>5, QueuedFrames DEF Inv
      <4>2. QED
        BY <3>5, <4>1 DEF ListsTheAsker
    <3> HIDE DEF Q
    <3>6. QED
      BY <3>2, <3>4, <3>5 DEF ListsTheAsker
  <2>8. QED
    BY <1>3, <2>1, <2>3, <2>4, <2>5, <2>6, <2>7 DEF Task
<1>4. ASSUME NEW c \in Conns, Deliver(c)
      PROVE  ListsTheAsker'
  <2>1. mailbox[c] \in Seq(Frames) /\ mailbox[c] # <<>>
    BY <1>4 DEF Deliver, Inv, TypeOK
  <2>2. mailbox' = [mailbox EXCEPT ![c] = Tail(mailbox[c])] /\ id' = id
    BY <1>4 DEF Deliver
  <2>3. ASSUME NEW n \in DOMAIN Tail(mailbox[c])
        PROVE  n + 1 \in DOMAIN mailbox[c] /\ Tail(mailbox[c])[n] = mailbox[c][n + 1]
    BY <2>1
  <2>4. QED
    BY <2>2, <2>3 DEF ListsTheAsker, Inv, TypeOK
<1>5. ASSUME NEW c \in Conns, PumpFails(c)
      PROVE  ListsTheAsker'
  BY <1>5, ListsDropped DEF PumpFails, Drop
<1>6. QED
  BY <1>1, <1>2, <1>3, <1>4, <1>5 DEF Next

\* A handler keeps its own entry only by having held it all along.
LEMMA HeldBefore ==
    ASSUME Inv, [Next]_vars, NEW c \in Conns, phase'[c] = "reply", phase[c] = "reply"
    PROVE  /\ pending'[c] = pending[c] /\ id'[c] = id[c]
           /\ peers'[id[c]] = c => peers[id[c]] = c
<1> USE DEF Inv
<1>1. CASE UNCHANGED vars
  BY <1>1 DEF vars
<1>2. ASSUME NEW d \in Conns, Client(d)
      PROVE  /\ pending'[c] = pending[c] /\ id'[c] = id[c]
             /\ peers'[id[c]] = c => peers[id[c]] = c
  <2>1. ASSUME NEW i \in Ids, Register(d, i)
        PROVE  /\ pending'[c] = pending[c] /\ id'[c] = id[c]
               /\ peers'[id[c]] = c => peers[id[c]] = c
    BY <2>1 DEF Register, Enter, TypeOK, Anonymous
  <2>2. CASE \/ RefuseHello(d) \/ BadControl(d) \/ Close(d)
             \/ \E i \in Ids : RefuseTaken(d, i)
    BY <2>2 DEF RefuseHello, RefuseTaken, BadControl, Close, Reads
  <2>3. CASE List(d) \/ \E i \in Ids : Forward(d, i)
    BY <2>3 DEF List, Prepare, Registered, Forward, Reads, TypeOK
  <2>4. QED
    BY <1>2, <2>1, <2>2, <2>3 DEF Client
<1>3. ASSUME NEW d \in Conns, Task(d)
      PROVE  /\ pending'[c] = pending[c] /\ id'[c] = id[c]
             /\ peers'[id[c]] = c => peers[id[c]] = c
  <2>1. CASE Welcome(d) \/ Announce(d) \/ Leave(d) \/ Depart(d)
    BY <2>1 DEF Welcome, Announce, Leave, Break, Depart, Finish
  <2>2. CASE Reply(d)
    BY <2>2 DEF Reply, Goto, TypeOK
  <2>3. CASE Unregister(d)
    <3>1. id[c] \in Ids /\ id[d] \in Ids
      BY <2>3 DEF Unregister, Release, Finish, TypeOK, Anonymous
    <3>2. id' = id /\ pending' = pending
      BY <2>3 DEF Unregister, Release, Finish
    <3>3. peers' = peers \/ peers' = [peers EXCEPT ![id[d]] = None]
      BY <2>3 DEF Unregister, Release, Finish
    <3>4. QED
      BY <3>1, <3>2, <3>3 DEF TypeOK
  <2>4. QED
    BY <1>3, <2>1, <2>2, <2>3 DEF Task
<1>4. ASSUME NEW d \in Conns, Deliver(d) \/ PumpFails(d)
      PROVE  UNCHANGED <<pending, id, peers>>
  BY <1>4 DEF Deliver, PumpFails
<1>5. QED
  BY <1>1, <1>2, <1>3, <1>4 DEF Next

\* A handler that turns to replying has just listed, or just found no route.
LEMMA FreshReply ==
    ASSUME Inv, [Next]_vars, NEW c \in Conns, phase'[c] = "reply", phase[c] # "reply"
    PROVE  \/ List(c)
           \/ \E i \in Ids : Forward(c, i) /\ ~Reachable(i)
<1> USE DEF Inv, TypeOK, Goto, End
<1>1. CASE UNCHANGED vars
  BY <1>1 DEF vars
<1>2. ASSUME NEW d \in Conns, Client(d)
      PROVE  List(c) \/ \E i \in Ids : Forward(c, i) /\ ~Reachable(i)
  <2>1. CASE List(d)
    BY <2>1 DEF List, Prepare, Registered
  <2>2. ASSUME NEW i \in Ids, Forward(d, i)
        PROVE  d = c /\ ~Reachable(i)
    BY <2>2 DEF Forward, Prepare
  <2>3. CASE \/ RefuseHello(d) \/ BadControl(d) \/ Close(d)
             \/ \E i \in Ids : RefuseTaken(d, i) \/ Register(d, i)
    BY <2>3 DEF RefuseHello, RefuseTaken, Register, Enter, BadControl, Close
  <2>4. QED
    BY <1>2, <2>1, <2>2, <2>3 DEF Client
<1>3. ASSUME NEW d \in Conns, Task(d)
      PROVE  FALSE
  BY <1>3 DEF Task, Welcome, Announce, Reply, Leave, Break, Unregister, Release,
              Finish, Depart
<1>4. ASSUME NEW d \in Conns, Deliver(d) \/ PumpFails(d)
      PROVE  FALSE
  BY <1>4 DEF Deliver, PumpFails
<1>5. QED
  BY <1>1, <1>2, <1>3, <1>4 DEF Next

LEMMA ListInHandPreserved == Inv /\ ListInHand /\ [Next]_vars => ListInHand'
<1> SUFFICES ASSUME Inv, ListInHand, [Next]_vars, NEW c \in Conns,
                    phase'[c] = "reply", pending'[c].typ = "PROVIDERS"
             PROVE  /\ pending'[c].by = c
                    /\ peers'[id'[c]] = c => id'[c] \in pending'[c].list
  BY DEF ListInHand
<1>1. CASE phase[c] = "reply"
  BY <1>1, HeldBefore DEF ListInHand
<1>2. CASE List(c)
  <2> DEFINE L == {i \in Ids : peers[i] # None}
  <2>1. /\ pending'[c] = Listing(c, L) /\ id' = id /\ peers' = peers
        /\ id[c] \in Ids
    BY <1>2 DEF List, Prepare, Registered, Reads, Inv, TypeOK, Anonymous
  <2>2. peers[id[c]] = c => id[c] \in L
    BY <2>1
  <2> HIDE DEF L
  <2>3. QED
    BY <2>1, <2>2 DEF Listing
<1>3. ASSUME NEW i \in Ids, Forward(c, i), ~Reachable(i)
      PROVE  FALSE
  <2>1. pending'[c] = Refusal(c, i)
    BY <1>3 DEF Forward, Prepare, Inv, TypeOK
  <2>2. QED
    BY <2>1 DEF Refusal
<1>4. QED
  BY <1>1, <1>2, <1>3, FreshReply

(* The list a connection asked for and receives itself names its own id,     *)
(* whoever took the id over, left or returned between the reading of the     *)
(* registry and the queueing of the reply.                                   *)
THEOREM ListsNameTheAsker == Spec => []ListsTheAsker
<1>1. Init => ListInHand /\ ListsTheAsker
  BY DEF Init, ListInHand, ListsTheAsker
<1>2. QED
  BY <1>1, Invariance, ListInHandPreserved, ListsTheAskerPreserved, PTL DEF Spec

-----------------------------------------------------------------------------
(* Who can be reached. *)

\* A connection that is served and open has its pump.
Live == \A c \in Conns : phase[c] \in Serving /\ open[c] => pump[c]

LEMMA LivePreserved == Inv /\ Live /\ [Next]_vars => Live'
<1> SUFFICES ASSUME Inv, Live, [Next]_vars
             PROVE  Live'
  OBVIOUS
<1> USE DEF Inv, TypeOK, Live, Serving, Goto, End
<1>1. CASE UNCHANGED vars
  BY <1>1 DEF vars
<1>2. ASSUME NEW c \in Conns, Client(c)
      PROVE  Live'
  <2>1. CASE RefuseHello(c) \/ \E i \in Ids : RefuseTaken(c, i)
    BY <2>1 DEF RefuseHello, RefuseTaken
  <2>2. ASSUME NEW i \in Ids, Register(c, i)
        PROVE  Live'
    BY <2>2 DEF Register, Enter
  <2>3. CASE List(c) \/ \E i \in Ids : Forward(c, i)
    <3>1. phase[c] = "relay" /\ UNCHANGED <<open, pump>>
      BY <2>3 DEF List, Forward, Reads
    <3>2. phase' = phase \/ phase' = [phase EXCEPT ![c] = "reply"]
      BY <2>3 DEF List, Forward, Prepare
    <3>3. QED
      BY <3>1, <3>2
  <2>4. CASE BadControl(c) \/ Close(c)
    BY <2>4 DEF BadControl, Reads, Close
  <2>5. QED
    BY <1>2, <2>1, <2>2, <2>3, <2>4 DEF Client
<1>3. ASSUME NEW c \in Conns, Task(c)
      PROVE  Live'
  BY <1>3 DEF Task, Welcome, Announce, Reply, Leave, Break, Unregister, Release,
              Finish, Depart, Drop
<1>4. ASSUME NEW c \in Conns, Deliver(c) \/ PumpFails(c)
      PROVE  Live'
  BY <1>4 DEF Deliver, PumpFails, Drop
<1>5. QED
  BY <1>1, <1>2, <1>3, <1>4 DEF Next

(* A frame is refused as no_route only if nobody has that name or its client *)
(* is gone, whatever is taken over, breaks or departs meanwhile.             *)
THEOREM RefusalsAreTrue == Spec => NoRouteIsTrue
<1> DEFINE Step == \A c \in Conns, i \in Ids :
               phase[c] = "relay" /\ phase'[c] = "reply" /\ pending'[c] = Refusal(c, i)
                  => peers[i] = None \/ ~open[peers[i]]
<1>1. Init => Live
  BY DEF Init, Live, Serving
<1>2. ASSUME Inv, Live, [Next]_vars
      PROVE  [Step]_vars
  <2> SUFFICES ASSUME NEW c \in Conns, NEW i \in Ids, phase[c] = "relay",
                      phase'[c] = "reply", pending'[c] = Refusal(c, i),
                      peers[i] # None
               PROVE  ~open[peers[i]]
    OBVIOUS
  <2>1. List(c) \/ \E j \in Ids : Forward(c, j) /\ ~Reachable(j)
    BY <1>2, FreshReply
  <2>2. ~List(c)
    <3>1. List(c) => pending'[c] = Listing(c, Registered)
      BY <1>2 DEF List, Prepare, Inv, TypeOK
    <3>2. QED
      BY <3>1 DEF Listing, Refusal
  <2>3. PICK j \in Ids : Forward(c, j) /\ ~Reachable(j)
    BY <2>1, <2>2
  <2>4. pending'[c] = Refusal(c, j)
    BY <1>2, <2>3 DEF Forward, Prepare, Inv, TypeOK
  <2>5. i = j
    BY <2>4 DEF Refusal
  <2>6. peers[i] \in Conns /\ phase[peers[i]] \in Serving
    BY <1>2 DEF Inv, TypeOK, EntryIsServed
  <2>7. QED
    BY <1>2, <2>3, <2>5, <2>6 DEF Live, Reachable
<1>3. QED
  BY <1>1, <1>2, Invariance, LivePreserved, PTL DEF Spec, NoRouteIsTrue

-----------------------------------------------------------------------------
(* What the mailboxes say. *)

\* A reply in hand is no news of anybody.
NoNewsInHand ==
    \A c \in Conns : phase[c] = "reply" => pending[c].typ \in {"PROVIDERS", "ERROR"}

LEMMA NoNewsPreserved == Inv /\ NoNewsInHand /\ [Next]_vars => NoNewsInHand'
<1> SUFFICES ASSUME Inv, NoNewsInHand, [Next]_vars, NEW c \in Conns, phase'[c] = "reply"
             PROVE  pending'[c].typ \in {"PROVIDERS", "ERROR"}
  BY DEF NoNewsInHand
<1>1. CASE phase[c] = "reply"
  BY <1>1, HeldBefore DEF NoNewsInHand
<1>2. CASE List(c)
  <2>1. pending'[c] = Listing(c, Registered)
    BY <1>2 DEF List, Prepare, Inv, TypeOK
  <2> QED BY <2>1 DEF Listing
<1>3. ASSUME NEW i \in Ids, Forward(c, i), ~Reachable(i)
      PROVE  pending'[c].typ \in {"PROVIDERS", "ERROR"}
  <2>1. pending'[c] = Refusal(c, i)
    BY <1>3 DEF Forward, Prepare, Inv, TypeOK
  <2> QED BY <2>1 DEF Refusal
<1> QED BY <1>1, <1>2, <1>3, FreshReply

\* News of an id come from the announcement or the departure of who has it.
Sourced(m) ==
    \A i \in Ids :
        /\ m = Presence("PEER_CONNECTED", i) => \E o \in Conns : id[o] = i /\ Announce(o)
        /\ m = Presence("PEER_DISCONNECTED", i) => \E o \in Conns : id[o] = i /\ Depart(o)

\* What a step does to one mailbox and what its client heard, but for a delivery.
Keeps(d) == /\ mailbox'[d] = mailbox[d] /\ heard'[d] = heard[d]
            /\ pump[d] => pump'[d]

Gains(d, m) == /\ pump[d] /\ pump'[d]
               /\ mailbox'[d] = Append(mailbox[d], m)
               /\ heard'[d] = heard[d]

Loses(d) == mailbox'[d] = <<>> /\ heard'[d] = Unheard /\ ~pump'[d]

LEMMA OtherFrames ==
    ASSUME NEW m, m.typ \notin {"PEER_CONNECTED", "PEER_DISCONNECTED"}
    PROVE  Sourced(m)
BY DEF Sourced, Presence

LEMMA QueueGains ==
    ASSUME TypeOK, NEW C, NEW m \in Frames, Sourced(m), NEW d \in Conns,
           mailbox'[d] = Queued(C, m)[d], heard'[d] = heard[d], pump'[d] = pump[d]
    PROVE  Keeps(d) \/ \E n \in Frames : Gains(d, n) /\ Sourced(n)
BY DEF Queued, TypeOK, Keeps, Gains

LEMMA BoxSteps ==
    ASSUME Inv, NoNewsInHand, [Next]_vars, NEW d \in Conns
    PROVE  \/ Keeps(d)
           \/ \E m \in Frames : Gains(d, m) /\ Sourced(m)
           \/ Deliver(d)
           \/ Loses(d)
<1> DEFINE Goal == \/ Keeps(d)
                   \/ \E m \in Frames : Gains(d, m) /\ Sourced(m)
                   \/ Deliver(d)
                   \/ Loses(d)
<1> SUFFICES Goal
  OBVIOUS
<1>0. ASSUME UNCHANGED <<mailbox, heard, pump>>
      PROVE  Goal
  BY <1>0 DEF Keeps
<1>1. CASE UNCHANGED vars
  BY <1>0, <1>1 DEF vars
<1>2. ASSUME NEW C, NEW m \in Frames, Sourced(m), mailbox' = Queued(C, m),
             UNCHANGED <<heard, pump>>
      PROVE  Goal
  BY <1>2, QueueGains DEF Inv
<1>3. ASSUME NEW c \in Conns, Drop(c, mailbox)
      PROVE  Goal
  <2>1. CASE d = c
    BY <1>3, <2>1 DEF Drop, Inv, TypeOK, Loses
  <2>2. CASE d # c
    BY <1>3, <2>2 DEF Drop, Inv, TypeOK, Keeps
  <2> QED BY <2>1, <2>2
<1>4. ASSUME NEW c \in Conns, Client(c)
      PROVE  Goal
  <2>1. CASE RefuseHello(c) \/ List(c) \/ Close(c) \/ \E i \in Ids : RefuseTaken(c, i)
    BY <1>0, <2>1 DEF RefuseHello, RefuseTaken, List, Prepare, Close, Reads
  <2>2. ASSUME NEW i \in Ids, Register(c, i)
        PROVE  Goal
    BY <2>2 DEF Register, Enter, Keeps, Inv, TypeOK
  <2>3. ASSUME NEW i \in Ids, Forward(c, i)
        PROVE  Goal
    <3>1. CASE Reachable(i)
      <4>1. id[c] \in Ids
        BY <2>3 DEF Forward, Reads, Inv, TypeOK, Anonymous
      <4>2. Routed(c) \in Frames /\ Sourced(Routed(c))
        BY <4>1, FramesType, OtherFrames DEF Routed
      <4>3. mailbox' = Queued({peers[i]}, Routed(c)) /\ UNCHANGED <<heard, pump>>
        BY <2>3, <3>1 DEF Forward, Prepare, Reads, Queue
      <4> QED BY <1>2, <4>2, <4>3
    <3>2. CASE ~Reachable(i)
      BY <1>0, <2>3, <3>2 DEF Forward, Prepare, Reads
    <3> QED BY <3>1, <3>2
  <2>4. CASE BadControl(c)
    <3> DEFINE m == Refusal(c, "unknown_control")
    <3>1. m \in Frames /\ Sourced(m)
      BY FramesType, OtherFrames DEF Refusal
    <3>2. mailbox' = Queued({peers[id[c]]}, m) /\ UNCHANGED <<heard, pump>>
      BY <2>4 DEF BadControl, Reads, Queue
    <3> QED BY <1>2, <3>1, <3>2
  <2> QED BY <1>4, <2>1, <2>2, <2>3, <2>4 DEF Client
<1>5. ASSUME NEW c \in Conns, Task(c)
      PROVE  Goal
  <2>1. CASE Welcome(c)
    <3> DEFINE m == [typ |-> "WELCOME"]
    <3>1. m \in Frames /\ Sourced(m)
      BY FramesType, OtherFrames
    <3>2. mailbox' = Queued({c}, m) /\ UNCHANGED <<heard, pump>>
      BY <2>1 DEF Welcome, Queue
    <3> QED BY <1>2, <3>1, <3>2
  <2>2. CASE Announce(c)
    <3> DEFINE m == Presence("PEER_CONNECTED", id[c])
    <3>1. id[c] \in Ids
      BY <2>2 DEF Announce, Inv, TypeOK, Anonymous
    <3>2. m \in Frames /\ Sourced(m)
      BY <2>2, <3>1, FramesType DEF Sourced, Presence
    <3>3. mailbox' = Queued(Audience(id[c]), m) /\ UNCHANGED <<heard, pump>>
      BY <2>2 DEF Announce, Queue
    <3> QED BY <1>2, <3>2, <3>3
  <2>3. CASE Reply(c)
    <3>1. pending[c] \in Frames /\ Sourced(pending[c])
      BY <2>3, OtherFrames DEF Reply, Inv, ReplyInHand, NoNewsInHand
    <3>2. mailbox' = Queued({peers[id[c]]}, pending[c]) /\ UNCHANGED <<heard, pump>>
      BY <2>3 DEF Reply, Queue
    <3> QED BY <1>2, <3>1, <3>2
  <2>4. CASE Leave(c)
    BY <1>0, <2>4 DEF Leave, Break
  <2>5. CASE Unregister(c)
    BY <1>0, <1>3, <2>5 DEF Unregister, Release, Finish
  <2>6. CASE Depart(c)
    <3> DEFINE m == Presence("PEER_DISCONNECTED", id[c])
               Q == Queued(Audience(id[c]), m)
    <3>1. id[c] \in Ids
      BY <2>6 DEF Depart, Inv, TypeOK, Anonymous
    <3>2. m \in Frames /\ Sourced(m)
      BY <2>6, <3>1, FramesType DEF Sourced, Presence
    <3>3. Drop(c, Q)
      BY <2>6 DEF Depart, Finish
    <3>4. Q \in [Conns -> Seq(Frames)]
      BY <3>2, QueuedType DEF Inv
    <3> HIDE DEF m
    <3>5. CASE d = c
      <4> HIDE DEF Q
      <4> QED BY <3>3, <3>4, <3>5 DEF Drop, Loses, Inv, TypeOK
    <3>6. CASE d # c
      <4>1. mailbox'[d] = Q[d] /\ heard'[d] = heard[d] /\ pump'[d] = pump[d]
        <5> HIDE DEF Q
        <5> QED BY <3>3, <3>4, <3>6 DEF Drop, Inv, TypeOK
      <4> QED BY <3>2, <4>1, QueueGains DEF Inv
    <3> QED BY <3>5, <3>6
  <2> QED BY <1>5, <2>1, <2>2, <2>3, <2>4, <2>5, <2>6 DEF Task
<1>6. ASSUME NEW c \in Conns, Deliver(c)
      PROVE  Goal
  BY <1>6 DEF Deliver, Inv, TypeOK, Keeps
<1>7. ASSUME NEW c \in Conns, PumpFails(c)
      PROVE  Goal
  BY <1>3, <1>7 DEF PumpFails
<1> QED BY <1>1, <1>4, <1>5, <1>6, <1>7 DEF Next

-----------------------------------------------------------------------------
(* What a step does to a connection. *)

\* Those whose announcement was made, while they are served and after.
Announced == {"relay", "reply", "leave"}
Gone == {"depart", "done"}

\* Where a step may take the connection o.
Courses(o) ==
    /\ id'[o] # id[o] => phase[o] = "hello" /\ phase'[o] = "welcome"
    /\ phase'[o] = "hello" => phase[o] = "hello" /\ (pump'[o] => pump[o])
    /\ phase[o] = "done" => phase'[o] = "done"
    /\ phase[o] \in Announced \cup Gone => phase'[o] \in Announced \cup Gone
    /\ phase'[o] \in Announced => phase[o] \in Announced \/ Announce(o)
    /\ phase'[o] \in Serving => phase[o] \in Serving \/ phase[o] = "hello"
    /\ phase'[o] = "done" => \/ phase[o] = "done"
                             \/ phase[o] = "hello" /\ id[o] = None
                             \/ Depart(o)
                             \/ phase[o] = "leave" /\ peers[id[o]] # o
    /\ evicted[o] => evicted'[o]
    /\ evicted'[o] => \/ evicted[o]
                      \/ id'[o] # None /\ \E d \in Conns : d # o /\ id'[d] = id'[o]
    /\ pump'[o] => pump[o] \/ phase[o] = "hello"

LEMMA CoursesHold ==
    ASSUME Inv, [Next]_vars, NEW o \in Conns
    PROVE  Courses(o)
<1> USE DEF Inv, Serving, Announced, Gone
<1>0. ASSUME UNCHANGED <<phase, id, evicted, pump>>
      PROVE  Courses(o)
  BY <1>0 DEF Courses, TypeOK, Phases
<1>1. CASE UNCHANGED vars
  BY <1>0, <1>1 DEF vars
<1>6. ASSUME UNCHANGED <<id, evicted, pump>>, NEW c \in Conns, NEW p \in Announced,
             phase[c] \in Announced \/ Announce(c), phase' = [phase EXCEPT ![c] = p]
      PROVE  Courses(o)
  BY <1>6 DEF Courses, TypeOK, Phases, Announce
<1>2. ASSUME NEW c \in Conns, Client(c)
      PROVE  Courses(o)
  <2>1. CASE RefuseHello(c) \/ \E i \in Ids : RefuseTaken(c, i)
    BY <2>1 DEF RefuseHello, RefuseTaken, Courses, TypeOK, Anonymous, Phases, End, Goto
  <2>2. ASSUME NEW i \in Ids, Register(c, i)
        PROVE  Courses(o)
    <3>1. /\ phase[c] = "hello" /\ id[c] = None /\ ~evicted[c]
          /\ phase' = [phase EXCEPT ![c] = "welcome"]
          /\ id' = [id EXCEPT ![c] = i]
          /\ evicted' = [d \in Conns |-> evicted[d] \/ peers[i] = d]
          /\ pump' = [pump EXCEPT ![c] = TRUE]
      BY <2>2 DEF Register, Enter, Goto, Anonymous
    <3>2. CASE o = c
      BY <3>1, <3>2 DEF Courses, TypeOK, EntryIsServed
    <3>3. CASE o # c
      <4>1. evicted'[o] => evicted[o] \/ (id'[o] # None /\ id'[c] = id'[o])
        BY <3>1, <3>3 DEF TypeOK, EntryIsServed
      <4> QED BY <3>1, <3>3, <4>1 DEF Courses, TypeOK, Phases
    <3> QED BY <3>2, <3>3
  <2>3. CASE List(c) \/ \E i \in Ids : Forward(c, i)
    <3>1. phase[c] = "relay" /\ UNCHANGED <<id, evicted, pump>>
      BY <2>3 DEF List, Forward, Reads
    <3>2. phase' = phase \/ phase' = [phase EXCEPT ![c] = "reply"]
      BY <2>3 DEF List, Forward, Prepare, Goto
    <3> QED BY <1>0, <1>6, <3>1, <3>2
  <2>4. CASE BadControl(c) \/ Close(c)
    BY <1>0, <2>4 DEF BadControl, Reads, Close
  <2> QED BY <1>2, <2>1, <2>2, <2>3, <2>4 DEF Client
<1>3. ASSUME NEW c \in Conns, Task(c)
      PROVE  Courses(o)
  <2>1. CASE Welcome(c)
    BY <2>1 DEF Welcome, Goto, Courses, TypeOK, Phases
  <2>2. CASE Announce(c) \/ Reply(c) \/ Leave(c)
    <3>1. UNCHANGED <<id, evicted, pump>>
      BY <2>2 DEF Announce, Reply, Leave, Break
    <3>2. phase' = [phase EXCEPT ![c] = "relay"] \/ phase' = [phase EXCEPT ![c] = "leave"]
      BY <2>2 DEF Announce, Reply, Leave, Break, Goto
    <3>3. phase[c] \in Announced \/ Announce(c)
      BY <2>2 DEF Reply, Leave, Break
    <3> QED BY <1>6, <3>1, <3>2, <3>3
  <2>3. CASE Unregister(c)
    <3>1. phase[c] = "leave" /\ id[c] \in Ids /\ UNCHANGED <<id, evicted>>
      BY <2>3 DEF Unregister, Release, Finish, TypeOK, Anonymous
    <3>2. \/ phase' = [phase EXCEPT ![c] = "depart"] /\ pump' = pump
          \/ /\ phase' = [phase EXCEPT ![c] = "done"] /\ peers[id[c]] # c
             /\ pump' = [pump EXCEPT ![c] = FALSE]
      BY <2>3 DEF Unregister, Release, Finish, Drop, End, Goto
    <3>3. CASE o = c
      BY <3>1, <3>2, <3>3 DEF Courses, TypeOK
    <3>4. CASE o # c
      <4>1. phase'[o] = phase[o] /\ pump'[o] = pump[o]
        BY <3>2, <3>4 DEF TypeOK
      <4> QED BY <3>1, <4>1 DEF Courses, TypeOK, Phases
    <3> QED BY <3>3, <3>4
  <2>4. CASE Depart(c)
    <3>1. /\ phase[c] = "depart" /\ UNCHANGED <<id, evicted>>
          /\ phase' = [phase EXCEPT ![c] = "done"]
          /\ pump' = [pump EXCEPT ![c] = FALSE]
      BY <2>4 DEF Depart, Finish, Drop, End, Goto
    <3> QED BY <2>4, <3>1 DEF Courses, TypeOK, Phases
  <2> QED BY <1>3, <2>1, <2>2, <2>3, <2>4 DEF Task
<1>4. ASSUME NEW c \in Conns, Deliver(c)
      PROVE  Courses(o)
  BY <1>0, <1>4 DEF Deliver
<1>5. ASSUME NEW c \in Conns, PumpFails(c)
      PROVE  Courses(o)
  <2>1. UNCHANGED <<phase, id, evicted>> /\ pump' = [pump EXCEPT ![c] = FALSE]
    BY <1>5 DEF PumpFails, Drop
  <2> QED BY <2>1 DEF Courses, TypeOK, Phases
<1> QED BY <1>1, <1>2, <1>3, <1>4, <1>5 DEF Next

-----------------------------------------------------------------------------
(* What a client was told and will be told. *)

\* A presence frame about i is queued for c.
Says(c, t, i) == \E n \in DOMAIN mailbox[c] : mailbox[c][n] = Presence(t, i)

\* The client of c was told, or is about to be told, that i came or went.
Arrival(c, i) == heard[c][i] = "connected" \/ Says(c, "PEER_CONNECTED", i)
Departure(c, i) == heard[c][i] = "gone" \/ Says(c, "PEER_DISCONNECTED", i)

LEMMA TwoKinds ==
    \A i, j \in Ids :
        /\ Presence("PEER_CONNECTED", i) # Presence("PEER_DISCONNECTED", j)
        /\ \A t : Presence(t, i) = Presence(t, j) => i = j
BY DEF Presence

\* What delivering a frame changes of the ids it is about.
LEMMA ToldOf ==
    ASSUME NEW h \in [Ids -> {"nothing", "connected", "gone"}], NEW m \in Frames,
           NEW i \in Ids
    PROVE  /\ m = Presence("PEER_CONNECTED", i) => Told(h, m)[i] = "connected"
           /\ m = Presence("PEER_DISCONNECTED", i) => Told(h, m)[i] = "gone"
           /\ Told(h, m)[i] # h[i] => \/ m = Presence("PEER_CONNECTED", i)
                                      \/ m = Presence("PEER_DISCONNECTED", i)
<1>1. CASE m.typ = "PEER_CONNECTED"
  <2>1. PICK j \in Ids : m = Presence("PEER_CONNECTED", j)
    BY <1>1 DEF Frames, Presence
  <2> QED BY <1>1, <2>1, TwoKinds DEF Told, Presence
<1>2. CASE m.typ = "PEER_DISCONNECTED"
  <2>1. PICK j \in Ids : m = Presence("PEER_DISCONNECTED", j)
    BY <1>2 DEF Frames, Presence
  <2> QED BY <1>2, <2>1, TwoKinds DEF Told, Presence
<1>3. CASE m.typ \notin {"PEER_CONNECTED", "PEER_DISCONNECTED"}
  BY <1>3 DEF Told, Presence
<1> QED BY <1>1, <1>2, <1>3

\* A delivery takes the first frame, moves the others up and tells it.
LEMMA Delivery ==
    ASSUME Inv, NEW d \in Conns, Deliver(d)
    PROVE  /\ 1 \in DOMAIN mailbox[d] /\ mailbox[d][1] \in Frames
           /\ heard'[d] = Told(heard[d], mailbox[d][1])
           /\ heard[d] \in [Ids -> {"nothing", "connected", "gone"}]
           /\ \A n \in DOMAIN mailbox'[d] :
                 n + 1 \in DOMAIN mailbox[d] /\ mailbox'[d][n] = mailbox[d][n + 1]
           /\ \A n \in DOMAIN mailbox[d] \ {1} :
                 n - 1 \in DOMAIN mailbox'[d] /\ mailbox'[d][n - 1] = mailbox[d][n]
           /\ pump'[d]
<1>1. mailbox[d] \in Seq(Frames) /\ mailbox[d] # <<>>
  BY DEF Deliver, Inv, TypeOK
<1>2. mailbox'[d] = Tail(mailbox[d]) /\ heard'[d] = Told(heard[d], Head(mailbox[d]))
      /\ pump'[d]
  BY DEF Deliver, Inv, TypeOK
<1>3. Head(mailbox[d]) = mailbox[d][1] /\ 1 \in DOMAIN mailbox[d]
  BY <1>1
<1>4. heard[d] \in [Ids -> {"nothing", "connected", "gone"}] /\ mailbox[d][1] \in Frames
  BY <1>1, <1>3 DEF Inv, TypeOK
<1> HIDE DEF Inv
<1>5. /\ \A n \in DOMAIN mailbox'[d] :
                 n + 1 \in DOMAIN mailbox[d] /\ mailbox'[d][n] = mailbox[d][n + 1]
      /\ \A n \in DOMAIN mailbox[d] \ {1} :
                 n - 1 \in DOMAIN mailbox'[d] /\ mailbox'[d][n - 1] = mailbox[d][n]
  BY <1>1, <1>2
<1> QED BY <1>2, <1>3, <1>4, <1>5

\* A frame appended is the last one.
LEMMA Appended ==
    ASSUME Inv, NEW d \in Conns, NEW m \in Frames, Gains(d, m)
    PROVE  /\ \A n \in DOMAIN mailbox[d] :
                 n \in DOMAIN mailbox'[d] /\ mailbox'[d][n] = mailbox[d][n]
           /\ Len(mailbox[d]) + 1 \in DOMAIN mailbox'[d]
           /\ mailbox'[d][Len(mailbox[d]) + 1] = m
           /\ \A n \in DOMAIN mailbox'[d] :
                 \/ n \in DOMAIN mailbox[d]
                 \/ n = Len(mailbox[d]) + 1
           /\ \A n \in DOMAIN mailbox[d] : n \in Nat /\ n <= Len(mailbox[d])
           /\ Len(mailbox[d]) \in Nat
<1>1. mailbox[d] \in Seq(Frames) /\ mailbox'[d] = Append(mailbox[d], m)
  BY DEF Gains, Inv, TypeOK
<1> HIDE DEF Inv
<1> QED BY <1>1

\* What is told was told before or is being announced.
LEMMA ArrivalSourced ==
    ASSUME Inv, NoNewsInHand, [Next]_vars, NEW d \in Conns, NEW i \in Ids
    PROVE  /\ Arrival(d, i)' => Arrival(d, i) \/ \E o \in Conns : id[o] = i /\ Announce(o)
           /\ Departure(d, i)' => Departure(d, i) \/ \E o \in Conns : id[o] = i /\ Depart(o)
<1>1. CASE Keeps(d)
  BY <1>1 DEF Keeps, Arrival, Departure, Says
<1>2. ASSUME NEW m \in Frames, Gains(d, m), Sourced(m)
      PROVE  /\ Arrival(d, i)' => Arrival(d, i) \/ \E o \in Conns : id[o] = i /\ Announce(o)
             /\ Departure(d, i)' => Departure(d, i) \/ \E o \in Conns : id[o] = i /\ Depart(o)
  BY <1>2, Appended DEF Gains, Sourced, Arrival, Departure, Says
<1>3. CASE Deliver(d)
  BY <1>3, Delivery, ToldOf DEF Arrival, Departure, Says
<1>4. CASE Loses(d)
  BY <1>4 DEF Loses, Unheard, Arrival, Departure, Says
<1> QED BY <1>1, <1>2, <1>3, <1>4, BoxSteps

\* An arrival is told as long as no departure is.
LEMMA ArrivalKept ==
    ASSUME Inv, NoNewsInHand, [Next]_vars, NEW d \in Conns, NEW i \in Ids,
           Arrival(d, i), ~Departure(d, i), pump'[d]
    PROVE  Arrival(d, i)'
<1>1. CASE Keeps(d)
  BY <1>1 DEF Keeps, Arrival, Says
<1>2. ASSUME NEW m \in Frames, Gains(d, m)
      PROVE  Arrival(d, i)'
  BY <1>2, Appended DEF Gains, Arrival, Says
<1>3. CASE Deliver(d)
  BY <1>3, Delivery, ToldOf DEF Arrival, Departure, Says
<1>4. CASE Loses(d)
  BY <1>4 DEF Loses
<1> QED BY <1>1, <1>2, <1>3, <1>4, BoxSteps

-----------------------------------------------------------------------------
(* Whose news there can be. *)

\* An id is told to have come only once its connection was announced, and to
\* have gone only once that one ended.
Heralded ==
    \A c \in Conns, i \in Ids :
        /\ Arrival(c, i) => \E o \in Conns : id[o] = i /\ phase[o] \in Announced \cup Gone
        /\ Departure(c, i) => \E o \in Conns : id[o] = i /\ phase[o] = "done"

\* Without a pump nothing is queued and nothing was told.
Deaf == \A c \in Conns : ~pump[c] => mailbox[c] = <<>> /\ heard[c] = Unheard

\* The pump starts with the registration.
LateStart == \A c \in Conns : phase[c] = "hello" => ~pump[c]

\* An eviction is the doing of another connection of the same id.
Replaced ==
    \A c \in Conns :
        evicted[c] => id[c] # None /\ \E d \in Conns : d # c /\ id[d] = id[c]

News == NoNewsInHand /\ Heralded /\ Deaf /\ LateStart /\ Replaced

LEMMA InitNews == Init => News
BY DEF Init, News, NoNewsInHand, Heralded, Deaf, LateStart, Replaced, Arrival,
       Departure, Says, Unheard

LEMMA HeraldedPreserved ==
    Inv /\ NoNewsInHand /\ Heralded /\ [Next]_vars => Heralded'
<1> SUFFICES ASSUME Inv, NoNewsInHand, Heralded, [Next]_vars, NEW c \in Conns, NEW i \in Ids
             PROVE  /\ Arrival(c, i)' => \E o \in Conns :
                          id'[o] = i /\ phase'[o] \in Announced \cup Gone
                    /\ Departure(c, i)' => \E o \in Conns : id'[o] = i /\ phase'[o] = "done"
  BY DEF Heralded
<1>1. ASSUME NEW o \in Conns, Announce(o)
      PROVE  phase'[o] \in Announced \cup Gone /\ id'[o] = id[o]
  BY <1>1 DEF Announce, Goto, Inv, TypeOK, Announced
<1>2. ASSUME NEW o \in Conns, Depart(o)
      PROVE  phase'[o] = "done" /\ id'[o] = id[o]
  BY <1>2 DEF Depart, Finish, End, Goto, Inv, TypeOK
<1>3. ASSUME NEW o \in Conns, phase[o] \in Announced \cup Gone
      PROVE  /\ phase'[o] \in Announced \cup Gone /\ id'[o] = id[o]
             /\ phase[o] = "done" => phase'[o] = "done"
  BY <1>3, CoursesHold DEF Courses, Announced, Gone
<1>4. ASSUME Arrival(c, i)'
      PROVE  \E o \in Conns : id'[o] = i /\ phase'[o] \in Announced \cup Gone
  BY <1>1, <1>3, <1>4, ArrivalSourced DEF Heralded
<1>5. ASSUME Departure(c, i)'
      PROVE  \E o \in Conns : id'[o] = i /\ phase'[o] = "done"
  BY <1>2, <1>3, <1>5, ArrivalSourced DEF Heralded, Gone
<1> QED BY <1>4, <1>5

LEMMA DeafPreserved ==
    Inv /\ NoNewsInHand /\ Deaf /\ [Next]_vars => Deaf'
<1> SUFFICES ASSUME Inv, NoNewsInHand, Deaf, [Next]_vars, NEW c \in Conns, ~pump'[c]
             PROVE  mailbox'[c] = <<>> /\ heard'[c] = Unheard
  BY DEF Deaf, Unheard
<1>1. CASE Keeps(c)
  BY <1>1 DEF Keeps, Deaf
<1>2. CASE Loses(c)
  BY <1>2 DEF Loses
<1> QED BY <1>1, <1>2, BoxSteps, Delivery DEF Gains

LEMMA ReplacedPreserved == Inv /\ Replaced /\ [Next]_vars => Replaced'
<1> SUFFICES ASSUME Inv, Replaced, [Next]_vars, NEW c \in Conns, evicted'[c]
             PROVE  id'[c] # None /\ \E d \in Conns : d # c /\ id'[d] = id'[c]
  BY DEF Replaced
<1>1. CASE ~evicted[c]
  BY <1>1, CoursesHold DEF Courses
<1>2. CASE evicted[c]
  <2>1. PICK d \in Conns : d # c /\ id[d] = id[c] /\ id[c] # None
    BY <1>2 DEF Replaced
  <2>2. id'[d] = id[d] /\ id'[c] = id[c]
    BY <2>1, CoursesHold DEF Courses, Inv, Anonymous
  <2> QED BY <2>1, <2>2
<1> QED BY <1>1, <1>2

LEMMA NewsPreserved == Inv /\ News /\ [Next]_vars => News'
<1>1. Inv /\ LateStart /\ [Next]_vars => LateStart'
  BY CoursesHold DEF Courses, LateStart
<1> QED BY <1>1, NoNewsPreserved, HeraldedPreserved, DeafPreserved, ReplacedPreserved DEF News

-----------------------------------------------------------------------------
(* Who has left is not believed to be there. *)

\* An id a step leaves to one connection was used once before.
LEMMA UsedBefore ==
    ASSUME Inv, [Next]_vars, NEW i \in Ids, UsedOnce(i)'
    PROVE  UsedOnce(i)
<1> SUFFICES ASSUME NEW c \in Conns, id[c] = i
             PROVE  id'[c] = i
  BY DEF UsedOnce
<1> QED BY CoursesHold DEF Courses, Inv, Anonymous

\* The last that c was told, or will be told, of i is not that it came.
LastGone(c, i) ==
    \/ ~Arrival(c, i)
    \/ \E n \in DOMAIN mailbox[c] :
          /\ mailbox[c][n] = Presence("PEER_DISCONNECTED", i)
          /\ \A k \in DOMAIN mailbox[c] :
                k > n => mailbox[c][k] # Presence("PEER_CONNECTED", i)

\* Who is served has been told of every end, or never heard of that one.
Settled ==
    \A c, o \in Conns, i \in Ids :
        /\ phase[c] \in Serving /\ ~evicted[c]
        /\ phase[o] = "done" /\ id[o] = i /\ UsedOnce(i)
        => LastGone(c, i)

LEMMA LastGoneKept ==
    ASSUME Inv, NoNewsInHand, [Next]_vars, NEW c \in Conns, NEW i \in Ids, LastGone(c, i),
           \A o \in Conns : id[o] = i => ~Announce(o)
    PROVE  LastGone(c, i)'
<1>1. CASE ~Arrival(c, i)
  BY <1>1, ArrivalSourced DEF LastGone
<1>2. ASSUME NEW n \in DOMAIN mailbox[c],
             mailbox[c][n] = Presence("PEER_DISCONNECTED", i),
             \A k \in DOMAIN mailbox[c] :
                k > n => mailbox[c][k] # Presence("PEER_CONNECTED", i)
      PROVE  LastGone(c, i)'
  <2>1. CASE Keeps(c)
    BY <1>2, <2>1 DEF Keeps, LastGone
  <2>2. ASSUME NEW m \in Frames, Gains(c, m), Sourced(m)
        PROVE  LastGone(c, i)'
    <3>1. m # Presence("PEER_CONNECTED", i)
      BY <2>2 DEF Sourced
    <3> QED BY <1>2, <2>2, <3>1, Appended DEF LastGone
  <2>3. CASE Deliver(c)
    <3>0. n \in Nat /\ n >= 1 /\ \A k \in DOMAIN mailbox'[c] : k \in Nat /\ k >= 1
      BY TypePreserved DEF Inv, TypeOK
    <3>1. CASE n = 1
      <4>1. heard'[c][i] = "gone"
        BY <1>2, <2>3, <3>1, Delivery, ToldOf
      <4>2. ASSUME NEW k \in DOMAIN mailbox'[c]
            PROVE  mailbox'[c][k] # Presence("PEER_CONNECTED", i)
        <5>1. k + 1 \in DOMAIN mailbox[c] /\ mailbox'[c][k] = mailbox[c][k + 1]
          BY <2>3, Delivery
        <5> QED BY <1>2, <3>0, <3>1, <5>1
      <4> QED BY <4>1, <4>2 DEF LastGone, Arrival, Says
    <3>2. CASE n # 1
      <4>1. n - 1 \in DOMAIN mailbox'[c] /\ mailbox'[c][n - 1] = mailbox[c][n]
        BY <2>3, <3>2, Delivery
      <4>2. ASSUME NEW k \in DOMAIN mailbox'[c], k > n - 1
            PROVE  mailbox'[c][k] # Presence("PEER_CONNECTED", i)
        <5>1. k + 1 \in DOMAIN mailbox[c] /\ mailbox'[c][k] = mailbox[c][k + 1]
          BY <2>3, Delivery
        <5> QED BY <1>2, <3>0, <4>2, <5>1
      <4> QED BY <1>2, <4>1, <4>2 DEF LastGone
    <3> QED BY <3>1, <3>2
  <2>4. CASE Loses(c)
    BY <2>4 DEF Loses, LastGone, Arrival, Says, Unheard
  <2> QED BY <2>1, <2>2, <2>3, <2>4, BoxSteps
<1> QED BY <1>1, <1>2 DEF LastGone

\* A departure is told to whoever is served and not being replaced.
LEMMA DepartureTold ==
    ASSUME Inv, Deaf, NEW c \in Conns, NEW o \in Conns, NEW i \in Ids,
           Depart(o), id[o] = i, phase[c] \in Serving, ~evicted[c], id[c] # i
    PROVE  LastGone(c, i)'
<1> DEFINE m == Presence("PEER_DISCONNECTED", i)
           Q == Queued(Audience(i), m)
<1>1. phase[o] = "depart" /\ c # o
  BY DEF Depart, Inv, TypeOK, Anonymous, Serving
<1>2. m \in Frames
  BY FramesType
<1>3. Q \in [Conns -> Seq(Frames)]
  BY <1>2, QueuedType DEF Inv
<1>4. Drop(o, Q) /\ id' = id
  BY DEF Depart, Finish
<1>5. c \in Audience(i)
  <2>1. id[c] \in Ids \ {i} /\ peers[id[c]] = c
    BY DEF Inv, TypeOK, Anonymous, LosesSeatOnlyByEviction, Serving
  <2> QED BY <2>1 DEF Audience
<1>6. Q[c] = IF pump[c] THEN Append(mailbox[c], m) ELSE mailbox[c]
  BY <1>5 DEF Queued
<1> HIDE DEF Q, m
<1>7. mailbox'[c] = Q[c] /\ heard'[c] = heard[c] /\ pump'[c] = pump[c]
  BY <1>1, <1>3, <1>4 DEF Drop, Inv, TypeOK
<1>8. CASE pump[c]
  <2>1. Gains(c, m)
    BY <1>6, <1>7, <1>8 DEF Gains
  <2>2. ASSUME NEW k \in DOMAIN mailbox'[c], k > Len(mailbox[c]) + 1
        PROVE  FALSE
    BY <1>2, <2>1, <2>2, Appended
  <2>3. /\ Len(mailbox[c]) + 1 \in DOMAIN mailbox'[c]
        /\ mailbox'[c][Len(mailbox[c]) + 1] = m
    BY <1>2, <2>1, Appended
  <2> QED BY <1>4, <2>2, <2>3 DEF LastGone, m
<1>9. CASE ~pump[c]
  <2>1. mailbox'[c] = <<>> /\ heard'[c] = Unheard
    BY <1>6, <1>7, <1>9 DEF Deaf
  <2> QED BY <1>1, <1>4, <2>1 DEF LastGone, Arrival, Says, Unheard
<1> QED BY <1>8, <1>9

LEMMA SettledPreserved == Inv /\ News /\ Settled /\ [Next]_vars => Settled'
<1> SUFFICES ASSUME Inv, News, Settled, [Next]_vars, NEW c \in Conns, NEW o \in Conns,
                    NEW i \in Ids, phase'[c] \in Serving, ~evicted'[c],
                    phase'[o] = "done", id'[o] = i, UsedOnce(i)'
             PROVE  LastGone(c, i)'
  BY DEF Settled
<1>1. phase[o] # "hello" /\ id[o] = i
  BY CoursesHold DEF Courses, Inv, TypeOK, Anonymous
<1>2. UsedOnce(i)
  BY UsedBefore
<1>3. CASE phase[c] = "hello"
  <2>1. mailbox[c] = <<>> /\ heard[c] = Unheard /\ ~pump[c]
    BY <1>3 DEF News, Deaf, LateStart
  <2>2. mailbox'[c] = <<>> /\ heard'[c] = Unheard
    BY <2>1, BoxSteps DEF News, Keeps, Gains, Loses, Deliver
  <2> QED BY <1>1, <2>2 DEF LastGone, Arrival, Says, Unheard
<1>4. CASE phase[c] # "hello"
  <2>1. phase[c] \in Serving /\ ~evicted[c] /\ id'[c] = id[c]
    BY <1>4, CoursesHold DEF Courses
  <2>2. CASE phase[o] = "done"
    <3>1. \A d \in Conns : id[d] = i => ~Announce(d)
      BY <1>2, <2>2 DEF UsedOnce, Announce
    <3>2. LastGone(c, i)
      BY <1>1, <1>2, <2>1, <2>2 DEF Settled
    <3> QED BY <1>1, <3>1, <3>2, LastGoneKept DEF News
  <2>3. CASE Depart(o)
    <3>1. id[c] # i
      BY <1>2, <2>1, <2>3 DEF UsedOnce, Depart, Serving
    <3> QED BY <1>1, <2>1, <2>3, <3>1, DepartureTold DEF News
  <2>4. CASE phase[o] = "leave" /\ peers[id[o]] # o
    <3>1. evicted[o]
      BY <2>4 DEF Inv, LosesSeatOnlyByEviction, Serving
    <3> QED BY <1>1, <1>2, <3>1 DEF News, Replaced, UsedOnce
  <2> QED BY <1>1, <2>2, <2>3, <2>4, CoursesHold DEF Courses
<1> QED BY <1>3, <1>4

-----------------------------------------------------------------------------
(* Two who are there know of each other. *)

\* c was told, or will be told, that d came.
Knows(c, d) == Arrival(c, id[d])

\* Announced, reachable, not being replaced, and the only one of its id.
Present(c) == /\ phase[c] \in Announced /\ ~evicted[c] /\ pump[c]
              /\ UsedOnce(id[c])

Introduced == \A c, d \in Conns : c # d /\ Present(c) /\ Present(d) => Knows(c, d) \/ Knows(d, c)

\* An announcement reaches whoever is served and not being replaced.
LEMMA AnnouncementTold ==
    ASSUME Inv, NEW c \in Conns, NEW d \in Conns, Announce(c),
           phase[d] \in Serving, ~evicted[d], pump[d], id[d] # id[c]
    PROVE  Knows(d, c)'
<1> DEFINE m == Presence("PEER_CONNECTED", id[c])
<1>1. id[c] \in Ids /\ id[d] \in Ids
  BY DEF Announce, Inv, TypeOK, Anonymous, Serving
<1>2. m \in Frames
  BY <1>1, FramesType
<1>3. d \in Audience(id[c])
  BY <1>1 DEF Audience, Inv, LosesSeatOnlyByEviction
<1>4. Gains(d, m) /\ id' = id
  BY <1>3 DEF Announce, Queue, Queued, Gains
<1> QED BY <1>2, <1>4, Appended DEF Knows, Arrival, Says

LEMMA KnowsKept ==
    ASSUME Inv, News, [Next]_vars, NEW c \in Conns, NEW d \in Conns, Knows(c, d), pump'[c],
           phase[d] \in Announced, UsedOnce(id[d])
    PROVE  Knows(c, d)'
<1>1. id[d] \in Ids /\ id'[d] = id[d]
  BY CoursesHold DEF Courses, Inv, TypeOK, Anonymous, Announced
<1>2. ~Departure(c, id[d])
  BY <1>1 DEF News, Heralded, UsedOnce, Announced
<1> QED BY <1>1, <1>2, ArrivalKept DEF News, Knows, Arrival, Says

LEMMA IntroducedPreserved == Inv /\ News /\ Introduced /\ [Next]_vars => Introduced'
<1>1. ASSUME Inv, News, [Next]_vars, NEW c \in Conns, Present(c)'
      PROVE  /\ phase[c] \in Announced \/ Announce(c)
             /\ phase[c] \in Serving /\ ~evicted[c] /\ pump[c] /\ pump'[c]
             /\ id[c] \in Ids /\ UsedOnce(id[c])
  <2>1. /\ phase[c] \in Announced \/ Announce(c)
        /\ phase[c] \in Serving
    BY <1>1, CoursesHold DEF Courses, Present, Announced, Serving, Announce
  <2>2. id'[c] = id[c] /\ ~evicted[c] /\ pump[c] /\ id[c] \in Ids
    BY <1>1, <2>1, CoursesHold DEF Courses, Present, Serving, Inv, TypeOK, Anonymous
  <2> QED BY <1>1, <2>1, <2>2, UsedBefore DEF Present
<1> SUFFICES ASSUME Inv, News, Introduced, [Next]_vars, NEW c \in Conns, NEW d \in Conns,
                    c # d, Present(c)', Present(d)'
             PROVE  Knows(c, d)' \/ Knows(d, c)'
  BY DEF Introduced
<1>2. id[c] # id[d]
  BY <1>1 DEF UsedOnce
<1>3. CASE Announce(c) \/ Announce(d)
  BY <1>1, <1>2, <1>3, AnnouncementTold
<1>4. CASE phase[c] \in Announced /\ phase[d] \in Announced
  <2>1. Knows(c, d) \/ Knows(d, c)
    BY <1>1, <1>4 DEF Introduced, Present
  <2> QED BY <1>1, <1>4, <2>1, KnowsKept
<1> QED BY <1>1, <1>3, <1>4

-----------------------------------------------------------------------------
LEMMA NewsInvariance == Spec => [](News /\ Settled /\ Introduced)
<1>1. Init => Settled /\ Introduced
  BY DEF Init, Settled, Introduced, Present, Serving, Announced
<1> QED
  BY <1>1, InitNews, Invariance, NewsPreserved, SettledPreserved, IntroducedPreserved,
     PTL DEF Spec

(* Presence ends up true: when every task waits for its client and nothing   *)
(* is queued, no client believes in an id of one connection that left, or    *)
(* takes for gone one that is registered, whatever order the announcements,  *)
(* the departures and the writers ran in.                                    *)
THEOREM PresenceIsTrueInTheEnd == Spec => []PresenceSettles
<1>1. Inv /\ News /\ Settled => PresenceSettles
  <2> SUFFICES ASSUME Inv, News, Settled, Quiet, NEW c \in Conns, NEW i \in Ids,
                      phase[c] = "relay", UsedOnce(i)
               PROVE  /\ heard[c][i] = "connected" => peers[i] # None
                      /\ heard[c][i] = "gone" => peers[i] = None
    BY DEF PresenceSettles
  <2>1. ASSUME heard[c][i] = "connected"
        PROVE  peers[i] # None
    <3>1. PICK o \in Conns : id[o] = i /\ phase[o] \in Announced \cup Gone
      BY <2>1 DEF News, Heralded, Arrival
    <3>2. phase[o] # "done"
      <4>1. mailbox[c] = <<>> /\ ~evicted[c] /\ phase[c] \in Serving
        BY DEF Quiet, Serving
      <4>2. ~LastGone(c, i)
        BY <2>1, <4>1 DEF LastGone, Arrival
      <4> QED BY <3>1, <4>1, <4>2 DEF Settled
    <3>3. phase[o] = "relay" /\ ~evicted[o]
      BY <3>1, <3>2 DEF Quiet, Announced, Gone
    <3> QED BY <3>1, <3>3 DEF Inv, LosesSeatOnlyByEviction, Serving
  <2>2. ASSUME heard[c][i] = "gone"
        PROVE  peers[i] = None
    <3>1. PICK o \in Conns : id[o] = i /\ phase[o] = "done"
      BY <2>2 DEF News, Heralded, Departure
    <3>2. peers[i] # None => peers[i] \in Conns /\ id[peers[i]] = i /\ phase[peers[i]] \in Serving
      BY DEF Inv, TypeOK, EntryIsServed
    <3> QED BY <3>1, <3>2 DEF Serving, UsedOnce
  <2> QED BY <2>1, <2>2
<1> QED BY <1>1, Invariance, NewsInvariance, PTL

(* Of two nodes registered by then at least one was told of the other, since *)
(* each enters the registry before it is announced.                          *)
THEOREM PairsAreIntroduced == Spec => []EveryPairIsIntroduced
<1>1. Init => Live
  BY DEF Init, Live, Serving
<1>2. Inv /\ Live /\ Introduced => EveryPairIsIntroduced
  <2> SUFFICES ASSUME Inv, Live, Introduced, Quiet, NEW c \in Conns, NEW d \in Conns, c # d,
                      phase[c] = "relay", UsedOnce(id[c]),
                      phase[d] = "relay", UsedOnce(id[d])
               PROVE  heard[c][id[d]] = "connected" \/ heard[d][id[c]] = "connected"
    BY DEF EveryPairIsIntroduced
  <2>1. mailbox[c] = <<>> /\ mailbox[d] = <<>>
    BY DEF Quiet
  <2>2. Present(c) /\ Present(d)
    BY DEF Quiet, Present, Announced, Live, Serving
  <2>3. Knows(c, d) \/ Knows(d, c)
    BY <2>2 DEF Introduced
  <2> QED BY <2>1, <2>3 DEF Knows, Arrival, Says
<1> QED BY <1>1, <1>2, Invariance, NewsInvariance, LivePreserved, PTL DEF Spec
=============================================================================
