------------------------------- MODULE Router -------------------------------
(***************************************************************************)
(* The router (src/router.rs): one registry behind a mutex, and for each   *)
(* connection a task that runs `handle` and a writer task (the pump) that  *)
(* drains the connection's mailbox into its socket.                        *)
(*                                                                         *)
(* A step is what happens between two points where another task can come   *)
(* in: one critical section of the registry's lock, or one read from the   *)
(* stream.  So registering, queueing the welcome and announcing the        *)
(* newcomer are three steps, and so are removing an entry and announcing   *)
(* the departure.  A connection is its own generation token: NEXT_TOKEN    *)
(* never gives one value twice.  Payloads, descriptors and the brand       *)
(* filter of a list are left out; `by` in a frame is not on the wire, it   *)
(* names the connection whose handler made the frame.                      *)
(***************************************************************************)
EXTENDS Naturals, Sequences

CONSTANTS
    Conns,      \* the connections this router ever serves
    Door,       \* those that come through the browser door: take_over is false
    Ids,        \* the ids their hellos are stamped into
    None,       \* no connection, no id, no frame
    MaxFrames   \* how many frames all clients send after their hellos

ASSUME RouterAssumption == /\ Door \subseteq Conns
                           /\ None \notin Conns
                           /\ None \notin Ids
                           /\ MaxFrames \in Nat

VARIABLES
    phase,      \* where the task of each connection stands in `handle`
    id,         \* the id each connection registered, None before it did
    peers,      \* the registry: the connection that holds each id
    open,       \* the stream can still yield frames
    evicted,    \* the evict channel of the connection has fired
    pump,       \* the writer task lives, so the mailbox takes frames
    mailbox,    \* frames queued for each connection
    pending,    \* the reply a handler made and has not queued yet
    sent,       \* how many frames the clients have sent after their hellos
    heard       \* what presence frames last told a client of each id

vars == <<phase, id, peers, open, evicted, pump, mailbox, pending, sent, heard>>

\* The handler holds, or may still hold, an entry of the registry.
Serving == {"welcome", "announce", "relay", "reply", "leave"}
Phases == Serving \cup {"hello", "depart", "done"}

Listing(c, L) == [typ |-> "PROVIDERS", by |-> c, list |-> L]
Refusal(c, why) == [typ |-> "ERROR", by |-> c, why |-> why]
Routed(c) == [typ |-> "ROUTE", by |-> c, from |-> id[c]]

\* Mutant: the frame does not say whom it is about.
PresenceNameless(t, i) == [typ |-> t, about |-> None]

Presence(t, i) == [typ |-> t, about |-> i]

Frames == [typ : {"WELCOME"}]
            \cup [typ : {"PROVIDERS"}, by : Conns, list : SUBSET Ids]
            \cup [typ : {"ERROR"}, by : Conns, why : Ids \cup {"unknown_control"}]
            \cup [typ : {"ROUTE"}, by : Conns, from : Ids]
            \cup [typ : {"PEER_CONNECTED", "PEER_DISCONNECTED"}, about : Ids]

TypeOK == /\ phase \in [Conns -> Phases]
          /\ id \in [Conns -> Ids \cup {None}]
          /\ peers \in [Ids -> Conns \cup {None}]
          /\ open \in [Conns -> BOOLEAN]
          /\ evicted \in [Conns -> BOOLEAN]
          /\ pump \in [Conns -> BOOLEAN]
          /\ mailbox \in [Conns -> Seq(Frames)]
          /\ pending \in [Conns -> Frames \cup {None}]
          /\ sent \in 0..MaxFrames
          /\ heard \in [Conns -> [Ids -> {"nothing", "connected", "gone"}]]

\* What a client knows when it has been told nothing.
Unheard == [i \in Ids |-> "nothing"]

Init == /\ phase = [c \in Conns |-> "hello"]
        /\ id = [c \in Conns |-> None]
        /\ peers = [i \in Ids |-> None]
        /\ open = [c \in Conns |-> TRUE]
        /\ evicted = [c \in Conns |-> FALSE]
        /\ pump = [c \in Conns |-> FALSE]
        /\ mailbox = [c \in Conns |-> <<>>]
        /\ pending = [c \in Conns |-> None]
        /\ sent = 0
        /\ heard = [c \in Conns |-> Unheard]

Goto(c, p) == phase' = [phase EXCEPT ![c] = p]

\* The task ends and drops its stream.
End(c) == /\ Goto(c, "done")
          /\ open' = [open EXCEPT ![c] = FALSE]

-----------------------------------------------------------------------------
(* The mailboxes: an mpsc channel whose receiver is the pump. *)

\* The mailboxes once m was sent to the connections C: sending on a channel
\* whose receiver is gone fails and queues nothing.
Queued(C, m) == [d \in Conns |-> IF d \in C /\ pump[d] THEN Append(mailbox[d], m)
                                                      ELSE mailbox[d]]

Queue(C, m) == mailbox' = Queued(C, m)

\* send_to finds the id and its channel takes the frame.
Reachable(i) == peers[i] # None /\ pump[peers[i]]

\* Mutant: a mailbox holds one frame, and what does not fit is dropped.
AudienceIdle(i) == {d \in Conns : mailbox[d] = <<>> /\ \E j \in Ids \ {i} : peers[j] = d}

\* broadcast: every registered connection except the one of the subject's id.
Audience(i) == {peers[j] : j \in Ids \ {i}} \ {None}

\* The writer task ends and drops what it had not written; the stream ends for
\* the client, and with it all the client knew.
Drop(c, boxes) == /\ pump' = [pump EXCEPT ![c] = FALSE]
                  /\ mailbox' = [boxes EXCEPT ![c] = <<>>]
                  /\ heard' = [heard EXCEPT ![c] = Unheard]

-----------------------------------------------------------------------------
(* The handshake. *)

\* The stream ends first, or the first frame is not a HELLO, is malformed, or
\* proposes an id that cannot be stamped: the task ends with nothing registered.
RefuseHello(c) == /\ phase[c] = "hello"
                  /\ End(c)
                  /\ UNCHANGED <<id, peers, evicted, pump, mailbox,
                                 pending, sent, heard>>

\* A browser's hello asks for an id that is registered.
RefuseTaken(c, i) == /\ phase[c] = "hello"
                     /\ c \in Door
                     /\ peers[i] # None
                     /\ End(c)
                     /\ UNCHANGED <<id, peers, evicted, pump, mailbox,
                                    pending, sent, heard>>

Enter(c, i) == /\ peers' = [peers EXCEPT ![i] = c]
               /\ evicted' = [d \in Conns |-> evicted[d] \/ peers[i] = d]
               /\ id' = [id EXCEPT ![c] = i]
               /\ pump' = [pump EXCEPT ![c] = TRUE]
               /\ Goto(c, "welcome")
               /\ UNCHANGED <<open, mailbox, pending, sent, heard>>

\* Mutant: take_over is not looked at.
RegisterAnyway(c, i) == phase[c] = "hello" /\ Enter(c, i)

\* The hello is accepted: check and insert under one lock, then fire the evict
\* channel of the connection that held the id and start the pump.  The firing
\* only lets the old task notice later, so it is the same step as the insert.
Register(c, i) == /\ phase[c] = "hello"
                  /\ c \in Door => peers[i] = None
                  /\ Enter(c, i)

\* WELCOME goes straight into the connection's own channel, after the lock.
Welcome(c) == /\ phase[c] = "welcome"
              /\ Queue({c}, [typ |-> "WELCOME"])
              /\ Goto(c, "announce")
              /\ UNCHANGED <<id, peers, open, evicted, pump, pending, sent, heard>>

Announce(c) == /\ phase[c] = "announce"
               /\ Queue(Audience(id[c]), Presence("PEER_CONNECTED", id[c]))
               /\ Goto(c, "relay")
               /\ UNCHANGED <<id, peers, open, evicted, pump, pending, sent, heard>>

-----------------------------------------------------------------------------
(* The relay loop.  The client chooses what it sends; frames already on the *)
(* wire are read after the client closed, and until the task sees it was    *)
(* evicted.                                                                 *)

Reads(c) == /\ phase[c] = "relay"
            /\ sent < MaxFrames
            /\ sent' = sent + 1
            /\ UNCHANGED <<id, peers, open, evicted, pump, heard>>

\* The reply is made, and queued in a later step.
Prepare(c, m) == /\ pending' = [pending EXCEPT ![c] = m]
                 /\ Goto(c, "reply")
                 /\ UNCHANGED mailbox

\* A frame for another id, or for the sender's own: forwarded under the id the
\* sender registered, or refused if nobody takes it.
Forward(c, dest) ==
    /\ Reads(c)
    /\ \/ /\ Reachable(dest)
          /\ Queue({peers[dest]}, Routed(c))
          /\ UNCHANGED <<phase, pending>>
       \/ /\ ~Reachable(dest)
          /\ Prepare(c, Refusal(c, dest))

Registered == {i \in Ids : peers[i] # None}

\* Mutant: the list leaves out the asker, as a broadcast does.
ListOthers(c) == Reads(c) /\ Prepare(c, Listing(c, Registered \ {id[c]}))

\* PROVIDERS_LIST: the registry is read under one lock, the reply queued later.
List(c) == Reads(c) /\ Prepare(c, Listing(c, Registered))

\* Any other frame without a destination; a second HELLO is skipped.
BadControl(c) == /\ Reads(c)
                 /\ Queue({peers[id[c]]}, Refusal(c, "unknown_control"))
                 /\ UNCHANGED <<phase, pending>>

\* The reply is addressed to the sender's id, whoever holds it by now.
Reply(c) == /\ phase[c] = "reply"
            /\ Queue({peers[id[c]]}, pending[c])
            /\ pending' = [pending EXCEPT ![c] = None]
            /\ Goto(c, "relay")
            /\ UNCHANGED <<id, peers, open, evicted, pump, sent, heard>>

-----------------------------------------------------------------------------
(* The end of a connection. *)

\* The client closes, its process dies, or it sends what cannot be decoded.  A
\* client gone before its hello was read is one that closes right after.
Close(c) == /\ open[c]
            /\ phase[c] \in Serving
            /\ open' = [open EXCEPT ![c] = FALSE]
            /\ UNCHANGED <<phase, id, peers, evicted, pump, mailbox, pending,
                           sent, heard>>

Break(c) == /\ phase[c] = "relay"
            /\ Goto(c, "leave")
            /\ UNCHANGED <<id, peers, open, evicted, pump, mailbox, pending,
                           sent, heard>>

\* Mutant: nothing waits for the evict channel.
LeaveAtEof(c) == ~open[c] /\ Break(c)

\* The loop ends: the read met the end or an error, or the other arm of the
\* select saw the eviction.
Leave(c) == (~open[c] \/ evicted[c]) /\ Break(c)

Release(c) == /\ peers' = [peers EXCEPT ![id[c]] = None]
              /\ Goto(c, "depart")
              /\ UNCHANGED <<id, open, evicted, pump, mailbox, pending, sent, heard>>

\* The pump is aborted and the task ends.
Finish(c, boxes) == /\ Drop(c, boxes)
                    /\ End(c)
                    /\ UNCHANGED <<id, peers, evicted, pending, sent>>

\* Mutant: the entry goes whosever it is by now.
UnregisterBlindly(c) == phase[c] = "leave" /\ Release(c)

\* Mutant: the entry stays behind.
UnregisterNothing(c) == phase[c] = "leave" /\ Finish(c, mailbox)

\* Remove the entry if it is still this connection's own.  Otherwise nothing is
\* announced and the task ends.
Unregister(c) == /\ phase[c] = "leave"
                 /\ \/ peers[id[c]] = c /\ Release(c)
                    \/ peers[id[c]] # c /\ Finish(c, mailbox)

\* Mutant: nobody is told.
DepartSilently(c) == phase[c] = "depart" /\ Finish(c, mailbox)

\* Announce the departure, under a lock taken anew, and abort the pump: this
\* connection is in no one's audience any more, so the two are one step.
Depart(c) == /\ phase[c] = "depart"
             /\ Finish(c, Queued(Audience(id[c]), Presence("PEER_DISCONNECTED", id[c])))

-----------------------------------------------------------------------------
(* The pump. *)

\* What the client makes of a frame: presence frames change what it heard.
Told(h, m) ==
    CASE m.typ = "PEER_CONNECTED" -> [h EXCEPT ![m.about] = "connected"]
      [] m.typ = "PEER_DISCONNECTED" -> [h EXCEPT ![m.about] = "gone"]
      [] OTHER -> h

Deliver(c) == /\ pump[c]
              /\ mailbox[c] # <<>>
              /\ heard' = [heard EXCEPT ![c] = Told(@, Head(mailbox[c]))]
              /\ mailbox' = [mailbox EXCEPT ![c] = Tail(@)]
              /\ UNCHANGED <<phase, id, peers, open, evicted, pump, pending, sent>>

\* Mutant: a write that does not go through at once ends the pump.
PumpGivesUp(c) == /\ pump[c]
                  /\ mailbox[c] # <<>>
                  /\ Drop(c, mailbox)
                  /\ UNCHANGED <<phase, id, peers, open, evicted, pending, sent>>

\* Writing fails once the client is gone: the pump ends, the entry stays.
PumpFails(c) == /\ pump[c]
                /\ mailbox[c] # <<>>
                /\ ~open[c]
                /\ Drop(c, mailbox)
                /\ UNCHANGED <<phase, id, peers, open, evicted, pending, sent>>

-----------------------------------------------------------------------------
\* What the task of c does without waiting for its client.
Task(c) == \/ Welcome(c)
           \/ Announce(c)
           \/ Reply(c)
           \/ Leave(c)
           \/ Unregister(c)
           \/ Depart(c)

\* What the client of c decides.
Client(c) == \/ RefuseHello(c)
             \/ \E i \in Ids : RefuseTaken(c, i) \/ Register(c, i) \/ Forward(c, i)
             \/ List(c)
             \/ BadControl(c)
             \/ Close(c)

Next == \E c \in Conns : Client(c) \/ Task(c) \/ Deliver(c) \/ PumpFails(c)

\* The runtime runs a ready task, and a client that lives reads its socket; no
\* client has to say hello, send or close.
Fairness == \A c \in Conns : WF_vars(Task(c)) /\ WF_vars(Deliver(c))

Spec == Init /\ [][Next]_vars /\ Fairness
=============================================================================
