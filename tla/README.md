# TLA+ models of zapd

zapd is a router for the processes of one user on one machine. Every process may
stand for router; the one that holds a lock serves; all of them dial it and talk
to each other through it in frames; a browser extension comes in through a
loopback WebSocket. This directory models the parts of it whose correctness
depends on order, and says of each what was checked and what was proved.

Paths are those of the repository (`src/router.rs` and so on); `PROJECT.json` maps
every definition to its lines.

## The system

| component | state | operations | interacts with | what makes it hard |
|---|---|---|---|---|
| router (`router.rs`) | the registry: id to connection, mailbox, evict channel; a task and a pump for each connection | hello, take over, announce, forward, list, reply, leave, unregister, depart | nodes over a socket or pipe; the door over a duplex pipe | everything between two locks of the registry interleaves; evictions race reads; presence races reconnects |
| node client (`node.rs`) | `tx`, `up`, `waiting`, the turn; the join task | call, nodes, settle; dial, session, teardown, reconnect | the router; callers in any thread | arm and send are two locks, teardown three; timeouts drop a call at any await; late answers |
| election (`elect.rs`, `os/*`) | the lock, ELECTED, the record of the pid, the address, the door's port | embed, lock, announce, bind, serve, resign; `holder`, dial's trust check; `browser_door` | all processes, the kernel | deaths between two system calls; stale socket files; doors made by others; children that inherit descriptors |
| browser door (`door.rs`) | admission permits; per connection a handshake and a pump | accept, check, prove, hello; the select over message, frame and idle timer | browsers; `router::handle` | cancelled futures; deadlines; limits; a browser that is silent or does not read |
| pairing (`pair.rs`) | the pairing file (a port and a key), a temporary file for each process | load, reset, publish, free_port | the door, `browser_door`, the command line, other processes | races of minting, replacing and reading, crashes between system calls; port and key outlive what was made of them |
| frame codec (`frame.rs`) | none | encode, read, decode, bodies of HELLO and PROVIDERS | every transport | cut-off lengths, MAX_FRAME, two decoders of one format |
| ids (`id.rs`) | none (the host label is in the registry) | label, stamp, kind | router, door | two parsers of one proposal; routers of different hostnames |
| command line, Python binding, npm package | none | thin calls | | pure input and output |

What has to be right: in the router, that a seat in the registry is held by who is
served and lost only by eviction, that presence tells the truth in the end, that
lists are right for who asked, that a connection that is over leaves nothing. In
the node, that an answer goes to the call it belongs to and no call hangs on a
dead session. In the election, one router at the address, trusted only if it
holds the lock, and everybody joined to it in the end. At the door, that permits
are not lost, nobody unproven gets in and the pump neither loses nor repeats. In
the pairing file, one code at a time, never half written, never back once
replaced; and that its port and key mean to routers and browsers what it says. Of
ids, that nobody is another or what he may not be. On the wire, that nothing is
taken for something else.

## Modules

| module | models | abstract specification | properties | proofs | instance |
|---|---|---|---|---|---|
| `Router` | `router.rs` | `Seats` | `RouterProps` | `RouterProofs` | `MCRouter` |
| `Node` | `node.rs` | `Asks` | `NodeProps` | `NodeProofs` | `MCNode` |
| `Election` | `elect.rs`, `os/unix.rs`, `os/windows.rs`, `dial` of `node.rs` | | `ElectionProps` | `ElectionProofs` | `MCElection` |
| `Pair` | `load`, `reset`, `publish` of `pair.rs` | `Secret` | `PairProps` | `PairProofs` | `MCPair` |
| `Door` | `door.rs` | | `DoorProps` | `DoorProofs` | `MCDoor` |
| `Doorway` | `browser_door` of `elect.rs`, `pair.rs` as `Secret` promises it, `serve` and `prove` of `door.rs` | | `DoorwayProps` | `DoorwayProofs` | `MCDoorway` |
| `Names` | `id.rs`, and its use in `handle`, `browser_hello` and `serve` | | `NamesProps` | `NamesProofs` | `MCNames` |
| `Frame`, `Wire` | `frame.rs`, and its use between a node, the router and a peer | | `WireProps` | `WireProofs` | `MCWire` |

A definition called "Mutant" in a comment is a plausible bug; no specification uses
it. `PROJECT.json` pairs each with the definition it would replace and the property
that would notice.

**Router.** One step is one critical section of the registry or one read of a
stream, since another task can come in between any two of them. `phase` is the
place in `handle`: `hello` (reading it), `welcome`, `announce`, `relay` (the select
over the evict channel and the next frame), `reply` (a reply was made under one
lock and not queued yet), `leave`, `depart` (entry removed, departure not
announced), `done`. `Register` is the critical section that inserts and evicts,
`Unregister` the one that removes if the token still matches; a connection is its
own token. `Deliver` is the pump's write, `PumpFails` its end on a write error,
`Drop` its abort. Connections in `Door` do not take over.

**Node.** `step` is the place of a call in `ask`, `driver` that of the join task in
`dial`, `session` and the teardown; `tx`, `up`, `waiting` and `turn` are the shared
variables, one step for each use. `Greet`, `Take`, `Reply` and `Cut` are what a
router and other nodes can do to it; `Timeout` drops the future of a call wherever
it waits. `Asks` is what is left of it for a caller: one call at a time has the
turn, and a call ends once, with what came from the one it asked or an error.

**Election.** `thread` is the place in `embed`'s thread, `node` that in `dial`. Both
platforms are one module with a choice at the start: on Unix a socket file outlives
its process and the lock itself names its holder, on Windows the pipe goes with the
process and the pid stands in a file. Death is two steps, since the kernel frees
the lock before it closes the rest. The rogue is any program that makes a door at
the address without the lock. A child forked while its parent serves (`Fork`) has
no part of the lock but every descriptor: `children` keep the door's listener open
and, in `kept`, the connections there were.

**Pair.** One step for each system call: `Look`/`ReadAgain` (read), `Create`
(open and truncate), `Write`, `Move` (hard link or rename), `Remove`. A reset is a
load, a publication that replaces and a load (`stage`). `pid` says which calls are
made in one process: the temporary name carries nothing else.

**Door.** `at` is the place of a connection's task: four steps of admission, then
`select`, `write` (to the router) or `send` (to the browser). Taking an arm of the
select drops the futures of the others: `Message` clears `part`, what a pending
frame read had consumed. A frame too large for the pipe comes as a head and a tail.
`Refuse` is every way admission ends badly, its 2 s included.

**Doorway.** The composition of election, pairing and proof over what they share: the
file, with a port and a key. Loads and resets are one step each, which is what
`Pair` shows of `Secret`. `place` is where `browser_door` stands in each router
(`load`, `bind`, `serve`), `at` where the admission of a browser does (`hello`:
before `prove`, `proof`: the key is read, `in`). A `Squatter` takes ports; it is
another program, or a child that kept the listener of a dead router. `Show` is
`zapd pair` and the user copying the code; the file may be deleted at any time.

**Names.** Texts are sequences of characters of four kinds, proposals sequences of
texts. A hello is one step, with the door's look at the proposal before the
router's; `Succeed` replaces the router by one whose machine may have another name.
Nodes come back with what they proposed or with the id they were told.

**Frame, Wire.** The codec on bytes of `Base` values, 256 in the code: two make a
`u16` and four a `u32`. `Lossy` is `from_utf8_lossy`, `LE16` and `LE32` write what `as`
leaves of a number, `Value16` and `Value32` read it. `Wire` runs it: a node says HELLO
and sends frames, among them names and sizes beyond the limits, and may die in the
middle of a write; the router reads, stamps, forwards and lists; a peer reads.
Presence and WELCOME, which carry no more than an id, are left out there.

## Runs

| run | instance | shows |
|---|---|---|
| `router` | 2 nodes and a browser, 2 ids, no frames after hello | registry and presence: `EntryIsServed`, `LosesSeatOnlyByEviction`, `PresenceSettles`, `EveryPairIsIntroduced`, and that `Router` implements `Seats` |
| `router_relay` | 2 nodes, 2 ids, one frame | `ListsTheAsker`, `NoRouteIsTrue`, and that whoever is over is forgotten |
| `node` | 2 calls, another node and the router, 2 cuts | nobody is stranded, a drop ends the call, the node comes back, `Node` implements `Asks`: answers come from who was asked |
| `node_question` | the same | **violated**: a late answer to a call that timed out is returned by the next call to the same node (`node.rs:14`) |
| `election` | 3 processes, a rogue, 2 faults, both platforms | one reachable router, nodes joined to the holder only, convergence |
| `pair` | a load and two resets in 3 processes, 1 deletion, any deaths | never half a file, nobody fails, resets renew, `Pair` implements `Secret` |
| `pair_threads` | 2 loads in threads of one process | **violated**: one empties the file the other linked (`pair.rs:196`) |
| `door` | a browser of the fixed origin, a paired one with a message and 2 frames, one without the key; 1 permit | permits, proof, order, no repetition, silence closes |
| `door_frames` | one browser, 2 messages, 2 frames | **violated**: a message in the middle of a frame's read loses the part that was read (`door.rs:192`, `frame.rs:21`) |
| `doorway` | 2 routers, a browser, 3 ports, 3 keys, ports taken twice | replaced codes stay out, the next router serves where the code leads, the door comes up |
| `names` | a node and a browser, 3 hostnames, 39 proposals, names of at most 2 characters | only browsers come through the door, names are distinct, who comes back is who it was |
| `wire` | bytes of 4 values; 4 descriptors, 7 envelopes, 4 filters, 2 frames, 1 list | nothing misread, reads fail for a reason, descriptors arrive as said, both decoders agree |

Why the bounds are enough. A take-over needs two connections on one id, a third
party to be told of it, and a second id for it: three and two. A late answer needs
two calls; an answer that crosses a reconnect needs one cut, and the reconnect of a
reconnect two. A succession needs two processes that stand, and a third that only
dials and sees both; two faults allow a death while the successor is taking over,
or one beside the rogue. Two resets and a load give every pair of a mint and a
replacement, a deletion lets a later stage mint again. In `doorway` a key is proved,
replaced and replaced again; a port is held by the last router, by its child, by a
program or by nobody, and one more is free. In `names` texts are empty, too long, begin with "-",
have upper case or a character of no name, and proposals have one to four parts. One permit makes the gate
bite with two connections. Bytes have four values in `wire`, so
lengths of 16 bits are below 16, those of 32 below 256, and a frame is at most 39:
names and sizes one past every limit occur, a name that is too long only when it is
mended, a descriptor whose list is too long though its HELLO was not, and one whose
cut-off length does decode, into another.

Where a system may stop (clients leave, calls return, a door is closed) deadlock is
not checked.

Fairness. Router: a ready task runs, a pump writes what it has to a client that
lives. Nobody has to say hello, send or close. Node: ready tasks run and some router
greets who dials it; nobody has to answer and no timeout has to strike. Election:
threads that can run do and the kernel finishes off a dying process. `Converges`
assumes the rogue gone, a process left that stands, no child left of a dead one
(see below for what it does), and on Windows the pid of the serving holder
recorded, for the code only logs a failure of that (`elect.rs:80`). Doorway: the task
of `browser_door` runs again and again, which its sleeps of at most 5 s give, and the
kernel closes what a dead process had; `DoorComesUp` assumes a router that stays and
a port that is not taken by a program for ever.
Door: a task that can go on does, the 2 s and the 60 s come to an end. These are
what the tokio runtime, the kernel and the timers give. Pair, Names and Wire have
only safety properties.

## Where code and comments differ

Three runs end in a violation, each of what a comment says:

- `node_question`: a call that times out gives the turn back, and its late answer is
  returned by the next call to the same node, which `node.rs:14-16` means to exclude.
- `pair_threads`: two threads that mint at once share a temporary name, and one
  empties what the other has linked; `pair.rs:196` says no reader sees half a file.
- `door_frames`: a message of the browser that comes in the middle of a frame's read
  drops the part that was read (`door.rs:192`), so the frames of `frame.rs:21` differ.

The other properties are stated so that they hold in spite of five more differences,
which the same models show:

- The evict channel is seen only when a read waits, so frames the old connection had
  sent are still forwarded under the id its successor holds (`router.rs:197`, against
  38-40). The registry itself never has two: `KeepsSeats`.
- The entry is removed under one lock and the departure announced under another: a
  reconnect in between is announced first, and stays gone for third parties
  (`router.rs:158`). `PresenceSettles` is therefore stated of ids used once.
- A child forked without exec has no part of the lock, but the connections: nodes that
  were joined stay on them until it exits (`elect.rs:11`, `README.md:31`). `Converges`
  assumes that no such child is left.
- A reset in the middle of a proof does not stop the code it replaces
  (`pair.rs:165`, `door.rs:236`); one before the connection does: `OldCodesStayOut`.
- Deleting the file while a router serves mints a code with another port, since the
  router's own door holds the old one (`pair.rs:22-24`, 153). The next router serves
  there: `NextRouterBindsTheNewPort`.

## Proofs

For every value of the constants, under the `ASSUME`s of the modules alone:

- `RouterProofs`: types, `EntryIsServed`, `LosesSeatOnlyByEviction`,
  `ListsTheAsker`, `NoRouteIsTrue`, `PresenceSettles`, `EveryPairIsIntroduced`, and
  the refinement of `Seats`. The inductive invariant says that
  a registered id's connection has that id and is still served, and that a served
  connection is out of the registry exactly if its evict channel fired; the removal
  at the end is then harmless since a lost seat is never regained. Lists need the
  content of `pending` as well, since a reply is made and queued under two locks;
  `NoRouteIsTrue` needs that a live client's pump has not ended. Presence needs the
  most: not only what a client heard, but what is still in its mailbox. The invariant
  says of both that an id came only once a connection of that id was announced, and
  went only once one ended (`Heralded`); that a client without a pump has heard and
  will hear nothing (`Deaf`); that once the only connection of an id is over, the
  last word on it to everybody served is not that it came (`Settled`), because the
  departure is queued after the arrival; and that of any two that are announced and
  have a pump one was told, or will be, of the other (`Introduced`), because whoever
  announces finds the other in the registry. Both last ones are stated of ids that one
  connection uses; a reconnect between removal and departure (above) shows why.
- `NodeProofs`: types, `AnsweredByTheAsked`, `NoneStranded` and the refinement of
  `Asks`. The invariant ties the
  turn to the places in `ask` where it is held, an armed call to `waiting`, and a
  waiting call to a session that has its writer or has yet to fail it.
- `ElectionProofs`: types, `ElectedHolds`, `ServingIsReachable`,
  `JoinedToTheHolder`. The invariant says who has the lock in which place of the
  thread, and what a dialler that read the peer may still find.
- `PairProofs`: types, `NeverHalf`, `NobodyFails`, `ResetRenews` and the refinement
  of `Secret`, assuming `Apart`: no two calls in one process. That is the weakest
  simple condition, as `pair_threads` shows. The invariant says a temporary file is
  the one its call made in its present stage, and the pairing one whose publication
  is past; so what is emptied is never the pairing.
- `DoorProofs`: `GateCounts` and `OnlyTheProven`, by reducing every step to what it
  does to the place of one task and its permit; types; and the order of both
  directions of the pump. `NeverTwice` follows from a line: what the browser got, then
  what is being sent, then what is in the pipe, and only the head of a frame has its
  like behind it. `PipedInOrder` is such a line of the router, the write, the socket.
- `DoorwayProofs`: types, `OldCodesStayOut`, `NextRouterBindsTheNewPort`. The
  invariants are that a key a proof is checked against was current since its browser
  connected, and that a router that began after the file's last change has, once it
  has loaded a port, the port of the file.
- `NamesProofs`: types, `OnlyBrowsersThroughTheDoor`, `OneSeatPerName`, `StaysItself`,
  from what `stamp` returns of any proposal, its own results among them.
- `WireProofs`: first the codec, on any bytes. `OneCodec`: the door's decoder and the
  router's reader take the same for a frame. `EncodedFrameIsRead`: a written frame is
  read as it was, but for mended names, and refused exactly if a name is too long for
  its 16 bits or the frame for `MAX_FRAME`. `ReadLooksNoFurther`: what a read comes to
  does not depend on what follows. `MendingIsBounded`, `HelloRoundTrip` and
  `ProvidersRoundTrip` say the same of strings, descriptors and lists, and
  `DescriptorTyped` that a descriptor costs, written again, no more than its bytes
  times the length of the replacement character, which is why the router can always
  list what it read. Then the streams: types, `NeverMisread`, `FailsForAReason`,
  `AsSaid`, `DoorAgrees`. The invariant says that what the router has still to read,
  and what of it will never come, are the HELLO and the frames it has not read, one
  behind the other (`FromNode`), and that what the peer has still to read are the
  frames forwarded and not yet read, with lists in between (`ToPeer`). A read then
  meets the first of these by the codec lemmas, whole or not at all.

`WireAssumption` bounds what is written by 2^32 bytes: `encode` casts the size of a
frame to `u32` without a look, and a frame of 4 GiB that wraps to a legal size would
be misread. The code does not exclude it, but nodes send what fits in memory and
`MAX_FRAME` is 64 MiB. For what the router itself writes, a read frame mended and
stamped or a list, the bound is not assumed of the frames: it follows from `MAX_FRAME`
times three, the bytes of U+FFFD, and the names the router adds.

Data of any length need induction, and the theorems that take a statement as an
operator are out of the provers' reach. `SetInduction` in `WireProofs` states it of a
set instead, from well-founded minima; functions like `StrT` stand for the parser
that `TakeAll` is given, so that one lemma holds for lists of strings, of pairs and of
entries.

The types of `Pair`, `Doorway` and `Names`, and `AnsweredByTheAsked`, which `KeepsAsks`
contains, are proved and no longer checked by a run.

Only model-checked: everything with "eventually" (`OverIsForgotten`,
`DropEndsTheCall`, `StaysJoined`, `Converges`, `SilenceCloses`, `DoorComesUp`), since
liveness under fairness is out of the prover's reach. Every other property that a
passing run checks is a theorem as well.

## Not modelled

- Time as numbers: backoff, 2 s, 60 s, timeouts are events that may happen.
- Cryptography: holding the key is a fact about a connection; random numbers differ.
- What a code looks like and how it is parsed (`pair.rs:58-80`): one string and back.
- A pid given out again after a crash (`pair.rs:200`): calls of one pid are one process.
- Directory and file permissions, DACLs, hostnames: single system calls.
- On Windows, `accept` making the next instance of the pipe: when that fails it is
  called again on the one it has, and the connection waits.
- `main.rs`, `lib.rs`, the Python binding and the installer: thin calls and downloads.

## Plan

1. Done: `Router` with `Seats`, `Node` with `Asks`, `Election`; `Pair` with `Secret`;
   `Door`, `Doorway`, `Names`; `Frame` and `Wire`; the proofs above.
2. Done: `PresenceSettles` and `EveryPairIsIntroduced` proved, from an invariant on
   what a mailbox says last of an id; the codec and `Wire` proved for any bytes.
3. Next: `Wire` with its node stamped by `Names`; then composition: `Node` with `Router`, in place of the environments each has now,
   for a call across an eviction.
4. The limits: a browser that neither sends nor reads (`door.rs:29`), a stream that
   ends inside a length (`frame.rs:94`).
