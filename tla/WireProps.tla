------------------------------ MODULE WireProps ------------------------------
(* What the wire should guarantee, stated about Wire. *)
EXTENDS Wire

\* A string whose length its prefix can tell.
Short(s) == Len(s) < U16

ShortDescriptor(d) == /\ Short(d.brand) /\ Short(d.caps) /\ Short(d.attrs)
                      /\ \A i \in DOMAIN d.caps : Short(d.caps[i])
                      /\ \A i \in DOMAIN d.attrs : Short(d.attrs[i][1]) /\ Short(d.attrs[i][2])

\* A frame as its reader has it, its strings mended.
Mended(f) == [typ |-> f.typ, flags |-> f.flags, from |-> Lossy(f.from), to |-> Lossy(f.to),
              payload |-> f.payload]

Stamped(f) == [f EXCEPT !.from = Id]

(* "bytes payload opaque", "forward opaquely" (frame.rs:6-19): frame by      *)
(* frame the router reads what the node sent and the peer what the router    *)
(* forwarded, whatever ends in between; a name too long for its 16-bit       *)
(* length, which is cut off without a word (frame.rs:86-87), is refused and  *)
(* never taken for another frame.                                            *)
NeverMisread ==
    /\ Len(forwarded) <= Len(sent)
    /\ \A i \in DOMAIN forwarded : forwarded[i] = Mended(sent[i])
    /\ Len(got) <= Len(forwarded)
    /\ \A i \in DOMAIN got : got[i] = Stamped(forwarded[i])

\* A frame that the router should be able to read.
Readable(f) == Short(f.from) /\ Short(f.to) /\ Size(f) <= MAX_FRAME

(* A read fails only for a reason: the node died, or said something too long *)
(* for its fields or for MAX_FRAME; and at the peer, which did nothing, only *)
(* when what the router made of a good frame is too long: by the id that was *)
(* stamped, by a mended name, or by listing what the node said of itself     *)
(* (frame.rs:103, router.rs:197,209-223).                                    *)
FailsForAReason ==
    /\ relay = "failed" => \/ ~open
                           \/ ~ShortDescriptor(said)
                           \/ ~Readable(Greeting(said))
                           \/ \E i \in DOMAIN sent : ~Readable(sent[i])
    /\ peer = "failed" => \/ \E i \in DOMAIN forwarded :
                                /\ Readable(sent[i])
                                /\ ~Readable(Stamped(forwarded[i]))
                          \/ ~Readable(Listing(<<[id |-> Id, desc |-> known]>>))

(* "What a node says about itself in HELLO, and what PROVIDERS returns for   *)
(* it" (frame.rs:216): the registry has what the node said, and the list that *)
(* a peer reads has what the registry has, if strings and lists fit their    *)
(* counts; they need not when a mended string grew.                          *)
AsSaid ==
    said # None /\ known # None =>
        /\ ShortDescriptor(said) => known = said
        /\ Short(Id) /\ ShortDescriptor(known) =>
              \A i \in DOMAIN lists : lists[i] \in {<<>>, <<[id |-> Id, desc |-> known]>>}

(* "length prefix included, so one codec serves both" (frame.rs:21-23): what *)
(* the door takes for one frame and pipes on unchanged, the router's read    *)
(* takes for the same frame and nothing else, and the other way round.       *)
DoorAgrees ==
    \A n \in 0..Len(up) :
        LET b == SubSeq(up, 1, n)
        IN Decode(b) = IF Read(b) # More /\ Read(b) # Error /\ Read(b).rest = <<>>
                       THEN Read(b) ELSE Error
=============================================================================
