--------------------------------- MODULE Wire ---------------------------------
(***************************************************************************)
(* The codec of Frame at work between a node, the router and a peer: the    *)
(* node says HELLO and what it is, then sends frames; the router reads,     *)
(* stamps and forwards them and lists the node to the peer (src/router.rs,  *)
(* whose registry and mailboxes are in Router; here one node is registered  *)
(* and its peer).  A stream is the bytes that were written and not read.    *)
(* The node may die in the middle of a write, or close between two.         *)
(***************************************************************************)
EXTENDS Frame

CONSTANTS
    Id,         \* the id the router stamps
    Proposed,   \* the id the node proposes
    Asker,      \* the id of the peer
    Zapd,       \* what the router calls itself
    Descs,      \* what a node may say of itself
    Envelopes,  \* the frames it may send
    Filters,    \* the bodies of the peer's PROVIDERS_LIST
    None,       \* nothing said or known yet
    MaxFrames,  \* how many frames the node sends
    MaxLists    \* how many lists the peer asks for

\* The types, by any numbers.
HELLO == 0
PROVIDERS == 1
ROUTE == 2

String == Seq(Byte \ {Bad})
Descriptors == [role : Byte, brand : String, caps : Seq(String),
                attrs : Seq(String \X String)]
Envelope(Name) == [typ : Byte, flags : 0 .. U16 - 1, from : Name, to : Name,
                   payload : Seq(Byte)]
Frames == Envelope(String)

Greeting(d) == New(HELLO, Proposed, <<>>, encode_hello(d))
Listing(entries) == New(PROVIDERS, Zapd, Asker, encode_providers(entries))

\* Nobody sends a frame whose size does not go into its prefix, and what the
\* router makes of a frame it read is no such frame either.
ASSUME WireAssumption ==
    /\ {Id, Proposed, Asker, Zapd} \subseteq String
    /\ Descs \subseteq Descriptors
    /\ Envelopes \subseteq Envelope(Seq(Byte))
    /\ Filters \subseteq Seq(Byte)
    /\ None \notin Descriptors
    /\ MaxFrames \in Nat /\ MaxLists \in Nat
    /\ {HELLO, PROVIDERS, ROUTE} \subseteq Byte
    /\ \A f \in Envelopes : f.typ = ROUTE /\ Size(f) < U32
    /\ \A d \in Descs : Size(Greeting(d)) < U32
    /\ Len(Repl) * MAX_FRAME + Len(Id) + Len(Asker) + Len(Zapd) + HEADER + 4 < U32

VARIABLES
    up,         \* the stream from the node to the router
    open,       \* the node may write more to it
    said,       \* the descriptor of its HELLO
    sent,       \* the frames it sent
    relay,      \* how the router's reads of the node ended, if they did
    known,      \* the descriptor in the registry
    forwarded,  \* the frames the router read
    down,       \* the stream from the router to the peer
    peer,       \* how the peer's reads ended, if they did
    got,        \* the frames of the node that the peer read
    lists,      \* the lists the peer read
    asked       \* how many lists the peer asked for

node == <<open, said, sent>>
router == <<relay, known, forwarded>>
other == <<peer, got, lists>>
vars == <<up, node, router, down, other, asked>>

TypeOK == /\ up \in Seq(Byte) /\ down \in Seq(Byte)
          /\ open \in BOOLEAN
          /\ said \in Descs \cup {None}
          /\ sent \in Seq(Envelopes)
          /\ relay \in {"reading", "eof", "failed"}
          /\ known = None \/ known \in Descriptors
          /\ forwarded \in Seq(Frames)
          /\ peer \in {"reading", "failed"}
          /\ got \in Seq(Frames)
          /\ lists \in Seq(Seq([id : String, desc : Descriptors]))
          /\ asked \in 0..MaxLists

Init == /\ up = <<>> /\ down = <<>>
        /\ open = TRUE
        /\ said = None /\ known = None
        /\ sent = <<>> /\ forwarded = <<>>
        /\ relay = "reading" /\ peer = "reading"
        /\ got = <<>> /\ lists = <<>>
        /\ asked = 0

-----------------------------------------------------------------------------
Hello(d) == /\ open
            /\ said = None
            /\ said' = d
            /\ up' = Encode(Greeting(d))
            /\ UNCHANGED <<open, sent, router, down, other, asked>>

Send(f) == /\ open
           /\ said # None
           /\ Len(sent) < MaxFrames
           /\ sent' = Append(sent, f)
           /\ up' = up \o Encode(f)
           /\ UNCHANGED <<open, said, router, down, other, asked>>

\* The stream ends, with or without all that was being written.
End == /\ open
       /\ open' = FALSE
       /\ \E n \in 0..Len(up) : up' = SubSeq(up, 1, n)
       /\ UNCHANGED <<said, sent, router, down, other, asked>>

-----------------------------------------------------------------------------
\* A read of the router that gives no frame ends the connection: in silence if
\* not even a length has come whole.
ReadEnds == /\ relay = "reading"
            /\ \/ Read(up) = Error /\ relay' = "failed"
               \/ Read(up) = More /\ ~open /\ relay' = IF Len(up) < 4 THEN "eof" ELSE "failed"
            /\ UNCHANGED <<up, node, known, forwarded, down, other, asked>>

\* handle: the first frame is a HELLO, and its body a descriptor.
Greet == /\ relay = "reading"
         /\ known = None
         /\ LET f == Read(up)
            IN /\ f.status = "got"
               /\ LET d == decode_hello(f.value.payload)
                  IN \/ d = Error /\ relay' = "failed" /\ UNCHANGED known
                     \/ d # Error /\ known' = d.value /\ UNCHANGED relay
               /\ up' = f.rest
         /\ UNCHANGED <<node, forwarded, down, other, asked>>

\* route_loop: the frame goes on under the stamped id.
Forward == /\ relay = "reading"
           /\ known # None
           /\ LET f == Read(up)
              IN /\ f.status = "got"
                 /\ forwarded' = Append(forwarded, f.value)
                 /\ down' = down \o Encode([f.value EXCEPT !.from = Id])
                 /\ up' = f.rest
           /\ UNCHANGED <<node, relay, known, other, asked>>

\* list: what is registered, under the peer's filter.
List(p) == /\ known # None
           /\ asked < MaxLists
           /\ asked' = asked + 1
           /\ LET brand == decode_brand_filter(p)
                  entries == IF brand \in {<<>>, known.brand}
                             THEN <<[id |-> Id, desc |-> known]>>
                             ELSE <<>>
              IN down' = down \o Encode(Listing(entries))
           /\ UNCHANGED <<up, node, router, other>>

\* session: the peer reads, and Node::nodes takes a list apart.
Receive == /\ peer = "reading"
           /\ LET f == Read(down)
                  l == decode_providers(f.value.payload)
              IN \/ /\ f = Error
                    /\ peer' = "failed"
                    /\ UNCHANGED <<down, got, lists>>
                 \/ /\ f.status = "got"
                    /\ down' = f.rest
                    /\ \/ f.value.typ = ROUTE /\ got' = Append(got, f.value) /\ UNCHANGED lists
                       \/ /\ f.value.typ = PROVIDERS
                          /\ lists' = IF l = Error THEN lists ELSE Append(lists, l.value)
                          /\ UNCHANGED got
                    /\ UNCHANGED peer
           /\ UNCHANGED <<up, node, router, asked>>

Next == \/ \E d \in Descs : Hello(d)
        \/ \E f \in Envelopes : Send(f)
        \/ End
        \/ ReadEnds \/ Greet \/ Forward
        \/ \E p \in Filters : List(p)
        \/ Receive

Spec == Init /\ [][Next]_vars
=============================================================================
