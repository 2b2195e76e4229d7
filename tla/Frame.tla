-------------------------------- MODULE Frame --------------------------------
(***************************************************************************)
(* The envelope every transport carries and the bodies of the router's own  *)
(* frames (src/frame.rs), as operators on sequences of bytes.               *)
(*                                                                         *)
(* A byte has Base values, 256 in the code; a small Base reaches every      *)
(* boundary of the 16-bit and 32-bit lengths.  A string is its bytes; one    *)
(* value, Bad, is no UTF-8 and is read as the replacement character Repl.    *)
(***************************************************************************)
EXTENDS Integers, SequencesExt

CONSTANTS
    Base,       \* how many values a byte has
    MAX_FRAME,  \* the longest frame read
    Bad,        \* a byte that is no UTF-8
    Repl        \* the bytes of the character read in its place

Byte == 0 .. Base - 1

\* How many values a u16 and a u32 have.
U16 == Base * Base
U32 == U16 * U16

ASSUME FrameAssumption == /\ Base \in Nat \ {0, 1}
                          /\ MAX_FRAME \in 0 .. U32 - 1
                          /\ Bad \in Byte
                          /\ Repl \in Seq(Byte \ {Bad}) \ {<<>>}

\* to_le_bytes of what `as` leaves of n, and from_le_bytes of what stands at p.
LE16(n) == <<n % Base, (n \div Base) % Base>>
LE32(n) == LE16(n) \o LE16(n \div U16)
Value16(b, p) == b[p] + Base * b[p + 1]
Value32(b, p) == Value16(b, p) + U16 * Value16(b, p + 2)

\* Mutant: from_utf8_unchecked.
Unchecked(b) == b

\* from_utf8_lossy.
Lossy(b) == FlattenSeq([i \in DOMAIN b |-> IF b[i] = Bad THEN Repl ELSE <<b[i]>>])

-----------------------------------------------------------------------------
(* The envelope. *)

HEADER == 11

New(typ, from, to, payload) ==
    [typ |-> typ, flags |-> 0, from |-> from, to |-> to, payload |-> payload]

Size(f) == HEADER + Len(f.from) + Len(f.to) + Len(f.payload)

Encode(f) == LE32(Size(f)) \o <<f.typ>> \o LE16(f.flags)
                \o LE16(Len(f.from)) \o LE16(Len(f.to)) \o LE32(Len(f.payload))
                \o f.from \o f.to \o f.payload

\* What a parse comes to: something and the bytes behind it, an error, or a
\* wait for more bytes.
Got(x, rest) == [status |-> "got", value |-> x, rest |-> rest]
Error == [status |-> "error"]
More == [status |-> "more"]

\* The lengths in a header, and the size they make.
FromLen(b) == Value16(b, 4)
ToLen(b) == Value16(b, 6)
PayloadLen(b) == Value32(b, 8)
Claimed(b) == HEADER + FromLen(b) + ToLen(b) + PayloadLen(b)

Fields(b) == LET from == HEADER + FromLen(b)
                 to == from + ToLen(b)
             IN Got([typ |-> b[1], flags |-> Value16(b, 2),
                     from |-> Lossy(SubSeq(b, HEADER + 1, from)),
                     to |-> Lossy(SubSeq(b, from + 1, to)),
                     payload |-> SubSeq(b, to + 1, to + PayloadLen(b))], <<>>)

\* Mutant: bytes behind the fields are let pass.
BodyTrailing(b) == IF Claimed(b) > Len(b) THEN Error ELSE Fields(b)

\* Frame::body: the fields fill the frame, no less and no more.
Body(b) == IF Claimed(b) # Len(b) THEN Error ELSE Fields(b)

\* Mutant: the longest frame is one too long.
LegalBelow(n) == n >= HEADER /\ n < MAX_FRAME

Legal(n) == n >= HEADER /\ n <= MAX_FRAME

\* Frame::read, of the bytes that have come.
Read(b) ==
    LET n == Value32(b, 1)
    IN IF Len(b) < 4 THEN More
       ELSE IF ~Legal(n) THEN Error
       ELSE IF Len(b) < 4 + n THEN More
       ELSE LET f == Body(SubSeq(b, 5, 4 + n))
            IN IF f = Error THEN Error ELSE Got(f.value, SubSeq(b, 5 + n, Len(b)))

\* Mutant: what follows the frame is ignored.
DecodeFirst(b) == LET f == Read(b) IN IF f = More THEN Error
                                      ELSE IF f = Error THEN Error ELSE Got(f.value, <<>>)

\* Frame::decode, of one message.
Decode(b) == LET n == Value32(b, 1)
             IN IF Len(b) >= 4 /\ n + 4 = Len(b) /\ Legal(n)
                THEN Body(SubSeq(b, 5, Len(b)))
                ELSE Error

-----------------------------------------------------------------------------
(* The bodies of HELLO and PROVIDERS.  A cursor is what a parse comes to, its *)
(* value the fields read so far.                                              *)

PutStr(s) == LE16(Len(s)) \o s

\* A count and what is put for each.
PutAll(s, Put(_)) == LE16(Len(s)) \o FlattenSeq([i \in DOMAIN s |-> Put(s[i])])

PutPair(kv) == PutStr(kv[1]) \o PutStr(kv[2])

PutDescriptor(d) == <<d.role>> \o PutStr(d.brand) \o PutAll(d.caps, PutStr)
                        \o PutAll(d.attrs, PutPair)

PutEntry(e) == PutStr(e.id) \o PutDescriptor(e.desc)

encode_hello(d) == PutDescriptor(d)
encode_providers(entries) == PutAll(entries, PutEntry)

Then(c, Next(_)) == IF c = Error THEN Error ELSE Next(c)

TakeBytes(b, n) == IF n > Len(b) THEN Error
                   ELSE Got(SubSeq(b, 1, n), SubSeq(b, n + 1, Len(b)))
TakeU8(b) == Then(TakeBytes(b, 1), LAMBDA c : Got(c.value[1], c.rest))
TakeU16(b) == Then(TakeBytes(b, 2), LAMBDA c : Got(Value16(c.value, 1), c.rest))
TakeStr(b) ==
    Then(TakeU16(b), LAMBDA n :
    Then(TakeBytes(n.rest, n.value), LAMBDA s : Got(Lossy(s.value), s.rest)))

\* A count and what is taken for each, up to the first error.
TakeAll(b, Take(_)) ==
    Then(TakeU16(b), LAMBDA n :
    LET taken[k \in 0 .. n.value] ==
            IF k = 0 THEN Got(<<>>, n.rest)
            ELSE Then(taken[k - 1], LAMBDA c :
                 Then(Take(c.rest), LAMBDA x : Got(Append(c.value, x.value), x.rest)))
    IN taken[n.value])

\* Mutant: the value is taken for the key.
TakePairSwapped(b) ==
    Then(TakeStr(b), LAMBDA k :
    Then(TakeStr(k.rest), LAMBDA v : Got(<<v.value, k.value>>, v.rest)))

TakePair(b) ==
    Then(TakeStr(b), LAMBDA k :
    Then(TakeStr(k.rest), LAMBDA v : Got(<<k.value, v.value>>, v.rest)))

TakeDescriptor(b) ==
    Then(TakeU8(b), LAMBDA role :
    Then(TakeStr(role.rest), LAMBDA brand :
    Then(TakeAll(brand.rest, TakeStr), LAMBDA caps :
    Then(TakeAll(caps.rest, TakePair), LAMBDA attrs :
         Got([role |-> role.value, brand |-> brand.value, caps |-> caps.value,
              attrs |-> attrs.value], attrs.rest)))))

TakeEntry(b) ==
    Then(TakeStr(b), LAMBDA id :
    Then(TakeDescriptor(id.rest), LAMBDA d :
         Got([id |-> id.value, desc |-> d.value], d.rest)))

\* Cursor::end.
Whole(c) == IF c = Error THEN Error ELSE IF c.rest # <<>> THEN Error ELSE c

decode_hello(b) == Whole(TakeDescriptor(b))
decode_providers(b) == Whole(TakeAll(b, TakeEntry))

\* An empty filter lists all, and so does one that cannot be read.
decode_brand_filter(b) == LET s == TakeStr(b) IN IF s = Error THEN <<>> ELSE s.value
=============================================================================
