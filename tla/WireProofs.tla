----------------------------- MODULE WireProofs -----------------------------
(***************************************************************************)
(* Theorems about the codec and the wire: what is written is read, for      *)
(* every size of a byte and of a frame, every name, payload and descriptor, *)
(* and any number of frames and lists.                                      *)
(***************************************************************************)
EXTENDS WireProps, SequenceTheorems, WellFoundedInduction, TLAPS

-----------------------------------------------------------------------------
(* Numbers. *)

\* A product grows with its factor.
LEMMA Scaled ==
    ASSUME NEW k \in Nat, NEW x \in Nat, NEW y \in Nat, x <= y
    PROVE  k * x <= k * y
OBVIOUS

\* Two digits make a number of two digits, and every such number is made so.
LEMMA Digits ==
    ASSUME NEW k \in Nat \ {0}, NEW x \in 0 .. k - 1, NEW y \in 0 .. k - 1
    PROVE  x + k * y \in 0 .. k * k - 1
<1>1. k * y <= k * (k - 1) /\ k * y \in Nat
  BY Scaled
<1>2. k * (k - 1) = k * k - k
  OBVIOUS
<1>3. x + k * y <= k - 1 + (k * k - k)
  BY <1>1, <1>2
<1> QED BY <1>1, <1>3

\* n in digits: so many times k, and a rest.
LEMMA DivMod ==
    ASSUME NEW n \in Nat, NEW k \in Nat \ {0}
    PROVE  /\ n % k \in 0 .. k - 1
           /\ n \div k \in Nat
           /\ n = k * (n \div k) + (n % k)
OBVIOUS

\* The higher of two digits is a digit.
LEMMA Quotient ==
    ASSUME NEW k \in Nat \ {0}, NEW n \in Nat, n < k * k
    PROVE  n \div k \in 0 .. k - 1
<1> DEFINE q == n \div k
<1>1. q \in Nat /\ n = k * q + (n % k) /\ n % k \in Nat
  BY DivMod
<1> HIDE DEF q
<1> SUFFICES ASSUME q >= k PROVE FALSE
  BY <1>1 DEF q
<1>2. k * q >= k * k
  BY <1>1, Scaled
<1> QED BY <1>1, <1>2

\* A digit is its own rest.
LEMMA Remainder ==
    ASSUME NEW k \in Nat \ {0}, NEW n \in 0 .. k - 1
    PROVE  n % k = n
OBVIOUS

\* A number has one rest.
LEMMA Unique ==
    ASSUME NEW k \in Nat \ {0}, NEW n \in Nat, NEW q \in Nat, NEW r \in 0 .. k - 1,
           n = k * q + r
    PROVE  n % k = r
<1> DEFINE d == n \div k
           m == n % k
<1>1. d \in Nat /\ n = k * d + m /\ m \in 0 .. k - 1
  BY DivMod
<1> HIDE DEF d, m
<1>2. CASE d < q
  <2>1. k * (d + 1) <= k * q
    BY <1>1, <1>2, Scaled
  <2> QED BY <1>1, <2>1
<1>3. CASE q < d
  <2>1. k * (q + 1) <= k * d
    BY <1>1, <1>3, Scaled
  <2> QED BY <1>1, <2>1
<1>4. CASE q = d
  <2>1. k * d \in Nat
    BY <1>1
  <2>2. m = r
    BY <1>1, <1>4, <2>1
  <2> QED BY <2>2 DEF m
<1> QED BY <1>1, <1>2, <1>3, <1>4

\* There is more than one number of either width.
LEMMA Sizes ==
    /\ Base \in Nat \ {0} /\ Base > 1
    /\ U16 \in Nat \ {0} /\ U16 > 1
    /\ U32 \in Nat \ {0} /\ U32 > 1
<1>1. U16 \in Nat /\ U16 > 1
  BY FrameAssumption DEF U16
<1> QED BY FrameAssumption, <1>1 DEF U32

\* What is read is a number of 16 or 32 bits.
LEMMA Reads16 ==
    ASSUME NEW b \in Seq(Byte), NEW p \in 1 .. Len(b), p + 1 <= Len(b)
    PROVE  Value16(b, p) \in 0 .. U16 - 1
<1>1. b[p] \in Byte /\ b[p + 1] \in Byte
  OBVIOUS
<1> QED BY <1>1, Sizes, Digits DEF Value16, U16, Byte

\* So with 32 bits.
LEMMA Reads32 ==
    ASSUME NEW b \in Seq(Byte), NEW p \in 1 .. Len(b), p + 3 <= Len(b)
    PROVE  Value32(b, p) \in 0 .. U32 - 1
<1>1. Value16(b, p) \in 0 .. U16 - 1 /\ Value16(b, p + 2) \in 0 .. U16 - 1
  BY Reads16
<1> QED BY <1>1, Sizes, Digits DEF Value32, U32

\* Writing 16 bits and reading them keeps what fits.
LEMMA Writes16 ==
    ASSUME NEW n \in Nat
    PROVE  /\ LE16(n) \in Seq(Byte) /\ Len(LE16(n)) = 2
           /\ Value16(LE16(n), 1) = n % U16
<1> DEFINE q == n \div Base
           e == q \div Base
           r == n % Base
           d == q % Base
<1>1. q \in Nat /\ n = Base * q + r /\ r \in 0 .. Base - 1
  BY DivMod, Sizes
<1>2. e \in Nat /\ q = Base * e + d /\ d \in 0 .. Base - 1
  <2> HIDE DEF q
  <2> QED BY <1>1, DivMod, Sizes
<1>3. LE16(n) = <<r, d>>
  BY DEF LE16
<1> HIDE DEF q, e, r, d
<1>4. LE16(n) \in Seq(Byte) /\ Len(LE16(n)) = 2 /\ Value16(LE16(n), 1) = r + Base * d
  <2>1. r \in Byte /\ d \in Byte
    BY <1>1, <1>2 DEF Byte
  <2>2. <<r, d>> \in Seq(Byte) /\ Len(<<r, d>>) = 2 /\ <<r, d>>[1] = r /\ <<r, d>>[2] = d
    BY <2>1
  <2> QED BY <1>3, <2>2 DEF Value16
<1>5. r + Base * d \in 0 .. U16 - 1
  BY <1>1, <1>2, Digits, Sizes DEF U16
<1>6. n = U16 * e + (r + Base * d)
  <2>1. Base * (Base * e + d) = U16 * e + Base * d
    BY <1>1, <1>2, Sizes DEF U16
  <2> QED BY <1>1, <1>2, <2>1, Sizes
<1>7. r + Base * d \in Nat
  BY <1>5
<1> HIDE DEF U16
<1> QED BY <1>2, <1>4, <1>5, <1>6, Unique, Sizes

\* And 32 bits.
LEMMA Writes32 ==
    ASSUME NEW n \in Nat
    PROVE  /\ LE32(n) \in Seq(Byte) /\ Len(LE32(n)) = 4
           /\ n < U32 => Value32(LE32(n), 1) = n
<1> DEFINE q == n \div U16
           r == n % U16
<1>1. q \in Nat /\ n = U16 * q + r /\ r \in 0 .. U16 - 1
  BY DivMod, Sizes
<1>2. /\ LE16(n) \in Seq(Byte) /\ Len(LE16(n)) = 2 /\ Value16(LE16(n), 1) = r
      /\ LE16(q) \in Seq(Byte) /\ Len(LE16(q)) = 2 /\ Value16(LE16(q), 1) = q % U16
  <2> HIDE DEF q
  <2> QED BY <1>1, Writes16
<1>3. LE32(n) = LE16(n) \o LE16(q)
  BY DEF LE32
<1>4. /\ LE32(n) \in Seq(Byte) /\ Len(LE32(n)) = 4
      /\ LE32(n)[1] = LE16(n)[1] /\ LE32(n)[2] = LE16(n)[2]
      /\ LE32(n)[3] = LE16(q)[1] /\ LE32(n)[4] = LE16(q)[2]
  <2> HIDE DEF q, r
  <2> DEFINE s == LE16(n)
             t == LE16(q)
  <2>1. s \in Seq(Byte) /\ Len(s) = 2 /\ t \in Seq(Byte) /\ Len(t) = 2
    BY <1>2
  <2> HIDE DEF s, t
  <2>2. /\ s \o t \in Seq(Byte) /\ Len(s \o t) = Len(s) + Len(t)
        /\ \A i \in 1 .. Len(s) + Len(t) :
              (s \o t)[i] = IF i <= Len(s) THEN s[i] ELSE t[i - Len(s)]
    BY <2>1, ConcatProperties
  <2>3. /\ (s \o t)[1] = s[1] /\ (s \o t)[2] = s[2]
        /\ (s \o t)[3] = t[1] /\ (s \o t)[4] = t[2]
    BY <2>1, <2>2
  <2> QED BY <1>3, <2>1, <2>2, <2>3 DEF s, t
<1>5. ASSUME n < U32
      PROVE  q % U16 = q
  BY <1>5, Quotient, Remainder, Sizes DEF U32
<1>6. Value32(LE32(n), 1) = r + U16 * (q % U16)
  BY <1>2, <1>4 DEF Value32, Value16
<1>7. U16 * q \in Nat
  BY <1>1, Sizes
<1> HIDE DEF q, r
<1> QED BY <1>1, <1>4, <1>5, <1>6, <1>7

-----------------------------------------------------------------------------
(* Slices. *)

\* What a slice is made of.
LEMMA Slice ==
    ASSUME NEW S, NEW s \in Seq(S), NEW m \in Nat \ {0}, NEW n \in 0 .. Len(s)
    PROVE  /\ SubSeq(s, m, n) \in Seq(S)
           /\ Len(SubSeq(s, m, n)) = IF m <= n THEN n - m + 1 ELSE 0
           /\ \A i \in 1 .. n - m + 1 : SubSeq(s, m, n)[i] = s[m + i - 1]
<1>1. \A i \in m .. n : s[i] \in S
  OBVIOUS
<1> QED BY <1>1, SubSeqProperties

\* The three ways a parse ends differ.
LEMMA NoResult ==
    /\ More # Error
    /\ \A x, r : Got(x, r) # Error /\ Got(x, r) # More
    /\ \A x, r : Got(x, r).status = "got" /\ Got(x, r).value = x /\ Got(x, r).rest = r
    /\ Error.status # "got" /\ More.status # "got"
BY DEF More, Error, Got

\* A body is taken whole or not at all.
LEMMA BodyEnds ==
    ASSUME NEW b
    PROVE  Body(b) = Error \/ (Body(b) = Got(Body(b).value, <<>>) /\ Body(b) # Error /\ Body(b) # More)
BY NoResult DEF Body, Fields, Got

\* The length a stream begins with.
LEMMA Prefixed ==
    ASSUME NEW b \in Seq(Byte), Len(b) >= 4
    PROVE  Value32(b, 1) \in 0 .. U32 - 1
BY Reads32

(* One codec serves both transports: whatever bytes come, the message that   *)
(* the door takes for a frame is the one that the stream reader takes for    *)
(* the same frame, with nothing behind it.                                   *)
THEOREM OneCodec ==
    ASSUME NEW b \in Seq(Byte)
    PROVE  Decode(b) = IF Read(b) # More /\ Read(b) # Error /\ Read(b).rest = <<>>
                       THEN Read(b) ELSE Error
<1> DEFINE n == Value32(b, 1)
<1>1. CASE Len(b) < 4
  BY <1>1, NoResult DEF Decode, Read
<1>2. CASE Len(b) >= 4
  <2>1. n \in Nat /\ Len(b) \in Nat
    BY <1>2, Prefixed
  <2> HIDE DEF n
  <2>2. CASE ~Legal(n)
    BY <1>2, <2>1, <2>2, NoResult DEF Decode, Read, n
  <2>3. CASE Legal(n) /\ Len(b) < 4 + n
    BY <1>2, <2>1, <2>3, NoResult DEF Decode, Read, n
  <2>4. CASE Legal(n) /\ Len(b) >= 4 + n
    <3> DEFINE f == Body(SubSeq(b, 5, 4 + n))
               rest == SubSeq(b, 5 + n, Len(b))
    <3>1. Read(b) = IF f = Error THEN Error ELSE Got(f.value, rest)
      BY <1>2, <2>1, <2>4 DEF Read, n
    <3>2. f = Error \/ (f = Got(f.value, <<>>) /\ f # Error)
      BY BodyEnds
    <3>3. rest = <<>> <=> Len(b) = 4 + n
      <4>1. rest \in Seq(Byte) /\ Len(rest) = IF 5 + n <= Len(b) THEN Len(b) - n - 4 ELSE 0
        BY <2>1, Slice
      <4> HIDE DEF rest
      <4> QED BY <2>1, <2>4, <4>1, EmptySeq
    <3>4. Decode(b) = IF Len(b) = 4 + n THEN f ELSE Error
      BY <1>2, <2>1, <2>4 DEF Decode, n
    <3> HIDE DEF f, rest
    <3> QED BY <3>1, <3>2, <3>3, <3>4, NoResult
  <2> QED BY <2>1, <2>2, <2>3, <2>4
<1>3. Len(b) \in Nat
  OBVIOUS
<1> QED BY <1>1, <1>2, <1>3

-----------------------------------------------------------------------------
(* What stands where in a stream. *)

\* s stands in b behind the first p bytes.
At(b, p, s) == /\ p + Len(s) <= Len(b)
               /\ \A i \in 1 .. Len(s) : b[p + i] = s[i]

\* What is glued together stands there.
LEMMA Glued ==
    ASSUME NEW S, NEW s \in Seq(S), NEW t \in Seq(S)
    PROVE  /\ s \o t \in Seq(S)
           /\ Len(s \o t) = Len(s) + Len(t)
           /\ At(s \o t, 0, s)
           /\ At(s \o t, Len(s), t)
<1>1. /\ s \o t \in Seq(S) /\ Len(s \o t) = Len(s) + Len(t)
      /\ Len(s) \in Nat /\ Len(t) \in Nat
  OBVIOUS
<1>2. \A i \in 1 .. Len(s) : (s \o t)[0 + i] = s[i]
  OBVIOUS
<1>3. \A i \in 1 .. Len(t) : (s \o t)[Len(s) + i] = t[i]
  OBVIOUS
<1> QED BY <1>1, <1>2, <1>3 DEF At

\* What stands in a part stands in the whole.
LEMMA Within ==
    ASSUME NEW S, NEW b \in Seq(S), NEW s \in Seq(S), NEW x \in Seq(S), NEW p \in Nat, NEW q \in Nat,
           At(b, p, s), At(s, q, x)
    PROVE  At(b, p + q, x)
<1>1. p + q + Len(x) <= Len(b) /\ Len(x) \in Nat /\ Len(s) \in Nat
  BY DEF At
<1>2. ASSUME NEW i \in 1 .. Len(x)
      PROVE  b[p + q + i] = x[i]
  <2>1. q + i \in 1 .. Len(s) /\ s[q + i] = x[i]
    BY <1>1 DEF At
  <2>2. b[p + (q + i)] = s[q + i]
    BY <2>1 DEF At
  <2> QED BY <1>1, <2>1, <2>2
<1> QED BY <1>1, <1>2 DEF At

\* What stands in the first bytes.
LEMMA Inside ==
    ASSUME NEW S, NEW b \in Seq(S), NEW s \in Seq(S), NEW x \in Seq(S), NEW q \in Nat,
           At(b, 0, s), At(s, q, x)
    PROVE  At(b, q, x)
<1>1. At(b, 0 + q, x)
  BY Within
<1>2. 0 + q = q
  OBVIOUS
<1> QED BY <1>1, <1>2

\* A slice at the place of s is s.
LEMMA CutOut ==
    ASSUME NEW S, NEW b \in Seq(S), NEW s \in Seq(S), NEW p \in Nat, At(b, p, s)
    PROVE  SubSeq(b, p + 1, p + Len(s)) = s
<1> DEFINE c == SubSeq(b, p + 1, p + Len(s))
<1>1. p + Len(s) \in 0 .. Len(b) /\ Len(s) \in Nat /\ p + 1 \in Nat \ {0}
  BY DEF At
<1>2. /\ c \in Seq(S)
      /\ Len(c) = Len(s)
      /\ \A i \in 1 .. Len(s) : c[i] = b[p + i]
  BY <1>1, Slice
<1>3. \A i \in 1 .. Len(s) : c[i] = s[i]
  BY <1>2 DEF At
<1> HIDE DEF c
<1>4. c = s
  BY <1>2, <1>3, SeqEqual
<1> QED BY <1>4 DEF c

\* A slice has what stood in it.
LEMMA Cut ==
    ASSUME NEW S, NEW b \in Seq(S), NEW s \in Seq(S), NEW p \in Nat, NEW q \in Nat, NEW m \in 0 .. Len(b),
           At(b, p, s), q <= p, p + Len(s) <= m
    PROVE  At(SubSeq(b, q + 1, m), p - q, s)
<1> DEFINE c == SubSeq(b, q + 1, m)
<1>1. Len(s) \in Nat /\ q + 1 \in Nat \ {0} /\ q <= m /\ m \in Nat
  OBVIOUS
<1>2. /\ c \in Seq(S)
      /\ Len(c) = m - q
      /\ \A i \in 1 .. m - q : c[i] = b[q + i]
  BY <1>1, Slice
<1> HIDE DEF c
<1>3. ASSUME NEW i \in 1 .. Len(s)
      PROVE  c[(p - q) + i] = s[i]
  <2>1. (p - q) + i \in 1 .. m - q
    BY <1>1
  <2>2. c[(p - q) + i] = b[q + ((p - q) + i)]
    BY <1>2, <2>1
  <2>3. q + ((p - q) + i) = p + i
    BY <1>1
  <2> QED BY <2>2, <2>3 DEF At
<1>4. At(c, p - q, s)
  BY <1>1, <1>2, <1>3 DEF At
<1> QED BY <1>4 DEF c

\* A 16-bit number that stands in a stream is read from there, but for what
\* did not fit.
LEMMA At16 ==
    ASSUME NEW b \in Seq(Byte), NEW p \in Nat, NEW n \in Nat, At(b, p, LE16(n))
    PROVE  Value16(b, p + 1) = n % U16
<1> DEFINE s == LE16(n)
<1>1. s \in Seq(Byte) /\ Len(s) = 2 /\ Value16(s, 1) = n % U16
  BY Writes16
<1> HIDE DEF s
<1>2. b[p + 1] = s[1] /\ b[p + 2] = s[2]
  <2>1. \A i \in 1 .. 2 : b[p + i] = s[i]
    BY <1>1 DEF At, s
  <2> QED BY <2>1
<1> QED BY <1>1, <1>2 DEF Value16

\* A 32-bit number that stands in a stream is read from there.
LEMMA At32 ==
    ASSUME NEW b \in Seq(Byte), NEW p \in Nat, NEW n \in 0 .. U32 - 1, At(b, p, LE32(n))
    PROVE  Value32(b, p + 1) = n
<1> DEFINE s == LE32(n)
<1>0. n \in Nat /\ n < U32
  BY Sizes
<1>1. s \in Seq(Byte) /\ Len(s) = 4 /\ Value32(s, 1) = n
  BY <1>0, Writes32
<1> HIDE DEF s
<1>2. b[p + 1] = s[1] /\ b[p + 2] = s[2] /\ b[p + 3] = s[3] /\ b[p + 4] = s[4]
  <2>1. \A i \in 1 .. 4 : b[p + i] = s[i]
    BY <1>1 DEF At, s
  <2> QED BY <2>1
<1>3. (p + 1) + 1 = p + 2 /\ (p + 1) + 2 = p + 3 /\ (p + 3) + 1 = p + 4
  OBVIOUS
<1> QED BY <1>1, <1>2, <1>3 DEF Value16, Value32

-----------------------------------------------------------------------------
(* The envelope. *)

\* An envelope with any bytes for names, as a node may write it.
Raw == Envelope(Seq(Byte))

\* The types of its fields.
LEMMA FieldTypes ==
    ASSUME NEW f \in Raw
    PROVE  /\ f.typ \in Byte /\ f.flags \in 0 .. U16 - 1
           /\ f.from \in Seq(Byte) /\ Len(f.from) \in Nat
           /\ f.to \in Seq(Byte) /\ Len(f.to) \in Nat
           /\ f.payload \in Seq(Byte) /\ Len(f.payload) \in Nat
           /\ Size(f) \in Nat /\ Size(f) = 11 + Len(f.from) + Len(f.to) + Len(f.payload)
<1>1. /\ f.typ \in Byte /\ f.flags \in 0 .. U16 - 1
      /\ f.from \in Seq(Byte) /\ f.to \in Seq(Byte) /\ f.payload \in Seq(Byte)
  BY DEF Raw, Envelope
<1>2. Len(f.from) \in Nat /\ Len(f.to) \in Nat /\ Len(f.payload) \in Nat
  BY <1>1
<1>3. Size(f) = 11 + Len(f.from) + Len(f.to) + Len(f.payload)
  BY <1>2 DEF Size, HEADER
<1>4. \A x, y, z \in Nat : 11 + x + y + z \in Nat
  OBVIOUS
<1> QED BY <1>1, <1>2, <1>3, <1>4

\* Where the fields of an envelope stand.
LEMMA Layout ==
    ASSUME NEW f \in Raw
    PROVE  LET e == Encode(f)
           IN /\ e \in Seq(Byte) /\ Len(e) = 4 + Size(f)
              /\ At(e, 0, LE32(Size(f)))
              /\ At(e, 4, <<f.typ>>)
              /\ At(e, 5, LE16(f.flags))
              /\ At(e, 7, LE16(Len(f.from)))
              /\ At(e, 9, LE16(Len(f.to)))
              /\ At(e, 11, LE32(Len(f.payload)))
              /\ At(e, 15, f.from)
              /\ At(e, 15 + Len(f.from), f.to)
              /\ At(e, 15 + Len(f.from) + Len(f.to), f.payload)
<1> DEFINE s1 == LE32(Size(f))
           s2 == <<f.typ>>
           s3 == LE16(f.flags)
           s4 == LE16(Len(f.from))
           s5 == LE16(Len(f.to))
           s6 == LE32(Len(f.payload))
           s7 == f.from
           s8 == f.to
           s9 == f.payload
           lf == Len(s7)
           lt == Len(s8)
           lp == Len(s9)
           b2 == s1 \o s2
           b3 == b2 \o s3
           b4 == b3 \o s4
           b5 == b4 \o s5
           b6 == b5 \o s6
           b7 == b6 \o s7
           b8 == b7 \o s8
           b9 == b8 \o s9
<1>1. b9 = Encode(f)
  BY DEF Encode
<1>2. /\ s1 \in Seq(Byte) /\ Len(s1) = 4
      /\ s2 \in Seq(Byte) /\ Len(s2) = 1
      /\ s3 \in Seq(Byte) /\ Len(s3) = 2
      /\ s4 \in Seq(Byte) /\ Len(s4) = 2
      /\ s5 \in Seq(Byte) /\ Len(s5) = 2
      /\ s6 \in Seq(Byte) /\ Len(s6) = 4
      /\ s7 \in Seq(Byte) /\ s8 \in Seq(Byte) /\ s9 \in Seq(Byte)
      /\ lf \in Nat /\ lt \in Nat /\ lp \in Nat
      /\ Size(f) = 11 + lf + lt + lp
  <2>0. U16 \in Nat
    BY Sizes
  <2>a. f.flags \in Nat
    <3>1. f.flags \in 0 .. U16 - 1
      BY FieldTypes
    <3> QED BY <2>0, <3>1
  <2>c. /\ s7 \in Seq(Byte) /\ s8 \in Seq(Byte) /\ s9 \in Seq(Byte)
        /\ lf \in Nat /\ lt \in Nat /\ lp \in Nat
    BY FieldTypes
  <2>b. Size(f) = 11 + lf + lt + lp
    BY <2>c DEF Size, HEADER
  <2>d. f.typ \in Byte /\ Size(f) \in Nat
    BY FieldTypes
  <2>1. /\ f.typ \in Byte /\ f.flags \in Nat /\ Size(f) \in Nat
        /\ s7 \in Seq(Byte) /\ s8 \in Seq(Byte) /\ s9 \in Seq(Byte)
        /\ lf \in Nat /\ lt \in Nat /\ lp \in Nat
        /\ Size(f) = 11 + lf + lt + lp
    BY <2>a, <2>b, <2>c, <2>d
  <2>2. s2 \in Seq(Byte) /\ Len(s2) = 1
    BY <2>1
  <2>3. s1 \in Seq(Byte) /\ Len(s1) = 4 /\ s6 \in Seq(Byte) /\ Len(s6) = 4
    BY <2>1, Writes32
  <2>4. /\ s3 \in Seq(Byte) /\ Len(s3) = 2 /\ s4 \in Seq(Byte) /\ Len(s4) = 2
        /\ s5 \in Seq(Byte) /\ Len(s5) = 2
    BY <2>1, Writes16
  <2> QED BY <2>1, <2>2, <2>3, <2>4
<1> HIDE DEF s1, s2, s3, s4, s5, s6, s7, s8, s9
<1>b2. b2 \in Seq(Byte) /\ Len(b2) = 5 /\ At(b2, 0, s1) /\ At(b2, 4, s2)
  <2>1. /\ b2 \in Seq(Byte) /\ Len(b2) = Len(s1) + Len(s2)
        /\ At(b2, 0, s1) /\ At(b2, Len(s1), s2)
    BY <1>2, Glued
  <2> HIDE DEF b2
  <2> QED BY <1>2, <2>1
<1> HIDE DEF b2
<1>b3. b3 \in Seq(Byte) /\ Len(b3) = 7 /\ At(b3, 0, b2) /\ At(b3, 5, s3)
  <2>1. /\ b3 \in Seq(Byte) /\ Len(b3) = Len(b2) + Len(s3)
        /\ At(b3, 0, b2) /\ At(b3, Len(b2), s3)
    BY <1>2, <1>b2, Glued
  <2> HIDE DEF b3
  <2> QED BY <1>2, <1>b2, <2>1
<1> HIDE DEF b3
<1>b4. b4 \in Seq(Byte) /\ Len(b4) = 9 /\ At(b4, 0, b3) /\ At(b4, 7, s4)
  <2>1. /\ b4 \in Seq(Byte) /\ Len(b4) = Len(b3) + Len(s4)
        /\ At(b4, 0, b3) /\ At(b4, Len(b3), s4)
    BY <1>2, <1>b3, Glued
  <2> HIDE DEF b4
  <2> QED BY <1>2, <1>b3, <2>1
<1> HIDE DEF b4
<1>b5. b5 \in Seq(Byte) /\ Len(b5) = 11 /\ At(b5, 0, b4) /\ At(b5, 9, s5)
  <2>1. /\ b5 \in Seq(Byte) /\ Len(b5) = Len(b4) + Len(s5)
        /\ At(b5, 0, b4) /\ At(b5, Len(b4), s5)
    BY <1>2, <1>b4, Glued
  <2> HIDE DEF b5
  <2> QED BY <1>2, <1>b4, <2>1
<1> HIDE DEF b5
<1>b6. b6 \in Seq(Byte) /\ Len(b6) = 15 /\ At(b6, 0, b5) /\ At(b6, 11, s6)
  <2>1. /\ b6 \in Seq(Byte) /\ Len(b6) = Len(b5) + Len(s6)
        /\ At(b6, 0, b5) /\ At(b6, Len(b5), s6)
    BY <1>2, <1>b5, Glued
  <2> HIDE DEF b6
  <2> QED BY <1>2, <1>b5, <2>1
<1> HIDE DEF b6
<1>b7. b7 \in Seq(Byte) /\ Len(b7) = 15 + lf /\ At(b7, 0, b6) /\ At(b7, 15, s7)
  <2>1. /\ b7 \in Seq(Byte) /\ Len(b7) = Len(b6) + Len(s7)
        /\ At(b7, 0, b6) /\ At(b7, Len(b6), s7)
    BY <1>2, <1>b6, Glued
  <2> HIDE DEF b7
  <2> QED BY <1>2, <1>b6, <2>1
<1> HIDE DEF b7
<1>b8. b8 \in Seq(Byte) /\ Len(b8) = 15 + lf + lt /\ At(b8, 0, b7) /\ At(b8, 15 + lf, s8)
  <2>1. /\ b8 \in Seq(Byte) /\ Len(b8) = Len(b7) + Len(s8)
        /\ At(b8, 0, b7) /\ At(b8, Len(b7), s8)
    BY <1>2, <1>b7, Glued
  <2> HIDE DEF b8
  <2> QED BY <1>2, <1>b7, <2>1
<1> HIDE DEF b8
<1>b9. b9 \in Seq(Byte) /\ Len(b9) = 15 + lf + lt + lp /\ At(b9, 0, b8) /\ At(b9, 15 + lf + lt, s9)
  <2>1. /\ b9 \in Seq(Byte) /\ Len(b9) = Len(b8) + Len(s9)
        /\ At(b9, 0, b8) /\ At(b9, Len(b8), s9)
    BY <1>2, <1>b8, Glued
  <2> HIDE DEF b9
  <2> QED BY <1>2, <1>b8, <2>1
<1> HIDE DEF b9
\* Everything within the whole, from its end to its beginning.
<1>4. 15 + lf \in Nat /\ 15 + lf + lt \in Nat
  BY <1>2
<1>e8. At(b9, 0, b7) /\ At(b9, 15 + lf, s8)
  BY <1>2, <1>4, <1>b7, <1>b8, <1>b9, Inside
<1>e7. At(b9, 0, b6) /\ At(b9, 15, s7)
  BY <1>2, <1>b6, <1>b7, <1>b9, <1>e8, Inside
<1>e6. At(b9, 0, b5) /\ At(b9, 11, s6)
  BY <1>2, <1>b5, <1>b6, <1>b9, <1>e7, Inside
<1>e5. At(b9, 0, b4) /\ At(b9, 9, s5)
  BY <1>2, <1>b4, <1>b5, <1>b9, <1>e6, Inside
<1>e4. At(b9, 0, b3) /\ At(b9, 7, s4)
  BY <1>2, <1>b3, <1>b4, <1>b9, <1>e5, Inside
<1>e3. At(b9, 0, b2) /\ At(b9, 5, s3)
  BY <1>2, <1>b2, <1>b3, <1>b9, <1>e4, Inside
<1>e2. At(b9, 0, s1) /\ At(b9, 4, s2)
  BY <1>2, <1>b2, <1>b9, <1>e3, Inside
<1>5. Len(b9) = 4 + Size(f)
  BY <1>2, <1>b9
<1> QED BY <1>1, <1>5, <1>b9, <1>e2, <1>e3, <1>e4, <1>e5, <1>e6, <1>e7, <1>e8
        DEF s1, s2, s3, s4, s5, s6, s7, s8, s9

-----------------------------------------------------------------------------
(* What is read of an envelope. *)

\* A number fits in 16 bits if and only if cutting it off changes nothing.
LEMMA Below ==
    ASSUME NEW n \in Nat
    PROVE  /\ n % U16 \in Nat /\ n % U16 <= n
           /\ (n % U16 = n) <=> (n < U16)
<1> DEFINE m == n % U16
           q == n \div U16
<1>1. q \in Nat /\ n = U16 * q + m /\ m \in 0 .. U16 - 1
  BY DivMod, Sizes
<1>2. CASE n < U16
  BY <1>2, Remainder, Sizes
<1>3. CASE ~(n < U16)
  <2> HIDE DEF m, q
  <2>1. U16 * q \in Nat
    BY <1>1, Sizes
  <2> QED BY <1>1, <1>3, <2>1, Sizes DEF m
<1> QED BY <1>2, <1>3

\* The body of a frame is the fields it was made of, if their lengths went in.
LEMMA BodyOf ==
    ASSUME NEW f \in Raw, Size(f) < U32, NEW c \in Seq(Byte), Len(c) = Size(f),
           At(c, 0, <<f.typ>>), At(c, 1, LE16(f.flags)),
           At(c, 3, LE16(Len(f.from))), At(c, 5, LE16(Len(f.to))),
           At(c, 7, LE32(Len(f.payload))),
           At(c, 11, f.from), At(c, 11 + Len(f.from), f.to),
           At(c, 11 + Len(f.from) + Len(f.to), f.payload)
    PROVE  Body(c) = IF Short(f.from) /\ Short(f.to) THEN Got(Mended(f), <<>>) ELSE Error
<1> DEFINE lf == Len(f.from)
           lt == Len(f.to)
           lp == Len(f.payload)
<1>1. /\ f.typ \in Byte /\ f.flags \in 0 .. U16 - 1
      /\ f.from \in Seq(Byte) /\ f.to \in Seq(Byte) /\ f.payload \in Seq(Byte)
      /\ lf \in Nat /\ lt \in Nat /\ lp \in Nat
  BY FieldTypes
<1>2. Size(f) = 11 + lf + lt + lp
  BY <1>1 DEF Size, HEADER
<1>3. lp \in 0 .. U32 - 1 /\ f.flags \in Nat
  <2>1. U32 \in Nat /\ U16 \in Nat
    BY Sizes
  <2>2. f.flags \in Nat
    BY <1>1, <2>1
  <2> HIDE DEF lf, lt, lp
  <2>3. lp < U32 /\ lp >= 0
    BY <1>1, <1>2, <2>1
  <2> QED BY <1>1, <2>1, <2>2, <2>3
<1>4. FromLen(c) = lf % U16
  <2>1. Value16(c, 3 + 1) = lf % U16
    BY <1>1, At16
  <2> QED BY <2>1 DEF FromLen
<1>5. ToLen(c) = lt % U16
  <2>1. Value16(c, 5 + 1) = lt % U16
    BY <1>1, At16
  <2> QED BY <2>1 DEF ToLen
<1>6. PayloadLen(c) = lp
  <2>1. Value32(c, 7 + 1) = lp
    BY <1>3, At32
  <2> QED BY <2>1 DEF PayloadLen
<1>7. Value16(c, 2) = f.flags
  <2>1. Value16(c, 1 + 1) = f.flags % U16
    BY <1>3, At16
  <2>2. f.flags % U16 = f.flags
    BY <1>1, Remainder, Sizes
  <2> QED BY <2>1, <2>2
<1>8. c[1] = f.typ
  <2>1. Len(<<f.typ>>) = 1 /\ <<f.typ>>[1] = f.typ
    OBVIOUS
  <2>2. \A i \in 1 .. 1 : c[0 + i] = <<f.typ>>[i]
    BY <2>1 DEF At
  <2> QED BY <2>1, <2>2
<1> DEFINE mf == lf % U16
           mt == lt % U16
<1>9. /\ mf \in Nat /\ mf <= lf /\ (mf = lf <=> lf < U16)
      /\ mt \in Nat /\ mt <= lt /\ (mt = lt <=> lt < U16)
  BY <1>1, Below
<1>10. Claimed(c) = 11 + mf + mt + lp
  BY <1>4, <1>5, <1>6 DEF Claimed, HEADER
<1> HIDE DEF lf, lt, lp, mf, mt
<1>11. Claimed(c) = Len(c) <=> lf < U16 /\ lt < U16
  BY <1>1, <1>2, <1>9, <1>10
<1>12. CASE ~(lf < U16 /\ lt < U16)
  <2>1. Body(c) = Error
    BY <1>11, <1>12 DEF Body
  <2> QED BY <1>12, <2>1 DEF Short, lf, lt
<1>13. CASE lf < U16 /\ lt < U16
  <2>1. FromLen(c) = lf /\ ToLen(c) = lt /\ PayloadLen(c) = lp
    BY <1>4, <1>5, <1>6, <1>9, <1>13 DEF mf, mt, lf, lt, lp
  <2>2. SubSeq(c, 12, 11 + lf) = f.from
    <3>1. SubSeq(c, 11 + 1, 11 + Len(f.from)) = f.from
      BY <1>1, CutOut
    <3> QED BY <3>1 DEF lf
  <2>3. SubSeq(c, 11 + lf + 1, 11 + lf + lt) = f.to
    <3>0. 11 + lf \in Nat
      BY <1>1
    <3>1. SubSeq(c, (11 + Len(f.from)) + 1, (11 + Len(f.from)) + Len(f.to)) = f.to
      BY <1>1, <3>0, CutOut DEF lf
    <3> QED BY <3>1 DEF lf, lt
  <2>4. SubSeq(c, 11 + lf + lt + 1, 11 + lf + lt + lp) = f.payload
    <3>0. 11 + lf + lt \in Nat
      BY <1>1
    <3>1. SubSeq(c, (11 + Len(f.from) + Len(f.to)) + 1,
                    (11 + Len(f.from) + Len(f.to)) + Len(f.payload)) = f.payload
      BY <1>1, <3>0, CutOut DEF lf, lt
    <3> QED BY <3>1 DEF lf, lt, lp
  <2>5. Body(c) = Fields(c)
    BY <1>11, <1>13 DEF Body
  <2>6. Fields(c) = Got([typ |-> f.typ, flags |-> f.flags, from |-> Lossy(f.from),
                         to |-> Lossy(f.to), payload |-> f.payload], <<>>)
    <3>1. /\ HEADER = 11 /\ 11 + 1 = 12
      BY DEF HEADER
    <3>2. Fields(c) = Got([typ |-> c[1], flags |-> Value16(c, 2),
                           from |-> Lossy(SubSeq(c, 11 + 1, 11 + lf)),
                           to |-> Lossy(SubSeq(c, 11 + lf + 1, 11 + lf + lt)),
                           payload |-> SubSeq(c, 11 + lf + lt + 1, 11 + lf + lt + lp)], <<>>)
      BY <2>1, <3>1 DEF Fields
    <3>3. SubSeq(c, 11 + 1, 11 + lf) = f.from
      BY <2>2, <3>1
    <3> QED BY <1>7, <1>8, <2>3, <2>4, <3>2, <3>3
  <2>7. Mended(f) = [typ |-> f.typ, flags |-> f.flags, from |-> Lossy(f.from),
                     to |-> Lossy(f.to), payload |-> f.payload]
    BY DEF Mended
  <2> QED BY <1>13, <2>5, <2>6, <2>7 DEF Short, lf, lt
<1> QED BY <1>12, <1>13

(* A frame that was written is read: its fields come back, the names mended, *)
(* and what is behind it is left; it is refused if and only if a name is too  *)
(* long for its 16 bits or all of it for MAX_FRAME (frame.rs:77-151).         *)
THEOREM EncodedFrameIsRead ==
    ASSUME NEW f \in Raw, Size(f) < U32, NEW rest \in Seq(Byte)
    PROVE  Read(Encode(f) \o rest) = IF Readable(f) THEN Got(Mended(f), rest) ELSE Error
<1> DEFINE n == Size(f)
           e == Encode(f)
           b == e \o rest
           c == SubSeq(b, 5, 4 + n)
           lf == Len(f.from)
           lt == Len(f.to)
           lp == Len(f.payload)
<1>1. /\ f.from \in Seq(Byte) /\ f.to \in Seq(Byte) /\ f.payload \in Seq(Byte)
      /\ lf \in Nat /\ lt \in Nat /\ lp \in Nat /\ n \in Nat /\ f.typ \in Byte
  BY FieldTypes
<1>1t. <<f.typ>> \in Seq(Byte) /\ Len(<<f.typ>>) = 1
  BY <1>1
<1>1a. n = 11 + lf + lt + lp
  BY <1>1 DEF Size, HEADER
<1>1b. /\ LE16(f.flags) \in Seq(Byte) /\ LE16(lf) \in Seq(Byte) /\ LE16(lt) \in Seq(Byte)
       /\ LE32(lp) \in Seq(Byte) /\ LE32(n) \in Seq(Byte)
       /\ Len(LE16(f.flags)) = 2 /\ Len(LE16(lf)) = 2 /\ Len(LE16(lt)) = 2
       /\ Len(LE32(lp)) = 4
  <2>1. f.flags \in Nat
    <3>1. f.flags \in 0 .. U16 - 1 /\ U16 \in Nat
      BY FieldTypes, Sizes
    <3> QED BY <3>1
  <2> QED BY <1>1, <2>1, Writes16, Writes32
<1>2. /\ e \in Seq(Byte) /\ Len(e) = 4 + n
      /\ At(e, 0, LE32(n)) /\ At(e, 4, <<f.typ>>) /\ At(e, 5, LE16(f.flags))
      /\ At(e, 7, LE16(lf)) /\ At(e, 9, LE16(lt)) /\ At(e, 11, LE32(lp))
      /\ At(e, 15, f.from) /\ At(e, 15 + lf, f.to) /\ At(e, 15 + lf + lt, f.payload)
  BY Layout
<1> HIDE DEF e, n, lf, lt, lp
<1>3. b \in Seq(Byte) /\ Len(b) = Len(e) + Len(rest) /\ At(b, 0, e) /\ At(b, Len(e), rest)
  BY <1>2, Glued
<1>3a. Len(b) = 4 + n + Len(rest) /\ At(b, 4 + n, rest) /\ Len(rest) \in Nat
  <2> HIDE DEF b
  <2> QED BY <1>1, <1>2, <1>3
<1> HIDE DEF b
<1>4. Value32(b, 1) = n
  <2>1. At(b, 0, LE32(n))
    BY <1>1b, <1>2, <1>3, Inside
  <2>2. n \in 0 .. U32 - 1
    BY <1>1, Sizes DEF n
  <2>3. Value32(b, 0 + 1) = n
    BY <1>3, <2>1, <2>2, At32
  <2> QED BY <2>3
<1>5. Len(b) >= 4 /\ Len(b) >= 4 + n /\ n >= 11
  BY <1>1, <1>1a, <1>3a
<1>6. CASE ~(n <= MAX_FRAME)
  <2>1. ~Legal(n)
    BY <1>6 DEF Legal
  <2>2. Read(b) = Error
    BY <1>1, <1>3, <1>3a, <1>4, <1>5, <2>1 DEF Read
  <2> QED BY <1>6, <2>2 DEF Readable, b, e, n
<1>7. CASE n <= MAX_FRAME
  <2>1. Legal(n)
    BY <1>5, <1>7 DEF Legal, HEADER
  <2>2. c \in Seq(Byte) /\ Len(c) = n
    <3>1. 4 + n \in 0 .. Len(b) /\ 5 <= 4 + n
      BY <1>1, <1>1a, <1>3a
    <3>2. /\ c \in Seq(Byte)
          /\ Len(c) = IF 5 <= 4 + n THEN (4 + n) - 5 + 1 ELSE 0
      BY <1>3, <3>1, Slice
    <3> HIDE DEF c
    <3> QED BY <1>1, <3>1, <3>2
  <2>3. /\ At(c, 0, <<f.typ>>) /\ At(c, 1, LE16(f.flags))
        /\ At(c, 3, LE16(lf)) /\ At(c, 5, LE16(lt))
        /\ At(c, 7, LE32(lp))
        /\ At(c, 11, f.from) /\ At(c, 11 + lf, f.to)
        /\ At(c, 11 + lf + lt, f.payload)
    <3>0. 4 + n \in 0 .. Len(b) /\ c = SubSeq(b, 4 + 1, 4 + n)
      BY <1>1, <1>3a
    <3> HIDE DEF c
    <3>1. ASSUME NEW s \in Seq(Byte), NEW q \in Nat, NEW p \in Nat, p = 4 + q,
                 At(e, p, s), q + Len(s) <= n
          PROVE  At(c, q, s)
      <4>1. At(b, p, s)
        BY <1>2, <1>3, <3>1, Inside
      <4>2. Len(s) \in Nat /\ 4 <= p /\ p + Len(s) <= 4 + n /\ p - 4 = q
        BY <1>1, <3>1
      <4>3. At(c, p - 4, s)
        BY <1>3, <3>0, <4>1, <4>2, Cut
      <4> QED BY <4>2, <4>3
    <3>2. At(c, 0, <<f.typ>>)
      <4>1. 4 = 4 + 0 /\ 0 + Len(<<f.typ>>) <= n
        BY <1>1, <1>1a, <1>1t
      <4> QED BY <1>1t, <1>2, <3>1, <4>1
    <3>3. At(c, 1, LE16(f.flags))
      <4>1. 5 = 4 + 1 /\ 1 + Len(LE16(f.flags)) <= n
        BY <1>1, <1>1a, <1>1b
      <4> QED BY <1>1b, <1>2, <3>1, <4>1
    <3>4. At(c, 3, LE16(lf))
      <4>1. 7 = 4 + 3 /\ 3 + Len(LE16(lf)) <= n
        BY <1>1, <1>1a, <1>1b
      <4> QED BY <1>1b, <1>2, <3>1, <4>1
    <3>5. At(c, 5, LE16(lt))
      <4>1. 9 = 4 + 5 /\ 5 + Len(LE16(lt)) <= n
        BY <1>1, <1>1a, <1>1b
      <4> QED BY <1>1b, <1>2, <3>1, <4>1
    <3>6. At(c, 7, LE32(lp))
      <4>1. 11 = 4 + 7 /\ 7 + Len(LE32(lp)) <= n
        BY <1>1, <1>1a, <1>1b
      <4> QED BY <1>1b, <1>2, <3>1, <4>1
    <3>7. At(c, 11, f.from)
      <4>1. 15 = 4 + 11 /\ 11 + Len(f.from) <= n
        BY <1>1, <1>1a DEF lf
      <4> QED BY <1>1, <1>2, <3>1, <4>1
    <3>8. At(c, 11 + lf, f.to)
      <4>1. /\ 15 + lf = 4 + (11 + lf) /\ (11 + lf) + lt <= n
            /\ 11 + lf \in Nat /\ 15 + lf \in Nat
        BY <1>1, <1>1a
      <4>2. lt = Len(f.to)
        BY DEF lt
      <4> QED BY <1>1, <1>2, <3>1, <4>1, <4>2
    <3>9. At(c, 11 + lf + lt, f.payload)
      <4>1. /\ 15 + lf + lt = 4 + (11 + lf + lt) /\ (11 + lf + lt) + Len(f.payload) <= n
            /\ 11 + lf + lt \in Nat /\ 15 + lf + lt \in Nat
        BY <1>1, <1>1a DEF lp
      <4> QED BY <1>1, <1>2, <3>1, <4>1
    <3> QED BY <3>2, <3>3, <3>4, <3>5, <3>6, <3>7, <3>8, <3>9
  <2>4. Body(c) = IF Short(f.from) /\ Short(f.to) THEN Got(Mended(f), <<>>) ELSE Error
    <3> HIDE DEF c
    <3> QED BY <2>2, <2>3, BodyOf DEF n, lf, lt, lp
  <2>5. SubSeq(b, 5 + n, Len(b)) = rest
    <3>1. SubSeq(b, (4 + n) + 1, (4 + n) + Len(rest)) = rest
      BY <1>1, <1>3, <1>3a, CutOut
    <3>2. (4 + n) + 1 = 5 + n /\ (4 + n) + Len(rest) = Len(b)
      BY <1>1, <1>3a
    <3> QED BY <3>1, <3>2
  <2>6. Read(b) = IF Body(c) = Error THEN Error ELSE Got(Body(c).value, rest)
    <3> DEFINE m == Value32(b, 1)
    <3>1. Legal(m) /\ Len(b) >= 4 /\ Len(b) >= 4 + m /\ m \in Nat /\ Len(b) \in Nat
      BY <1>1, <1>3, <1>4, <1>5, <2>1
    <3>2. Read(b) = IF Body(SubSeq(b, 5, 4 + m)) = Error THEN Error
                    ELSE Got(Body(SubSeq(b, 5, 4 + m)).value, SubSeq(b, 5 + m, Len(b)))
      <4> HIDE DEF m
      <4> QED BY <3>1 DEF Read, m
    <3> QED BY <1>4, <2>5, <3>2
  <2> HIDE DEF c
  <2>7. Readable(f) <=> Short(f.from) /\ Short(f.to)
    BY <1>7 DEF Readable, n
  <2>8. Read(b) = IF Readable(f) THEN Got(Mended(f), rest) ELSE Error
    BY <2>4, <2>6, <2>7, NoResult
  <2> QED BY <2>8 DEF b, e
<1> QED BY <1>6, <1>7

-----------------------------------------------------------------------------
(* A read does not look behind what it reads. *)

\* What a concatenation is made of.
LEMMA Joined ==
    ASSUME NEW S, NEW s \in Seq(S), NEW t \in Seq(S)
    PROVE  /\ s \o t \in Seq(S)
           /\ Len(s \o t) = Len(s) + Len(t)
           /\ \A i \in 1 .. Len(s) : (s \o t)[i] = s[i]
           /\ \A i \in 1 .. Len(t) : (s \o t)[Len(s) + i] = t[i]
OBVIOUS

\* A slice of the front is a slice of the whole.
LEMMA FrontOf ==
    ASSUME NEW S, NEW b \in Seq(S), NEW t \in Seq(S), NEW m \in Nat \ {0}, NEW n \in 0 .. Len(b)
    PROVE  SubSeq(b \o t, m, n) = SubSeq(b, m, n)
<1> DEFINE x == b \o t
           c == SubSeq(x, m, n)
           d == SubSeq(b, m, n)
<1>1. /\ x \in Seq(S) /\ Len(x) = Len(b) + Len(t) /\ Len(b) \in Nat /\ Len(t) \in Nat
      /\ \A i \in 1 .. Len(b) : x[i] = b[i]
  OBVIOUS
<1> HIDE DEF x
<1>2. n \in 0 .. Len(x)
  BY <1>1
<1>3. /\ c \in Seq(S) /\ Len(c) = IF m <= n THEN n - m + 1 ELSE 0
      /\ \A i \in 1 .. n - m + 1 : c[i] = x[m + i - 1]
  BY <1>1, <1>2, Slice
<1>4. /\ d \in Seq(S) /\ Len(d) = IF m <= n THEN n - m + 1 ELSE 0
      /\ \A i \in 1 .. n - m + 1 : d[i] = b[m + i - 1]
  BY Slice
<1> HIDE DEF c, d
<1>5. ASSUME NEW i \in 1 .. Len(c)
      PROVE  c[i] = d[i]
  <2>1. i \in 1 .. n - m + 1 /\ m + i - 1 \in 1 .. Len(b)
    BY <1>1, <1>3
  <2> QED BY <1>1, <1>3, <1>4, <2>1
<1>6. c = d
  BY <1>3, <1>4, <1>5, SeqEqual
<1> QED BY <1>6 DEF c, d, x

\* Cutting off a front leaves what was added behind.
LEMMA BackOf ==
    ASSUME NEW S, NEW b \in Seq(S), NEW t \in Seq(S), NEW m \in Nat \ {0}, m <= Len(b) + 1
    PROVE  SubSeq(b \o t, m, Len(b \o t)) = SubSeq(b, m, Len(b)) \o t
<1> DEFINE x == b \o t
           c == SubSeq(x, m, Len(x))
           d == SubSeq(b, m, Len(b))
           e == d \o t
<1>1. /\ x \in Seq(S) /\ Len(x) = Len(b) + Len(t) /\ Len(b) \in Nat /\ Len(t) \in Nat
      /\ \A i \in 1 .. Len(b) : x[i] = b[i]
      /\ \A i \in 1 .. Len(t) : x[Len(b) + i] = t[i]
  OBVIOUS
<1> HIDE DEF x
<1>2. Len(x) \in 0 .. Len(x) /\ Len(b) \in 0 .. Len(b)
  BY <1>1
<1>3. /\ c \in Seq(S) /\ Len(c) = IF m <= Len(x) THEN Len(x) - m + 1 ELSE 0
      /\ \A i \in 1 .. Len(x) - m + 1 : c[i] = x[m + i - 1]
  BY <1>1, <1>2, Slice
<1>4. /\ d \in Seq(S) /\ Len(d) = IF m <= Len(b) THEN Len(b) - m + 1 ELSE 0
      /\ \A i \in 1 .. Len(b) - m + 1 : d[i] = b[m + i - 1]
  BY <1>2, Slice
<1> HIDE DEF c, d
<1>5. Len(c) = Len(b) + Len(t) - m + 1 /\ Len(d) = Len(b) - m + 1 /\ Len(c) = Len(d) + Len(t)
  <2>1. Len(d) = Len(b) - m + 1
    BY <1>1, <1>4
  <2>2. Len(c) = Len(x) - m + 1
    BY <1>1, <1>3
  <2> QED BY <1>1, <2>1, <2>2
<1>6. /\ e \in Seq(S) /\ Len(e) = Len(d) + Len(t)
      /\ \A i \in 1 .. Len(d) : e[i] = d[i]
      /\ \A i \in 1 .. Len(t) : e[Len(d) + i] = t[i]
  <2>1. d \in Seq(S)
    BY <1>4
  <2> QED BY <2>1, Joined
<1> HIDE DEF e
<1>7. ASSUME NEW i \in 1 .. Len(c)
      PROVE  c[i] = e[i]
  <2>1. c[i] = x[m + i - 1]
    BY <1>1, <1>3, <1>5
  <2>2. CASE i <= Len(d)
    <3>1. m + i - 1 \in 1 .. Len(b) /\ i \in 1 .. Len(d)
      BY <1>1, <1>5, <2>2
    <3> QED BY <1>1, <1>4, <1>5, <1>6, <2>1, <3>1
  <2>3. CASE i > Len(d)
    <3> DEFINE k == i - Len(d)
    <3>0. i \in 1 .. Len(b) + Len(t) - m + 1 /\ i > Len(b) - m + 1
      BY <1>5, <2>3
    <3>a. k = i - (Len(b) - m + 1)
      BY <1>5
    <3> HIDE DEF k
    <3>1. k \in 1 .. Len(t) /\ m + i - 1 = Len(b) + k /\ i = Len(d) + k
      BY <1>1, <1>5, <3>0, <3>a
    <3> QED BY <1>1, <1>6, <2>1, <3>1
  <2>4. Len(d) \in Nat /\ i \in Nat
    BY <1>1, <1>5
  <2> QED BY <2>2, <2>3, <2>4
<1>8. c = e
  BY <1>3, <1>5, <1>6, <1>7, SeqEqual
<1> QED BY <1>8 DEF c, d, e, x

\* What a read comes to.
LEMMA Outcome ==
    ASSUME NEW b \in Seq(Byte)
    PROVE  \/ Read(b) = More
           \/ Read(b) = Error
           \/ /\ Read(b).status = "got" /\ Read(b) # Error /\ Read(b) # More
              /\ Read(b) = Got(Read(b).value, Read(b).rest)
              /\ Read(b).rest \in Seq(Byte)
<1> DEFINE n == Value32(b, 1)
<1>1. CASE Len(b) < 4
  BY <1>1 DEF Read
<1>2. CASE Len(b) >= 4
  <2>1. n \in Nat /\ Len(b) \in Nat
    BY <1>2, Prefixed
  <2> HIDE DEF n
  <2>2. CASE ~Legal(n)
    BY <1>2, <2>1, <2>2 DEF Read, n
  <2>3. CASE Legal(n) /\ Len(b) < 4 + n
    BY <1>2, <2>1, <2>3 DEF Read, n
  <2>4. CASE Legal(n) /\ Len(b) >= 4 + n
    <3> DEFINE f == Body(SubSeq(b, 5, 4 + n))
               r == SubSeq(b, 5 + n, Len(b))
    <3>1. Read(b) = IF f = Error THEN Error ELSE Got(f.value, r)
      BY <1>2, <2>1, <2>4 DEF Read, n
    <3>2. r \in Seq(Byte)
      BY <2>1, Slice
    <3> HIDE DEF f, r
    <3> QED BY <3>1, <3>2, NoResult
  <2> QED BY <2>1, <2>2, <2>3, <2>4
<1>3. Len(b) \in Nat
  OBVIOUS
<1> QED BY <1>1, <1>2, <1>3

(* A read does not look behind what it reads: what it comes to before the     *)
(* rest of the stream has come is what it comes to after (frame.rs:94-109).   *)
THEOREM ReadLooksNoFurther ==
    ASSUME NEW b \in Seq(Byte), NEW t \in Seq(Byte), Read(b) # More
    PROVE  Read(b \o t) = IF Read(b) = Error THEN Error
                          ELSE Got(Read(b).value, Read(b).rest \o t)
<1> DEFINE n == Value32(b, 1)
           x == b \o t
<1>1. /\ x \in Seq(Byte) /\ Len(x) = Len(b) + Len(t) /\ Len(b) \in Nat /\ Len(t) \in Nat
      /\ \A i \in 1 .. Len(b) : x[i] = b[i]
  OBVIOUS
<1>2. Len(b) >= 4
  BY <1>1 DEF Read
<1>3. n \in Nat
  BY <1>2, Prefixed
<1>4. Value32(x, 1) = n
  <2>1. x[1] = b[1] /\ x[2] = b[2] /\ x[3] = b[3] /\ x[4] = b[4]
    BY <1>1, <1>2
  <2> HIDE DEF x
  <2> QED BY <2>1 DEF Value32, Value16
<1>5. Len(x) >= 4
  BY <1>1, <1>2
<1>6. CASE ~Legal(n)
  <2> HIDE DEF n, x
  <2>1. Read(b) = Error
    BY <1>1, <1>2, <1>6 DEF Read, n
  <2>2. Read(x) = Error
    <3>1. ~Legal(Value32(x, 1))
      BY <1>4, <1>6
    <3> QED BY <1>1, <1>5, <3>1 DEF Read
  <2> QED BY <2>1, <2>2 DEF x
<1>7. CASE Legal(n)
  <2> HIDE DEF n, x
  <2>1. Len(b) >= 4 + n /\ Len(x) >= 4 + n /\ 4 + n \in Nat
    <3>1. ~(Len(b) < 4 + n)
      BY <1>1, <1>2, <1>7 DEF Read, n
    <3> QED BY <1>1, <1>3, <3>1
  <2>2. SubSeq(x, 5, 4 + n) = SubSeq(b, 5, 4 + n)
    <3>1. 4 + n \in 0 .. Len(b)
      BY <1>1, <2>1
    <3> QED BY <3>1, FrontOf DEF x
  <2>3. SubSeq(x, 5 + n, Len(x)) = SubSeq(b, 5 + n, Len(b)) \o t
    <3>1. 5 + n \in Nat \ {0} /\ 5 + n <= Len(b) + 1
      BY <1>1, <1>3, <2>1
    <3> QED BY <3>1, BackOf DEF x
  <2> DEFINE f == Body(SubSeq(b, 5, 4 + n))
             r == SubSeq(b, 5 + n, Len(b))
  <2>4. Read(b) = IF f = Error THEN Error ELSE Got(f.value, r)
    BY <1>1, <1>2, <1>3, <1>7, <2>1 DEF Read, n
  <2>5. Read(x) = IF f = Error THEN Error ELSE Got(f.value, r \o t)
    <3> DEFINE m == Value32(x, 1)
    <3>1. Legal(m) /\ Len(x) >= 4 /\ Len(x) >= 4 + m /\ m \in Nat /\ Len(x) \in Nat
      BY <1>1, <1>3, <1>4, <1>5, <1>7, <2>1
    <3>2. Read(x) = IF Body(SubSeq(x, 5, 4 + m)) = Error THEN Error
                    ELSE Got(Body(SubSeq(x, 5, 4 + m)).value, SubSeq(x, 5 + m, Len(x)))
      <4> HIDE DEF m
      <4> QED BY <3>1 DEF Read, m
    <3> QED BY <1>4, <2>2, <2>3, <3>2
  <2> HIDE DEF f, r
  <2>6. Read(x) = IF Read(b) = Error THEN Error ELSE Got(Read(b).value, Read(b).rest \o t)
    <3>1. CASE f = Error
      BY <2>4, <2>5, <3>1
    <3>2. CASE f # Error
      <4>1. Read(b) = Got(f.value, r)
        BY <2>4, <3>2
      <4>2. Read(b) # Error /\ Read(b).value = f.value /\ Read(b).rest = r
        BY <4>1, NoResult
      <4> QED BY <2>5, <3>2, <4>2
    <3> QED BY <3>1, <3>2
  <2> QED BY <2>6 DEF x
<1> QED BY <1>6, <1>7

\* What a read of b is for when f was written, and what it leaves.
Gives(b, f) == /\ Read(b) = Error <=> ~Readable(f)
               /\ Read(b) # Error => Read(b).value = Mended(f)

\* What it leaves: the rest, but for t, which has not come.
Leaves(b, t, rest) == Read(b) # Error => Read(b).rest \o t = rest

\* What is read of a beginning of a stream of frames is the first of them.
LEMMA ReadsFirst ==
    ASSUME NEW f \in Raw, Size(f) < U32, NEW rest \in Seq(Byte),
           NEW b \in Seq(Byte), NEW t \in Seq(Byte), b \o t = Encode(f) \o rest,
           Read(b) # More
    PROVE  Gives(b, f) /\ Leaves(b, t, rest)
<1> DEFINE x == b \o t
<1>1. Read(x) = IF Readable(f) THEN Got(Mended(f), rest) ELSE Error
  BY EncodedFrameIsRead
<1>2. Read(x) = IF Read(b) = Error THEN Error ELSE Got(Read(b).value, Read(b).rest \o t)
  BY ReadLooksNoFurther
<1> HIDE DEF x
<1>3. CASE Read(b) = Error
  BY <1>1, <1>2, <1>3, NoResult DEF Gives, Leaves
<1>4. CASE Read(b) # Error
  <2> DEFINE v == Read(b).value
             r == Read(b).rest \o t
  <2>1. Read(x) = Got(v, r)
    BY <1>2, <1>4
  <2> HIDE DEF v, r
  <2>2. Readable(f) /\ Read(x) = Got(Mended(f), rest)
    BY <1>1, <2>1, NoResult
  <2>3. Read(x).value = Mended(f) /\ Read(x).rest = rest
    BY <2>2, NoResult
  <2>4. Read(x).value = v /\ Read(x).rest = r
    BY <2>1, NoResult
  <2>5. v = Mended(f) /\ r = rest
    BY <2>3, <2>4
  <2> QED BY <1>4, <2>2, <2>5 DEF v, r, Gives, Leaves
<1> QED BY <1>3, <1>4

-----------------------------------------------------------------------------
(* Sequences of sequences. *)

\* The order of the numbers is well-founded.
LEMMA Less == IsWellFoundedOn({p \in Nat \X Nat : p[1] < p[2]}, Nat)
BY NatLessThanWellFounded DEF OpToRel

\* Induction, of a set: no operator stands for the statement.
LEMMA SetInduction ==
    ASSUME NEW S, 0 \in S, \A n \in Nat : n \in S => n + 1 \in S
    PROVE  Nat \subseteq S
<1> DEFINE R == {p \in Nat \X Nat : p[1] < p[2]}
           T == Nat \ S
<1> SUFFICES ASSUME T # {} PROVE FALSE
  OBVIOUS
<1>1. IsWellFoundedOn(R, Nat)
  BY Less
<1>2. T \subseteq Nat
  OBVIOUS
<1> HIDE DEF T
<1>3. PICK x \in T : \A y \in T : ~ (<<y, x>> \in R)
  <2> HIDE DEF R
  <2> QED BY <1>1, <1>2, WFMin
<1>4. x \in Nat /\ x # 0 /\ x - 1 \in Nat /\ x - 1 \in T
  BY <1>2 DEF T
<1>5. <<x - 1, x>> \in R
  BY <1>4
<1> QED BY <1>3, <1>4, <1>5

\* g[i] is the first i pieces of ss in one, by recursion and by its equations.
Gathers(g, ss, n) == g = [i \in 1 .. n |-> IF i = 1 THEN ss[i] ELSE g[i - 1] \o ss[i]]

Gathered(g, ss, n) == \A i \in 1 .. n : g[i] = IF i = 1 THEN ss[i] ELSE g[i - 1] \o ss[i]

\* The recursion satisfies the equations.
LEMMA GathersOne ==
    ASSUME NEW ss, NEW n \in Nat, NEW g, Gathers(g, ss, n)
    PROVE  Gathered(g, ss, n)
<1> DEFINE G == [i \in 1 .. n |-> IF i = 1 THEN ss[i] ELSE g[i - 1] \o ss[i]]
<1>1. g = G
  BY DEF Gathers
<1>2. \A i \in 1 .. n : G[i] = IF i = 1 THEN ss[i] ELSE g[i - 1] \o ss[i]
  OBVIOUS
<1> HIDE DEF G
<1> QED BY <1>1, <1>2 DEF Gathered

\* There is a function so defined: the steps are well-founded.
LEMMA GathersExists ==
    ASSUME NEW ss, NEW m \in Nat
    PROVE  \E g : Gathers(g, ss, m)
<1> DEFINE S == {n \in Nat : \E g : Gathers(g, ss, n)}
<1>1. 0 \in S
  <2> DEFINE g == [i \in 1 .. 0 |-> 0]
  <2>1. Gathers(g, ss, 0)
    BY DEF Gathers
  <2> QED BY <2>1
<1>2. ASSUME NEW n \in Nat, n \in S
      PROVE  n + 1 \in S
  <2>1. PICK g : Gathers(g, ss, n)
    BY <1>2
  <2> DEFINE h == [i \in 1 .. n + 1 |-> IF i \in 1 .. n THEN g[i]
                                        ELSE IF i = 1 THEN ss[i] ELSE g[i - 1] \o ss[i]]
             H == [i \in 1 .. n + 1 |-> IF i = 1 THEN ss[i] ELSE h[i - 1] \o ss[i]]
  <2>2. ASSUME NEW i \in 1 .. n + 1
        PROVE  h[i] = H[i]
    <3>1. CASE i \in 1 .. n /\ i # 1
      <4>1. i - 1 \in 1 .. n /\ i - 1 \in 1 .. n + 1
        BY <3>1
      <4>2. h[i - 1] = g[i - 1] /\ h[i] = g[i]
        BY <3>1, <4>1
      <4>3. g[i] = g[i - 1] \o ss[i]
        <5>1. \A k \in 1 .. n : g[k] = IF k = 1 THEN ss[k] ELSE g[k - 1] \o ss[k]
          BY <2>1, GathersOne DEF Gathered
        <5> HIDE DEF h
        <5> QED BY <3>1, <5>1
      <4> HIDE DEF h
      <4> QED BY <3>1, <4>2, <4>3
    <3>2. CASE i \in 1 .. n /\ i = 1
      <4>1. h[i] = g[1] /\ H[i] = ss[1]
        BY <3>2
      <4>2. g[1] = ss[1]
        <5>1. 1 \in 1 .. n
          BY <3>2
        <5>2. \A k \in 1 .. n : g[k] = IF k = 1 THEN ss[k] ELSE g[k - 1] \o ss[k]
          BY <2>1, GathersOne DEF Gathered
        <5> QED BY <5>1, <5>2
      <4> HIDE DEF h, H
      <4> QED BY <3>2, <4>1, <4>2
    <3>3. CASE ~(i \in 1 .. n) /\ i = 1
      BY <3>3
    <3>4. CASE ~(i \in 1 .. n) /\ i # 1
      <4>1. i - 1 \in 1 .. n /\ i - 1 \in 1 .. n + 1
        BY <3>4
      <4>2. h[i - 1] = g[i - 1]
        BY <4>1
      <4>3. h[i] = g[i - 1] \o ss[i]
        BY <3>4
      <4> HIDE DEF h
      <4> QED BY <3>4, <4>2, <4>3
    <3> QED BY <3>1, <3>2, <3>3, <3>4
  <2>3. h = H
    <3>1. h = [i \in 1 .. n + 1 |-> h[i]] /\ H = [i \in 1 .. n + 1 |-> H[i]]
      OBVIOUS
    <3> HIDE DEF h, H
    <3> QED BY <2>2, <3>1
  <2>4. Gathers(h, ss, n + 1)
    <3> HIDE DEF h
    <3> QED BY <2>3 DEF Gathers
  <2> QED BY <2>4
<1> HIDE DEF S
<1>3. Nat \subseteq S
  BY <1>1, <1>2, SetInduction
<1>4. m \in S
  BY <1>3
<1> QED BY <1>4 DEF S

\* ss and tt begin with the same n pieces.
Same(ss, tt, n) == \A i \in 1 .. n : ss[i] = tt[i]

\* What begins the same gathers the same.
LEMMA GathersSame ==
    ASSUME NEW ss, NEW tt, NEW n \in Nat, NEW m \in Nat, NEW g, NEW h,
           Gathered(g, ss, n), Gathered(h, tt, m), n <= m,
           Same(ss, tt, n), NEW j \in 1 .. n
    PROVE  g[j] = h[j]
<1> DEFINE S == {i \in Nat : i \in 1 .. n => g[i] = h[i]}
<1>a. \A k \in 1 .. n : g[k] = IF k = 1 THEN ss[k] ELSE g[k - 1] \o ss[k]
  BY DEF Gathered
<1>b. \A k \in 1 .. m : h[k] = IF k = 1 THEN tt[k] ELSE h[k - 1] \o tt[k]
  BY DEF Gathered
<1>c. \A i \in 1 .. n : ss[i] = tt[i]
  BY DEF Same
<1>1. 0 \in S
  OBVIOUS
<1>2. ASSUME NEW i \in Nat, i \in S
      PROVE  i + 1 \in S
  <2> SUFFICES ASSUME i + 1 \in 1 .. n
               PROVE  g[i + 1] = h[i + 1]
    OBVIOUS
  <2>1. CASE i = 0
    <3>1. g[1] = ss[1] /\ h[1] = tt[1] /\ ss[1] = tt[1]
      <4>1. 1 \in 1 .. m /\ 1 \in 1 .. n
        BY <2>1
      <4>2. g[1] = ss[1]
        BY <1>a, <4>1
      <4>3. h[1] = tt[1]
        BY <1>b, <4>1
      <4> QED BY <1>c, <4>1, <4>2, <4>3
    <3>2. i + 1 = 1
      BY <2>1
    <3> QED BY <3>1, <3>2
  <2>2. CASE i # 0
    <3>1. i \in 1 .. n /\ (i + 1) - 1 = i /\ i + 1 # 1 /\ i + 1 \in 1 .. m
      BY <2>2
    <3>2. g[i + 1] = g[i] \o ss[i + 1]
      <4>1. g[i + 1] = g[(i + 1) - 1] \o ss[i + 1]
        BY <1>a, <3>1
      <4> QED BY <3>1, <4>1
    <3>3. h[i + 1] = h[i] \o tt[i + 1]
      <4>1. h[i + 1] = h[(i + 1) - 1] \o tt[i + 1]
        BY <1>b, <3>1
      <4> QED BY <3>1, <4>1
    <3>4. g[i] = h[i]
      BY <1>2, <3>1
    <3> QED BY <1>c, <3>2, <3>3, <3>4
  <2> QED BY <2>1, <2>2
<1> HIDE DEF S
<1>3. Nat \subseteq S
  BY <1>1, <1>2, SetInduction
<1>4. j \in S
  BY <1>3
<1> QED BY <1>4 DEF S

\* The folds that FlattenSeq is made of gather the pieces.
LEMMA Flattened ==
    ASSUME NEW T, NEW ss \in Seq(T)
    PROVE  /\ ss = <<>> => FlattenSeq(ss) = <<>>
           /\ ss # <<>> => \E g : Gathered(g, ss, Len(ss)) /\ FlattenSeq(ss) = g[Len(ss)]
<1>1. CASE ss = <<>>
  <2>1. Len(ss) = 0
    BY <1>1
  <2> QED BY <1>1, <2>1 DEF FlattenSeq
<1>2. CASE ss # <<>>
  <2>1. Len(ss) \in Nat /\ Len(ss) # 0
    BY <1>2, EmptySeq
  <2>2. \E g : Gathers(g, ss, Len(ss))
    BY <2>1, GathersExists
  <2> DEFINE g == CHOOSE g : g = [i \in 1 .. Len(ss) |-> IF i = 1 THEN ss[i] ELSE g[i - 1] \o ss[i]]
  <2>3. Gathers(g, ss, Len(ss))
    BY <2>2 DEF Gathers
  <2>4. FlattenSeq(ss) = g[Len(ss)]
    BY <2>1 DEF FlattenSeq
  <2> HIDE DEF g
  <2>5. Gathered(g, ss, Len(ss))
    BY <2>1, <2>3, GathersOne
  <2> QED BY <1>2, <2>4, <2>5
<1> QED BY <1>1, <1>2

\* What holds of nothing and of every further piece put behind holds of all.
LEMMA FlattenIn ==
    ASSUME NEW T, NEW ss \in Seq(Seq(T)), NEW Q, <<>> \in Q[0],
           \A i \in 1 .. Len(ss) : Q[i - 1] \subseteq Seq(T),
           \A i \in 1 .. Len(ss) : \A x \in Q[i - 1] : x \o ss[i] \in Q[i]
    PROVE  FlattenSeq(ss) \in Q[Len(ss)]
<1> DEFINE n == Len(ss)
<1>0. n \in Nat
  OBVIOUS
<1>1. CASE ss = <<>>
  <2>1. n = 0
    BY <1>1
  <2>2. FlattenSeq(ss) = <<>>
    BY <1>1, Flattened
  <2> QED BY <2>1, <2>2
<1>2. CASE ss # <<>>
  <2>1. n >= 1
    BY <1>2, <1>0, EmptySeq
  <2>2. PICK g : Gathered(g, ss, n) /\ FlattenSeq(ss) = g[n]
    BY <1>2, Flattened
  <2>3. \A k \in 1 .. n : g[k] = IF k = 1 THEN ss[k] ELSE g[k - 1] \o ss[k]
    BY <2>2 DEF Gathered
  <2> DEFINE S == {i \in Nat : i \in 1 .. n => g[i] \in Q[i]}
  <2>4. 0 \in S
    OBVIOUS
  <2>5. ASSUME NEW i \in Nat, i \in S
        PROVE  i + 1 \in S
    <3> SUFFICES ASSUME i + 1 \in 1 .. n
                 PROVE  g[i + 1] \in Q[i + 1]
      OBVIOUS
    <3>1. (i + 1) - 1 = i
      OBVIOUS
    <3>2. ss[i + 1] \in Seq(T)
      OBVIOUS
    <3>3. \A x \in Q[i] : x \o ss[i + 1] \in Q[i + 1]
      BY <3>1
    <3>4. CASE i = 0
      <4>1. i + 1 = 1
        BY <3>4
      <4>2. g[i + 1] = ss[i + 1]
        BY <2>3, <4>1
      <4>3. <<>> \o ss[i + 1] = ss[i + 1]
        BY <3>2
      <4>4. <<>> \in Q[i]
        BY <3>4
      <4> QED BY <3>3, <4>2, <4>3, <4>4
    <3>5. CASE i # 0
      <4>1. i + 1 # 1 /\ i \in 1 .. n
        BY <3>5
      <4>2. g[i + 1] = g[i] \o ss[i + 1]
        BY <2>3, <3>1, <4>1
      <4>3. g[i] \in Q[i]
        BY <2>5, <4>1
      <4> QED BY <3>3, <4>2, <4>3
    <3> QED BY <3>4, <3>5
  <2> HIDE DEF S
  <2>6. n \in S
    BY <1>0, <2>4, <2>5, SetInduction
  <2>7. n \in 1 .. n
    BY <1>0, <2>1
  <2>8. g[n] \in Q[n]
    BY <2>6, <2>7 DEF S
  <2> QED BY <2>2, <2>8
<1> QED BY <1>1, <1>2

\* The type of what is flattened.
LEMMA FlattenTyped ==
    ASSUME NEW T, NEW ss \in Seq(Seq(T))
    PROVE  FlattenSeq(ss) \in Seq(T)
<1> DEFINE Q == [i \in 0 .. Len(ss) |-> Seq(T)]
<1>1. \A i \in 0 .. Len(ss) : Q[i] = Seq(T)
  OBVIOUS
<1>2. Len(ss) \in Nat
  OBVIOUS
<1>3. Q[0] = Seq(T) /\ Q[Len(ss)] = Seq(T)
  BY <1>2
<1>4. ASSUME NEW i \in 1 .. Len(ss) PROVE Q[i - 1] = Seq(T) /\ Q[i] = Seq(T) /\ ss[i] \in Seq(T)
  <2>1. i - 1 \in 0 .. Len(ss) /\ i \in 0 .. Len(ss)
    BY <1>2
  <2> QED BY <1>1, <2>1
<1> HIDE DEF Q
<1>5. \A i \in 1 .. Len(ss) : Q[i - 1] \subseteq Seq(T)
  BY <1>4
<1>6. ASSUME NEW i \in 1 .. Len(ss), NEW x \in Q[i - 1] PROVE x \o ss[i] \in Q[i]
  <2>1. x \in Seq(T) /\ ss[i] \in Seq(T) /\ Q[i] = Seq(T)
    BY <1>4
  <2>2. x \o ss[i] \in Seq(T)
    BY <2>1, Joined
  <2> QED BY <2>1, <2>2
<1>7. <<>> \in Q[0]
  BY <1>3
<1>8. FlattenSeq(ss) \in Q[Len(ss)]
  BY <1>5, <1>6, <1>7, FlattenIn
<1> QED BY <1>3, <1>8

-----------------------------------------------------------------------------
(* Strings. *)

\* What one byte is mended to.
Piece(c) == IF c = Bad THEN Repl ELSE <<c>>
Pieces(b) == [i \in DOMAIN b |-> IF b[i] = Bad THEN Repl ELSE <<b[i]>>]

\* All of a sequence is a slice of it.
LEMMA WholeSeq ==
    ASSUME NEW S, NEW b \in Seq(S)
    PROVE  SubSeq(b, 1, Len(b)) = b
<1> DEFINE c == SubSeq(b, 1, Len(b))
<1>0. Len(b) \in Nat /\ Len(b) \in 0 .. Len(b)
  OBVIOUS
<1>1. /\ c \in Seq(S) /\ Len(c) = IF 1 <= Len(b) THEN Len(b) - 1 + 1 ELSE 0
      /\ \A i \in 1 .. Len(b) - 1 + 1 : c[i] = b[1 + i - 1]
  BY <1>0, Slice
<1> HIDE DEF c
<1>2. Len(c) = Len(b)
  BY <1>0, <1>1
<1>3. ASSUME NEW i \in 1 .. Len(c) PROVE c[i] = b[i]
  <2>1. i \in 1 .. Len(b) - 1 + 1 /\ 1 + i - 1 = i
    BY <1>0, <1>2
  <2> QED BY <1>1, <2>1
<1>4. c = b
  BY <1>1, <1>2, <1>3, SeqEqual
<1> QED BY <1>4 DEF c

\* A slice and the element behind it.
LEMMA Grown ==
    ASSUME NEW S, NEW b \in Seq(S), NEW i \in 1 .. Len(b)
    PROVE  SubSeq(b, 1, i - 1) \o <<b[i]>> = SubSeq(b, 1, i)
<1> DEFINE c == SubSeq(b, 1, i - 1)
           d == SubSeq(b, 1, i)
           t == <<b[i]>>
           e == c \o t
<1>0. Len(b) \in Nat /\ i - 1 \in 0 .. Len(b) /\ i \in 0 .. Len(b) /\ i - 1 \in Nat /\ i \in Nat
  OBVIOUS
<1>1. /\ c \in Seq(S) /\ Len(c) = IF 1 <= i - 1 THEN (i - 1) - 1 + 1 ELSE 0
      /\ \A k \in 1 .. (i - 1) - 1 + 1 : c[k] = b[1 + k - 1]
  BY <1>0, Slice
<1>2. /\ d \in Seq(S) /\ Len(d) = IF 1 <= i THEN i - 1 + 1 ELSE 0
      /\ \A k \in 1 .. i - 1 + 1 : d[k] = b[1 + k - 1]
  BY <1>0, Slice
<1>3. t \in Seq(S) /\ Len(t) = 1 /\ t[1] = b[i]
  OBVIOUS
<1> HIDE DEF c, d, t
<1>4. Len(c) = i - 1 /\ Len(d) = i
  BY <1>0, <1>1, <1>2
<1>5. /\ e \in Seq(S) /\ Len(e) = Len(c) + Len(t)
      /\ \A k \in 1 .. Len(c) : e[k] = c[k]
      /\ \A k \in 1 .. Len(t) : e[Len(c) + k] = t[k]
  <2>1. c \in Seq(S) /\ t \in Seq(S)
    BY <1>1, <1>3
  <2> QED BY <2>1, Joined
<1> HIDE DEF e
<1>6. Len(e) = i
  BY <1>0, <1>3, <1>4, <1>5
<1>7. ASSUME NEW k \in 1 .. Len(e) PROVE e[k] = d[k]
  <2>0. k \in 1 .. i - 1 + 1 /\ 1 + k - 1 = k
    BY <1>0, <1>6
  <2>1. d[k] = b[k]
    BY <1>2, <2>0
  <2>2. CASE k < i
    <3>1. k \in 1 .. Len(c) /\ k \in 1 .. (i - 1) - 1 + 1
      BY <1>0, <1>4, <2>0, <2>2
    <3> QED BY <1>1, <1>5, <2>0, <2>1, <3>1
  <2>3. CASE k = i
    <3>1. k = Len(c) + 1 /\ 1 \in 1 .. Len(t)
      BY <1>0, <1>3, <1>4, <2>3
    <3>2. e[Len(c) + 1] = t[1]
      BY <1>5, <3>1
    <3> QED BY <1>3, <2>1, <2>3, <3>1, <3>2
  <2> QED BY <1>0, <2>0, <2>2, <2>3
<1>8. e = d
  BY <1>2, <1>4, <1>5, <1>6, <1>7, SeqEqual
<1> QED BY <1>8 DEF e, d, c, t

\* A mended byte is a string, no longer than the replacement.
LEMMA PieceTyped ==
    ASSUME NEW c \in Byte
    PROVE  /\ Piece(c) \in String
           /\ Len(Piece(c)) \in Nat /\ Len(Piece(c)) <= Len(Repl)
           /\ c # Bad => Piece(c) = <<c>>
<1>1. Repl \in String /\ Repl # <<>> /\ Len(Repl) \in Nat
  BY FrameAssumption DEF String
<1>2. Len(Repl) >= 1
  BY <1>1, EmptySeq DEF String
<1>3. CASE c = Bad
  BY <1>1, <1>3 DEF Piece
<1>4. CASE c # Bad
  <2>1. Piece(c) = <<c>>
    BY <1>4 DEF Piece
  <2>2. <<c>> \in String /\ Len(<<c>>) = 1
    BY <1>4 DEF String
  <2> QED BY <1>1, <1>2, <1>4, <2>1, <2>2
<1> QED BY <1>3, <1>4

(* What is mended is UTF-8, and longer by a factor of Repl at most; UTF-8 is  *)
(* left alone (frame.rs:186-188).                                        *)
THEOREM MendingIsBounded ==
    ASSUME NEW b \in Seq(Byte)
    PROVE  /\ Lossy(b) \in String
           /\ Len(Lossy(b)) <= Len(Repl) * Len(b)
           /\ b \in String => Lossy(b) = b
<1> DEFINE ss == Pieces(b)
           n == Len(b)
           R == Len(Repl)
<1>0. n \in Nat /\ DOMAIN b = 1 .. n /\ R \in Nat
  BY FrameAssumption
<1>1. ss = [i \in 1 .. n |-> Piece(b[i])]
  BY <1>0 DEF Pieces, Piece
<1>2. ASSUME NEW i \in 1 .. n
      PROVE  /\ ss[i] = Piece(b[i]) /\ ss[i] \in String /\ Len(ss[i]) \in Nat
             /\ Len(ss[i]) <= R
             /\ b[i] # Bad => ss[i] = <<b[i]>>
  <2>1. b[i] \in Byte
    OBVIOUS
  <2>2. ss[i] = Piece(b[i])
    BY <1>1
  <2> QED BY <2>1, <2>2, PieceTyped
<1> HIDE DEF ss
<1>3. ss \in Seq(String) /\ Len(ss) = n
  BY <1>0, <1>1, <1>2
<1>4. Lossy(b) = FlattenSeq(ss)
  BY DEF Lossy, ss, Pieces
<1> DEFINE T == Byte \ {Bad}
           Q == [i \in 0 .. n |-> {s \in Seq(T) : Len(s) <= R * i /\ (b \in Seq(T) => s = SubSeq(b, 1, i))}]
<1> HIDE DEF T, R
<1>5. ss \in Seq(Seq(T))
  BY <1>3 DEF String, T
<1>6. ASSUME NEW i \in 0 .. n, NEW s
      PROVE  s \in Q[i] <=> s \in Seq(T) /\ Len(s) <= R * i /\ (b \in Seq(T) => s = SubSeq(b, 1, i))
  <2>1. Q[i] = {x \in Seq(T) : Len(x) <= R * i /\ (b \in Seq(T) => x = SubSeq(b, 1, i))}
    OBVIOUS
  <2> HIDE DEF Q
  <2> QED BY <2>1
<1> HIDE DEF Q
<1>7. <<>> \in Q[0]
  <2>1. 0 \in 0 .. n
    BY <1>0
  <2>2. R * 0 = 0 /\ Len(<<>>) = 0 /\ <<>> \in Seq(T)
    BY <1>0
  <2>3. SubSeq(b, 1, 0) = <<>>
    BY EmptySeq, Slice
  <2>4. Len(<<>>) <= R * 0
    BY <2>2
  <2>5. <<>> \in Q[0] <=> <<>> \in Seq(T) /\ Len(<<>>) <= R * 0 /\ (b \in Seq(T) => <<>> = SubSeq(b, 1, 0))
    BY <1>6, <2>1
  <2> QED BY <2>2, <2>3, <2>4, <2>5
<1>8. \A i \in 1 .. n : Q[i - 1] \subseteq Seq(T)
  <2>1. ASSUME NEW i \in 1 .. n, NEW s \in Q[i - 1] PROVE s \in Seq(T)
    <3>1. i - 1 \in 0 .. n
      BY <1>0
    <3> QED BY <1>6, <3>1
  <2> QED BY <2>1
<1>9. ASSUME NEW i \in 1 .. n, NEW x \in Q[i - 1]
      PROVE  x \o ss[i] \in Q[i]
  <2>1. i - 1 \in 0 .. n /\ i \in 0 .. n /\ i \in Nat
    BY <1>0
  <2>2. x \in Seq(T) /\ Len(x) <= R * (i - 1) /\ (b \in Seq(T) => x = SubSeq(b, 1, i - 1))
    BY <1>6, <2>1
  <2>3. ss[i] \in Seq(T) /\ Len(ss[i]) \in Nat /\ Len(ss[i]) <= R
    BY <1>2 DEF T, String
  <2>4. x \o ss[i] \in Seq(T) /\ Len(x \o ss[i]) = Len(x) + Len(ss[i])
    BY <2>2, <2>3, Joined
  <2>5. Len(x \o ss[i]) <= R * i
    <3>1. R * i = R * (i - 1) + R /\ R * (i - 1) \in Nat /\ R * i \in Nat
      BY <1>0, <2>1
    <3>2. Len(x) \in Nat
      BY <2>2
    <3> DEFINE lx == Len(x)
               ly == Len(ss[i])
               u == R * (i - 1)
               v == R * i
    <3>3. lx \in Nat /\ ly \in Nat /\ lx <= u /\ ly <= R /\ v = u + R /\ u \in Nat /\ v \in Nat
      BY <2>2, <2>3, <3>1, <3>2
    <3>4. Len(x \o ss[i]) = lx + ly
      BY <2>4
    <3> HIDE DEF lx, ly, u, v
    <3>5. lx + ly <= v
      BY <1>0, <3>3
    <3> QED BY <3>4, <3>5 DEF v
  <2>6. ASSUME b \in Seq(T)
        PROVE  x \o ss[i] = SubSeq(b, 1, i)
    <3>1. b[i] \in T
      BY <2>6
    <3>2. ss[i] = <<b[i]>>
      <4>1. b[i] # Bad
        BY <3>1 DEF T
      <4> QED BY <1>2, <4>1
    <3>3. x = SubSeq(b, 1, i - 1)
      BY <2>2, <2>6
    <3> QED BY <2>6, <3>2, <3>3, Grown
  <2> QED BY <1>6, <2>1, <2>4, <2>5, <2>6
<1>10. FlattenSeq(ss) \in Q[n]
  BY <1>3, <1>5, <1>7, <1>8, <1>9, FlattenIn
<1>11. n \in 0 .. n /\ SubSeq(b, 1, n) = b
  BY <1>0, WholeSeq
<1>12. /\ FlattenSeq(ss) \in Seq(T) /\ Len(FlattenSeq(ss)) <= R * n
       /\ b \in Seq(T) => FlattenSeq(ss) = b
  BY <1>6, <1>10, <1>11
<1> QED BY <1>4, <1>12 DEF String, T, R

-----------------------------------------------------------------------------
(* Cursors. *)

\* What TakeBytes takes.
LEMMA Bytes ==
    ASSUME NEW b \in Seq(Byte), NEW n \in Nat
    PROVE  /\ n > Len(b) => TakeBytes(b, n) = Error
           /\ n <= Len(b) => /\ TakeBytes(b, n) = Got(SubSeq(b, 1, n), SubSeq(b, n + 1, Len(b)))
                             /\ SubSeq(b, 1, n) \in Seq(Byte) /\ Len(SubSeq(b, 1, n)) = n
                             /\ SubSeq(b, n + 1, Len(b)) \in Seq(Byte)
                             /\ Len(SubSeq(b, n + 1, Len(b))) = Len(b) - n
<1>0. Len(b) \in Nat /\ Len(b) \in 0 .. Len(b)
  OBVIOUS
<1>1. ASSUME n > Len(b) PROVE TakeBytes(b, n) = Error
  BY <1>1 DEF TakeBytes
<1>2. ASSUME n <= Len(b)
      PROVE  /\ TakeBytes(b, n) = Got(SubSeq(b, 1, n), SubSeq(b, n + 1, Len(b)))
             /\ SubSeq(b, 1, n) \in Seq(Byte) /\ Len(SubSeq(b, 1, n)) = n
             /\ SubSeq(b, n + 1, Len(b)) \in Seq(Byte)
             /\ Len(SubSeq(b, n + 1, Len(b))) = Len(b) - n
  <2>1. TakeBytes(b, n) = Got(SubSeq(b, 1, n), SubSeq(b, n + 1, Len(b)))
    BY <1>0, <1>2 DEF TakeBytes
  <2>2. /\ SubSeq(b, 1, n) \in Seq(Byte)
        /\ Len(SubSeq(b, 1, n)) = IF 1 <= n THEN n - 1 + 1 ELSE 0
    <3>1. n \in 0 .. Len(b)
      BY <1>0, <1>2
    <3> QED BY <3>1, Slice
  <2>3. /\ SubSeq(b, n + 1, Len(b)) \in Seq(Byte)
        /\ Len(SubSeq(b, n + 1, Len(b))) = IF n + 1 <= Len(b) THEN Len(b) - (n + 1) + 1 ELSE 0
    <3>1. n + 1 \in Nat \ {0}
      OBVIOUS
    <3> QED BY <1>0, <3>1, Slice
  <2>4. (IF 1 <= n THEN n - 1 + 1 ELSE 0) = n
    OBVIOUS
  <2>5. (IF n + 1 <= Len(b) THEN Len(b) - (n + 1) + 1 ELSE 0) = Len(b) - n
    BY <1>0, <1>2
  <2> QED BY <2>1, <2>2, <2>3, <2>4, <2>5
<1> QED BY <1>1, <1>2

\* A cursor takes the bytes it stands before.
LEMMA BytesOf ==
    ASSUME NEW s \in Seq(Byte), NEW r \in Seq(Byte)
    PROVE  TakeBytes(s \o r, Len(s)) = Got(s, r)
<1> DEFINE b == s \o r
           n == Len(s)
<1>1. /\ b \in Seq(Byte) /\ Len(b) = n + Len(r) /\ At(b, 0, s) /\ At(b, n, r)
      /\ n \in Nat /\ Len(r) \in Nat
  BY Glued
<1> HIDE DEF b
<1>2. TakeBytes(b, n) = Got(SubSeq(b, 1, n), SubSeq(b, n + 1, Len(b)))
  <2>1. n <= Len(b)
    BY <1>1
  <2> QED BY <1>1, <2>1, Bytes
<1>3. SubSeq(b, 1, n) = s
  <2>1. SubSeq(b, 0 + 1, 0 + Len(s)) = s
    BY <1>1, CutOut
  <2>2. 0 + 1 = 1 /\ 0 + Len(s) = n
    BY <1>1
  <2> QED BY <2>1, <2>2
<1>4. SubSeq(b, n + 1, Len(b)) = r
  <2>1. SubSeq(b, n + 1, n + Len(r)) = r
    BY <1>1, CutOut
  <2> QED BY <1>1, <2>1
<1> QED BY <1>2, <1>3, <1>4 DEF b

\* What the bytes of b may be worth when every one of them is mended.
Worth(b) == Len(Repl) * Len(b)

\* w costs no more than the bytes from b to r.
Fits(w, b, r) == Len(w) + Worth(r) <= Worth(b)

\* A stream is worth its length or more.
LEMMA Worths ==
    ASSUME NEW b \in Seq(Byte)
    PROVE  Worth(b) \in Nat /\ Len(b) <= Worth(b)
<1>1. Len(Repl) \in Nat /\ Len(Repl) >= 1 /\ Len(b) \in Nat
  <2>1. Repl \in Seq(Byte \ {Bad}) /\ Repl # <<>>
    BY FrameAssumption
  <2>2. Len(Repl) \in Nat /\ Len(Repl) # 0
    BY <2>1, EmptySeq
  <2> QED BY <2>2
<1> DEFINE R == Len(Repl)
           n == Len(b)
<1>2. R \in Nat /\ R >= 1 /\ n \in Nat
  BY <1>1
<1> HIDE DEF R, n
<1>3. R * n \in Nat /\ n <= R * n
  <2>1. n * 1 <= n * R
    BY <1>2, Scaled
  <2>2. n * 1 = n /\ n * R = R * n /\ R * n \in Nat
    BY <1>2
  <2> QED BY <2>1, <2>2
<1> QED BY <1>3 DEF Worth, R, n

\* Counts and lengths are mended to nothing longer, and strings to what Repl tells.
LEMMA WorthOf ==
    ASSUME NEW b \in Seq(Byte), NEW r \in Seq(Byte), NEW m \in Nat, NEW n \in Nat, NEW k \in Nat,
           Len(b) = m + n + Len(r), k <= Len(Repl) * n
    PROVE  m + k + Worth(r) <= Worth(b)
<1> DEFINE R == Len(Repl)
           l == Len(r)
<1>1. R \in Nat /\ R >= 1 /\ l \in Nat
  <2>1. Repl \in Seq(Byte \ {Bad}) /\ Repl # <<>>
    BY FrameAssumption
  <2>2. Len(Repl) \in Nat /\ Len(Repl) # 0
    BY <2>1, EmptySeq
  <2> QED BY <2>2
<1>2. Len(b) = m + n + l /\ k <= R * n
  OBVIOUS
<1> HIDE DEF R, l
<1>3. R * (m + n + l) = R * m + R * n + R * l /\ R * m \in Nat /\ R * n \in Nat /\ R * l \in Nat
  BY <1>1
<1>4. m <= R * m
  <2>1. m * 1 <= m * R
    BY <1>1, Scaled
  <2>2. m * 1 = m /\ m * R = R * m
    BY <1>1
  <2> QED BY <2>1, <2>2
<1>5. m + k + R * l <= R * m + R * n + R * l
  BY <1>2, <1>3, <1>4
<1>6. m + k + R * l <= R * Len(b)
  BY <1>2, <1>3, <1>5
<1> QED BY <1>6 DEF Worth, R, l

\* Costs add up.
LEMMA FitsBoth ==
    ASSUME NEW b \in Seq(Byte), NEW r \in Seq(Byte), NEW q \in Seq(Byte),
           NEW v \in Seq(Byte), NEW w \in Seq(Byte), Fits(v, b, r), Fits(w, r, q)
    PROVE  Fits(v \o w, b, q)
<1>1. /\ Worth(b) \in Nat /\ Worth(r) \in Nat /\ Worth(q) \in Nat
      /\ Len(v) \in Nat /\ Len(w) \in Nat
  BY Worths
<1>2. Len(v \o w) = Len(v) + Len(w)
  OBVIOUS
<1> QED BY <1>1, <1>2 DEF Fits

\* A string is written with a length before it.
LEMMA PutStrTyped ==
    ASSUME NEW s \in Seq(Byte)
    PROVE  PutStr(s) \in Seq(Byte) /\ Len(PutStr(s)) = 2 + Len(s)
<1> DEFINE t == LE16(Len(s))
<1>1. Len(s) \in Nat /\ t \in Seq(Byte) /\ Len(t) = 2
  BY Writes16
<1> HIDE DEF t
<1>2. t \o s \in Seq(Byte) /\ Len(t \o s) = Len(t) + Len(s)
  BY <1>1, Joined
<1> QED BY <1>1, <1>2 DEF PutStr, t

\* What is taken of two bytes.
LEMMA U16Typed ==
    ASSUME NEW b \in Seq(Byte)
    PROVE  \/ TakeU16(b) = Error
           \/ /\ TakeU16(b) = Got(TakeU16(b).value, TakeU16(b).rest) /\ TakeU16(b) # Error
              /\ TakeU16(b).value \in 0 .. U16 - 1 /\ TakeU16(b).value \in Nat
              /\ TakeU16(b).rest \in Seq(Byte)
              /\ Len(b) = 2 + Len(TakeU16(b).rest)
<1>0. Len(b) \in Nat
  OBVIOUS
<1>1. CASE 2 > Len(b)
  <2>1. TakeBytes(b, 2) = Error
    BY <1>1, Bytes
  <2> QED BY <2>1 DEF TakeU16, Then
<1>2. CASE 2 <= Len(b)
  <2> DEFINE s == SubSeq(b, 1, 2)
             r == SubSeq(b, 2 + 1, Len(b))
             n == Value16(s, 1)
  <2>1. /\ TakeBytes(b, 2) = Got(s, r)
        /\ s \in Seq(Byte) /\ Len(s) = 2 /\ r \in Seq(Byte) /\ Len(r) = Len(b) - 2
    BY <1>2, Bytes
  <2> HIDE DEF s, r
  <2>2. n \in 0 .. U16 - 1 /\ n \in Nat
    <3>1. n \in 0 .. U16 - 1
      <4>1. 1 \in 1 .. Len(s) /\ 1 + 1 <= Len(s)
        BY <2>1
      <4> QED BY <2>1, <4>1, Reads16
    <3>2. U16 \in Nat
      BY Sizes
    <3> HIDE DEF n
    <3> QED BY <3>1, <3>2
  <2>3. TakeU16(b) = Got(n, r)
    <3>1. TakeBytes(b, 2) # Error /\ TakeBytes(b, 2).value = s /\ TakeBytes(b, 2).rest = r
      BY <2>1, NoResult
    <3> QED BY <3>1 DEF TakeU16, Then
  <2> HIDE DEF n
  <2>4. TakeU16(b) # Error /\ TakeU16(b).value = n /\ TakeU16(b).rest = r
    BY <2>3, NoResult
  <2>5. Len(b) = 2 + Len(r)
    BY <1>0, <2>1
  <2> QED BY <2>1, <2>2, <2>3, <2>4, <2>5
<1> QED BY <1>0, <1>1, <1>2

\* A number of 16 bits comes back.
LEMMA U16Of ==
    ASSUME NEW n \in Nat, n < U16, NEW r \in Seq(Byte)
    PROVE  TakeU16(LE16(n) \o r) = Got(n, r)
<1> DEFINE t == LE16(n)
<1>1. t \in Seq(Byte) /\ Len(t) = 2 /\ Value16(t, 1) = n
  <2>1. n % U16 = n
    BY Below
  <2> QED BY <2>1, Writes16
<1> HIDE DEF t
<1>2. TakeBytes(t \o r, 2) = Got(t, r)
  BY <1>1, BytesOf
<1>3. TakeBytes(t \o r, 2) # Error /\ TakeBytes(t \o r, 2).value = t /\ TakeBytes(t \o r, 2).rest = r
  BY <1>2, NoResult
<1>4. TakeU16(t \o r) = Got(n, r)
  BY <1>1, <1>3 DEF TakeU16, Then
<1> QED BY <1>4 DEF t

\* A string that is taken costs no more than its bytes.
LEMMA StrTyped ==
    ASSUME NEW b \in Seq(Byte)
    PROVE  \/ TakeStr(b) = Error
           \/ \E s \in String, r \in Seq(Byte) :
                 TakeStr(b) = Got(s, r) /\ Fits(PutStr(s), b, r)
<1>1. CASE TakeU16(b) = Error
  BY <1>1 DEF TakeStr, Then
<1>2. CASE TakeU16(b) # Error
  <2> DEFINE n == TakeU16(b).value
             u == TakeU16(b).rest
             c == TakeBytes(u, n)
  <2>1. n \in Nat /\ u \in Seq(Byte) /\ Len(b) = 2 + Len(u) /\ Len(u) \in Nat
    <3>1. n \in Nat /\ u \in Seq(Byte) /\ Len(b) = 2 + Len(u)
      BY <1>2, U16Typed
    <3> QED BY <3>1
  <2>2. TakeStr(b) = IF c = Error THEN Error ELSE Got(Lossy(c.value), c.rest)
    BY <1>2 DEF TakeStr, Then
  <2> HIDE DEF n, u
  <2>3. CASE n > Len(u)
    <3>1. c = Error
      BY <2>1, <2>3, Bytes
    <3> QED BY <2>2, <3>1
  <2>4. CASE n <= Len(u)
    <3> DEFINE s == SubSeq(u, 1, n)
               r == SubSeq(u, n + 1, Len(u))
               m == Lossy(s)
    <3>1. /\ c = Got(s, r)
          /\ s \in Seq(Byte) /\ Len(s) = n /\ r \in Seq(Byte) /\ Len(r) = Len(u) - n
      BY <2>1, <2>4, Bytes
    <3> HIDE DEF s, r
    <3>2. m \in String /\ Len(m) <= Len(Repl) * n
      BY <3>1, MendingIsBounded
    <3>3. TakeStr(b) = Got(m, r)
      <4>1. c # Error /\ c.value = s /\ c.rest = r
        BY <3>1, NoResult
      <4> QED BY <2>2, <4>1
    <3> HIDE DEF m
    <3>4. m \in Seq(Byte) /\ Len(m) \in Nat
      BY <3>2 DEF String
    <3>5. Len(PutStr(m)) = 2 + Len(m)
      BY <3>4, PutStrTyped
    <3>6. Len(b) = 2 + n + Len(r)
      <4>1. Len(r) \in Nat
        BY <3>1
      <4> QED BY <2>1, <3>1, <4>1
    <3>7. 2 + Len(m) + Worth(r) <= Worth(b)
      BY <2>1, <3>1, <3>2, <3>4, <3>6, WorthOf
    <3>8. Fits(PutStr(m), b, r)
      BY <3>5, <3>7 DEF Fits
    <3> QED BY <3>1, <3>2, <3>3, <3>8
  <2> QED BY <2>1, <2>3, <2>4
<1> QED BY <1>1, <1>2

\* A string whose length fits comes back.
LEMMA StrOf ==
    ASSUME NEW s \in String, Short(s), NEW r \in Seq(Byte)
    PROVE  TakeStr(PutStr(s) \o r) = Got(s, r)
<1> DEFINE n == Len(s)
           b == PutStr(s) \o r
           t == LE16(n)
<1>1. s \in Seq(Byte) /\ n \in Nat /\ n < U16
  BY DEF String, Short
<1>2. t \in Seq(Byte)
  BY <1>1, Writes16
<1>3. b = t \o (s \o r)
  <2> HIDE DEF t
  <2>1. PutStr(s) = t \o s
    BY DEF PutStr, t
  <2> QED BY <1>1, <1>2, <2>1, ConcatAssociative
<1>4. s \o r \in Seq(Byte)
  BY <1>1
<1>5. TakeU16(b) = Got(n, s \o r)
  <2> HIDE DEF n
  <2>1. TakeU16(LE16(n) \o (s \o r)) = Got(n, s \o r)
    BY <1>1, <1>4, U16Of
  <2> QED BY <1>3, <2>1
<1> HIDE DEF b, t
<1>6. TakeU16(b) # Error /\ TakeU16(b).value = n /\ TakeU16(b).rest = s \o r
  <2> DEFINE w == s \o r
  <2>1. TakeU16(b) = Got(n, w)
    BY <1>5
  <2> HIDE DEF n, w
  <2>2. TakeU16(b) # Error /\ TakeU16(b).value = n /\ TakeU16(b).rest = w
    BY <2>1, NoResult
  <2> QED BY <2>2 DEF w
<1> DEFINE c == TakeBytes(s \o r, n)
<1>7. c = Got(s, r)
  BY <1>1, BytesOf
<1>8. TakeStr(b) = IF c = Error THEN Error ELSE Got(Lossy(c.value), c.rest)
  BY <1>6 DEF TakeStr, Then
<1> HIDE DEF c
<1>9. c # Error /\ c.value = s /\ c.rest = r
  BY <1>7, NoResult
<1>10. Lossy(s) = s
  <2>1. s \in String => Lossy(s) = s
    BY <1>1, MendingIsBounded
  <2> QED BY <2>1
<1>11. TakeStr(b) = Got(s, r)
  BY <1>8, <1>9, <1>10
<1> QED BY <1>11 DEF b

\* So with a pair.
LEMMA PairTyped ==
    ASSUME NEW b \in Seq(Byte)
    PROVE  \/ TakePair(b) = Error
           \/ \E p \in String \X String, r \in Seq(Byte) :
                 TakePair(b) = Got(p, r) /\ Fits(PutPair(p), b, r)
<1>1. CASE TakeStr(b) = Error
  BY <1>1 DEF TakePair, Then
<1>2. CASE TakeStr(b) # Error
  <2>1. PICK k \in String, r \in Seq(Byte) : TakeStr(b) = Got(k, r) /\ Fits(PutStr(k), b, r)
    BY <1>2, StrTyped
  <2>2. TakeStr(b).value = k /\ TakeStr(b).rest = r
    BY <2>1, NoResult
  <2>3. TakePair(b) = IF TakeStr(r) = Error THEN Error
                      ELSE Got(<<k, TakeStr(r).value>>, TakeStr(r).rest)
    BY <1>2, <2>2 DEF TakePair, Then
  <2>4. CASE TakeStr(r) = Error
    BY <2>3, <2>4
  <2>5. CASE TakeStr(r) # Error
    <3>1. PICK v \in String, q \in Seq(Byte) : TakeStr(r) = Got(v, q) /\ Fits(PutStr(v), r, q)
      BY <2>5, StrTyped
    <3>2. TakeStr(r).value = v /\ TakeStr(r).rest = q
      BY <3>1, NoResult
    <3>3. TakePair(b) = Got(<<k, v>>, q)
      BY <2>3, <2>5, <3>2
    <3>4. Fits(PutPair(<<k, v>>), b, q)
      <4>1. k \in Seq(Byte) /\ v \in Seq(Byte)
        BY DEF String
      <4>2. PutStr(k) \in Seq(Byte) /\ PutStr(v) \in Seq(Byte)
        BY <4>1, PutStrTyped
      <4>3. Fits(PutStr(k) \o PutStr(v), b, q)
        BY <2>1, <3>1, <4>2, FitsBoth
      <4> QED BY <4>3 DEF PutPair
    <3>5. <<k, v>> \in String \X String
      OBVIOUS
    <3> QED BY <3>3, <3>4, <3>5
  <2> QED BY <2>4, <2>5
<1> QED BY <1>1, <1>2

\* A pair whose strings fit comes back.
LEMMA PairOf ==
    ASSUME NEW p \in String \X String, Short(p[1]), Short(p[2]), NEW r \in Seq(Byte)
    PROVE  TakePair(PutPair(p) \o r) = Got(p, r)
<1> DEFINE k == p[1]
           v == p[2]
           x == PutStr(k)
           y == PutStr(v)
           b == PutPair(p) \o r
<1>1. k \in String /\ v \in String /\ p = <<k, v>> /\ Short(k) /\ Short(v)
  OBVIOUS
<1>2. x \in Seq(Byte) /\ y \in Seq(Byte)
  <2>1. k \in Seq(Byte) /\ v \in Seq(Byte)
    BY <1>1 DEF String
  <2> HIDE DEF k, v
  <2> QED BY <2>1, PutStrTyped
<1>3. PutPair(p) = x \o y
  BY DEF PutPair
<1> HIDE DEF k, v
<1>4. TakeStr(x \o (y \o r)) = Got(k, y \o r)
  <2>1. y \o r \in Seq(Byte)
    BY <1>2, Joined
  <2> QED BY <1>1, <2>1, StrOf
<1>5. TakeStr(y \o r) = Got(v, r)
  BY <1>1, StrOf
<1> HIDE DEF x, y
<1>6. b = x \o (y \o r)
  BY <1>2, <1>3, ConcatAssociative
<1> HIDE DEF b
<1> DEFINE w == y \o r
<1>7. TakeStr(b) = Got(k, w) /\ TakeStr(w) = Got(v, r)
  BY <1>4, <1>5, <1>6
<1> HIDE DEF w
<1>8. /\ TakeStr(b) # Error /\ TakeStr(b).value = k /\ TakeStr(b).rest = w
      /\ TakeStr(w) # Error /\ TakeStr(w).value = v /\ TakeStr(w).rest = r
  BY <1>7, NoResult
<1>9. TakePair(b) = Got(<<k, v>>, r)
  BY <1>8 DEF TakePair, Then
<1> QED BY <1>1, <1>9 DEF b

-----------------------------------------------------------------------------
(* Lists. *)

\* One step of a list: T on what the cursor c left.
Advance(T, c) == IF c = Error THEN Error
                 ELSE IF T[c.rest] = Error THEN Error
                 ELSE Got(Append(c.value, T[c.rest].value), T[c.rest].rest)

\* n steps from c on, by recursion and by its equations.
Taken(g, T, c, n) == g = [k \in 0 .. n |-> IF k = 0 THEN c ELSE Advance(T, g[k - 1])]

Goes(g, T, c, n) == \A k \in 0 .. n : g[k] = IF k = 0 THEN c ELSE Advance(T, g[k - 1])

\* The recursion satisfies the equations.
LEMMA TakenSteps ==
    ASSUME NEW T, NEW c, NEW n \in Nat, NEW g, Taken(g, T, c, n)
    PROVE  Goes(g, T, c, n)
<1> DEFINE G == [k \in 0 .. n |-> IF k = 0 THEN c ELSE Advance(T, g[k - 1])]
<1>1. g = G
  BY DEF Taken
<1>2. \A k \in 0 .. n : G[k] = IF k = 0 THEN c ELSE Advance(T, g[k - 1])
  OBVIOUS
<1> HIDE DEF G
<1> QED BY <1>1, <1>2 DEF Goes

\* There is a function so defined.
LEMMA TakenExists ==
    ASSUME NEW T, NEW c, NEW m \in Nat
    PROVE  \E g : Taken(g, T, c, m)
<1> DEFINE S == {n \in Nat : \E g : Taken(g, T, c, n)}
<1>1. 0 \in S
  <2> DEFINE g == [k \in 0 .. 0 |-> c]
             G == [k \in 0 .. 0 |-> IF k = 0 THEN c ELSE Advance(T, g[k - 1])]
  <2>1. \A k \in 0 .. 0 : G[k] = c
    OBVIOUS
  <2>2. G = g
    <3>1. G = [k \in 0 .. 0 |-> G[k]]
      OBVIOUS
    <3> HIDE DEF G
    <3> QED BY <2>1, <3>1
  <2>3. Taken(g, T, c, 0)
    BY <2>2 DEF Taken
  <2> QED BY <2>3
<1>2. ASSUME NEW n \in Nat, n \in S
      PROVE  n + 1 \in S
  <2>1. PICK g : Taken(g, T, c, n)
    BY <1>2
  <2>2. \A k \in 0 .. n : g[k] = IF k = 0 THEN c ELSE Advance(T, g[k - 1])
    BY <2>1, TakenSteps DEF Goes
  <2> DEFINE h == [k \in 0 .. n + 1 |-> IF k \in 0 .. n THEN g[k] ELSE Advance(T, g[k - 1])]
             H == [k \in 0 .. n + 1 |-> IF k = 0 THEN c ELSE Advance(T, h[k - 1])]
  <2>3. ASSUME NEW k \in 0 .. n + 1
        PROVE  h[k] = H[k]
    <3>1. CASE k = 0
      <4>1. h[k] = g[k] /\ H[k] = c /\ k \in 0 .. n
        BY <3>1
      <4>2. g[k] = c
        BY <2>2, <3>1, <4>1
      <4> QED BY <4>1, <4>2
    <3>2. CASE k # 0
      <4>1. k - 1 \in 0 .. n /\ k - 1 \in 0 .. n + 1
        BY <3>2
      <4>2. h[k - 1] = g[k - 1]
        BY <4>1
      <4>3. h[k] = Advance(T, g[k - 1])
        <5>1. CASE k \in 0 .. n
          <6>1. h[k] = g[k]
            BY <5>1
          <6>2. g[k] = Advance(T, g[k - 1])
            BY <2>2, <3>2, <5>1
          <6> QED BY <6>1, <6>2
        <5>2. CASE ~(k \in 0 .. n)
          BY <5>2
        <5> QED BY <5>1, <5>2
      <4>4. H[k] = Advance(T, h[k - 1])
        BY <3>2
      <4> QED BY <4>2, <4>3, <4>4
    <3> QED BY <3>1, <3>2
  <2>4. h = H
    <3>1. h = [k \in 0 .. n + 1 |-> h[k]] /\ H = [k \in 0 .. n + 1 |-> H[k]]
      OBVIOUS
    <3> HIDE DEF h, H
    <3> QED BY <2>3, <3>1
  <2>5. Taken(h, T, c, n + 1)
    <3> HIDE DEF h
    <3> QED BY <2>4 DEF Taken
  <2> QED BY <2>5
<1> HIDE DEF S
<1>3. Nat \subseteq S
  BY <1>1, <1>2, SetInduction
<1>4. m \in S
  BY <1>3
<1> QED BY <1>4 DEF S

\* What T takes n times from b on comes to c.
TakesTo(T, b, n, c) == \E g : Goes(g, T, Got(<<>>, b), n) /\ c = g[n]

\* A parser gives up or leaves a stream behind it.
Parser(T) == \A b \in Seq(Byte) : \/ T[b] = Error
                                  \/ \E v, r : T[b] = Got(v, r) /\ r \in Seq(Byte)

\* One piece more.
LEMMA FlattenMore ==
    ASSUME NEW T, NEW ss \in Seq(Seq(T)), NEW x \in Seq(T)
    PROVE  FlattenSeq(Append(ss, x)) = FlattenSeq(ss) \o x
<1> DEFINE n == Len(ss)
           tt == Append(ss, x)
           m == n + 1
<1>1. /\ n \in Nat /\ m \in Nat /\ tt \in Seq(Seq(T)) /\ Len(tt) = m /\ tt # <<>>
      /\ \A i \in 1 .. n : ss[i] = tt[i]
      /\ tt[m] = x
  <2>1. n \in Nat /\ m \in Nat
    OBVIOUS
  <2> DEFINE U == Seq(T)
  <2>2. ss \in Seq(U) /\ x \in U
    OBVIOUS
  <2> HIDE DEF U
  <2>3. /\ tt \in Seq(U) /\ tt # <<>> /\ Len(tt) = Len(ss) + 1
        /\ \A i \in 1 .. Len(ss) : tt[i] = ss[i]
        /\ tt[Len(ss) + 1] = x
    BY <2>2, AppendProperties
  <2> HIDE DEF tt
  <2> QED BY <2>1, <2>3 DEF U
<1> HIDE DEF tt
<1>2. PICK h : Gathered(h, tt, m) /\ FlattenSeq(tt) = h[m]
  BY <1>1, Flattened
<1>3. \A k \in 1 .. m : h[k] = IF k = 1 THEN tt[k] ELSE h[k - 1] \o tt[k]
  BY <1>2 DEF Gathered
<1>4. CASE ss = <<>>
  <2>0. FlattenSeq(ss) = <<>>
    BY <1>4, Flattened
  <2>1. n = 0 /\ m = 1 /\ FlattenSeq(ss) = <<>>
    BY <1>4, <2>0
  <2>2. 1 \in 1 .. m
    BY <2>1
  <2>3. h[m] = x
    BY <1>1, <1>3, <2>1, <2>2
  <2>4. <<>> \o x = x
    OBVIOUS
  <2> QED BY <1>2, <2>1, <2>3, <2>4 DEF tt
<1>5. CASE ss # <<>>
  <2>1. n >= 1
    BY <1>1, <1>5, EmptySeq
  <2>2. PICK g : Gathered(g, ss, n) /\ FlattenSeq(ss) = g[n]
    BY <1>5, Flattened
  <2>4. m \in 1 .. m /\ m # 1 /\ m - 1 = n /\ n \in 1 .. n
    BY <1>1, <2>1
  <2> HIDE DEF n, m
  <2>5. h[m] = h[n] \o tt[m]
    BY <1>3, <2>4
  <2>6. g[n] = h[n]
    <3>1. n <= m
      BY <1>1, <2>4
    <3>2. Same(ss, tt, n)
      BY <1>1 DEF Same
    <3>3. n \in Nat /\ m \in Nat /\ n \in 1 .. n
      BY <1>1, <2>4
    <3> QED BY <1>2, <2>2, <3>1, <3>2, <3>3, GathersSame
  <2> QED BY <1>1, <1>2, <2>2, <2>5, <2>6 DEF tt
<1> QED BY <1>4, <1>5

\* The pieces before a rest, one after the other.
Chain(q, T, ss, n, x, r) == /\ q \in [0 .. n -> Seq(T)]
                            /\ q[0] = x \o r
                            /\ q[n] = r
                            /\ \A i \in 1 .. n : q[i - 1] = ss[i] \o q[i]

\* Concatenation is associative: as a predicate, to be used where the
\* sequences are long terms.
Associative(T) == \A x, y, s \in Seq(T) : (x \o y) \o s = x \o (y \o s)

LEMMA Associates == \A T : Associative(T)
BY ConcatAssociative DEF Associative

\* A chain with one piece more.
LEMMA ChainMore ==
    ASSUME NEW T, NEW ss, NEW i \in Nat \ {0}, NEW x \in Seq(T), NEW s \in Seq(T),
           NEW w, w = ss[i] \o s, NEW z, z \o s = x \o w,
           NEW p, Chain(p, T, ss, i - 1, x, w)
    PROVE  \E q : Chain(q, T, ss, i, z, s)
<1> DEFINE q == [k \in 0 .. i |-> IF k = i THEN s ELSE p[k]]
<1>2. /\ p \in [0 .. i - 1 -> Seq(T)] /\ p[0] = x \o w /\ p[i - 1] = w
      /\ \A k \in 1 .. i - 1 : p[k - 1] = ss[k] \o p[k]
  BY DEF Chain
<1>3. q \in [0 .. i -> Seq(T)]
  <2>1. ASSUME NEW k \in 0 .. i, k # i PROVE p[k] \in Seq(T)
    <3>1. k \in 0 .. i - 1
      BY <2>1
    <3> QED BY <1>2, <3>1
  <2> QED BY <2>1
<1>4. q[i] = s /\ \A k \in 0 .. i - 1 : q[k] = p[k]
  <2>1. i \in 0 .. i /\ \A k \in 0 .. i - 1 : k \in 0 .. i /\ k # i
    OBVIOUS
  <2>2. \A k \in 0 .. i : q[k] = IF k = i THEN s ELSE p[k]
    OBVIOUS
  <2> HIDE DEF q
  <2>3. q[i] = s
    BY <2>1, <2>2
  <2>4. ASSUME NEW k \in 0 .. i - 1 PROVE q[k] = p[k]
    BY <2>1, <2>2
  <2> QED BY <2>3, <2>4
<1> HIDE DEF q
<1>5. q[0] = z \o s
  <2>1. 0 \in 0 .. i - 1
    OBVIOUS
  <2>2. q[0] = p[0]
    BY <1>4, <2>1
  <2> QED BY <1>2, <2>2
<1>6. ASSUME NEW k \in 1 .. i
      PROVE  q[k - 1] = ss[k] \o q[k]
  <2>1. k - 1 \in 0 .. i - 1 /\ q[k - 1] = p[k - 1]
    BY <1>4
  <2>2. CASE k = i
    <3>1. q[k - 1] = w /\ q[k] = s /\ ss[k] = ss[i]
      BY <1>2, <1>4, <2>1, <2>2
    <3> QED BY <3>1
  <2>3. CASE k # i
    <3>1. k \in 1 .. i - 1 /\ k \in 0 .. i - 1
      BY <2>3
    <3>2. p[k - 1] = ss[k] \o p[k]
      BY <1>2, <3>1
    <3>3. q[k] = p[k]
      BY <1>4, <3>1
    <3> QED BY <2>1, <3>2, <3>3
  <2> QED BY <2>2, <2>3
<1>7. Chain(q, T, ss, i, z, s)
  BY <1>3, <1>4, <1>5, <1>6 DEF Chain
<1> QED BY <1>7

\* Pieces in one, and a rest behind, are a chain.
LEMMA FlattenChain ==
    ASSUME NEW T, NEW ss \in Seq(Seq(T)), NEW r \in Seq(T)
    PROVE  \E q : Chain(q, T, ss, Len(ss), FlattenSeq(ss), r)
<1>a. \A x, y, s \in Seq(T) : (x \o y) \o s = x \o (y \o s)
  <2>1. Associative(T)
    BY Associates
  <2> QED BY <2>1 DEF Associative
<1> DEFINE n == Len(ss)
           Q == [i \in 0 .. n |-> {x \in Seq(T) : \A s \in Seq(T) :
                                     \E q : Chain(q, T, ss, i, x, s)}]
<1>0. n \in Nat
  OBVIOUS
<1>1. ASSUME NEW i \in 0 .. n, NEW x
      PROVE  x \in Q[i] <=> x \in Seq(T) /\ \A s \in Seq(T) : \E q : Chain(q, T, ss, i, x, s)
  <2>1. Q[i] = {y \in Seq(T) : \A s \in Seq(T) : \E q : Chain(q, T, ss, i, y, s)}
    OBVIOUS
  <2> HIDE DEF Q
  <2> QED BY <2>1
<1> HIDE DEF Q
<1>2. <<>> \in Q[0]
  <2>1. ASSUME NEW s \in Seq(T)
        PROVE  \E q : Chain(q, T, ss, 0, <<>>, s)
    <3> DEFINE q == [i \in 0 .. 0 |-> s]
    <3>1. q \in [0 .. 0 -> Seq(T)] /\ q[0] = s
      OBVIOUS
    <3>2. <<>> \o s = s
      OBVIOUS
    <3> HIDE DEF q
    <3>3. Chain(q, T, ss, 0, <<>>, s)
      BY <3>1, <3>2 DEF Chain
    <3> QED BY <3>3
  <2>2. 0 \in 0 .. n /\ <<>> \in Seq(T)
    BY <1>0
  <2> QED BY <1>1, <2>1, <2>2
<1>3. \A i \in 1 .. n : Q[i - 1] \subseteq Seq(T)
  <2>1. ASSUME NEW i \in 1 .. n, NEW x \in Q[i - 1] PROVE x \in Seq(T)
    <3>1. i - 1 \in 0 .. n
      BY <1>0
    <3> QED BY <1>1, <3>1
  <2> QED BY <2>1
<1>4. ASSUME NEW i \in 1 .. n, NEW x \in Q[i - 1]
      PROVE  x \o ss[i] \in Q[i]
  <2> DEFINE y == ss[i]
  <2>0. i - 1 \in 0 .. n /\ i \in 0 .. n /\ i \in Nat \ {0} /\ i - 1 \in Nat /\ y \in Seq(T)
    BY <1>0
  <2>1. x \in Seq(T) /\ \A s \in Seq(T) : \E q : Chain(q, T, ss, i - 1, x, s)
    BY <1>1, <2>0
  <2>y. y = ss[i]
    OBVIOUS
  <2> HIDE DEF y
  <2>2. x \o y \in Seq(T)
    BY <2>0, <2>1, Joined
  <2>3. ASSUME NEW s \in Seq(T)
        PROVE  \E q : Chain(q, T, ss, i, x \o y, s)
    <3>1. y \o s \in Seq(T)
      BY <2>0, Joined
    <3>2. (x \o y) \o s = x \o (y \o s)
      BY <1>a, <2>0, <2>1
    <3> DEFINE w == y \o s
               z == x \o y
    <3>3. PICK p : Chain(p, T, ss, i - 1, x, w)
      BY <2>1, <3>1
    <3>4. w = ss[i] \o s /\ z \o s = x \o w
      BY <2>y, <3>2
    <3> HIDE DEF w, z
    <3>5. x \in Seq(T) /\ i \in Nat \ {0}
      BY <2>0, <2>1
    <3>6. \E q : Chain(q, T, ss, i, z, s)
      BY <3>3, <3>4, <3>5, ChainMore
    <3> QED BY <3>6 DEF z
  <2> QED BY <1>1, <2>0, <2>2, <2>3 DEF y
<1>5. FlattenSeq(ss) \in Q[n]
  BY <1>2, <1>3, <1>4, FlattenIn
<1>6. n \in 0 .. n
  BY <1>0
<1> QED BY <1>1, <1>5, <1>6

\* The bytes of a list.
Puts(put, vs) == [i \in DOMAIN vs |-> put[vs[i]]]

\* The types of the pieces and of the whole.
LEMMA PutsTyped ==
    ASSUME NEW X, NEW put \in [X -> Seq(Byte)], NEW vs \in Seq(X)
    PROVE  /\ Puts(put, vs) \in Seq(Seq(Byte)) /\ Len(Puts(put, vs)) = Len(vs)
           /\ FlattenSeq(Puts(put, vs)) \in Seq(Byte)
<1>1. Puts(put, vs) \in Seq(Seq(Byte)) /\ Len(Puts(put, vs)) = Len(vs)
  <2>1. \A i \in 1 .. Len(vs) : put[vs[i]] \in Seq(Byte)
    OBVIOUS
  <2> QED BY <2>1 DEF Puts
<1> QED BY <1>1, FlattenTyped

\* The bytes of one element more.
LEMMA PutsMore ==
    ASSUME NEW X, NEW put \in [X -> Seq(Byte)], NEW vs \in Seq(X), NEW v \in X
    PROVE  FlattenSeq(Puts(put, Append(vs, v))) = FlattenSeq(Puts(put, vs)) \o put[v]
<1> DEFINE ws == Append(vs, v)
           p == Puts(put, vs)
           q == Puts(put, ws)
           e == Append(p, put[v])
           n == Len(vs)
<1>1. /\ ws \in Seq(X) /\ Len(ws) = n + 1 /\ n \in Nat /\ ws[n + 1] = v
      /\ \A i \in 1 .. n : ws[i] = vs[i]
  OBVIOUS
<1>2. /\ p \in Seq(Seq(Byte)) /\ Len(p) = n /\ \A i \in 1 .. n : p[i] = put[vs[i]]
  <2>1. \A i \in 1 .. n : p[i] = put[vs[i]]
    BY DEF Puts
  <2> HIDE DEF p
  <2> QED BY <2>1, PutsTyped DEF p
<1> HIDE DEF ws
<1>3. /\ q \in Seq(Seq(Byte)) /\ Len(q) = n + 1 /\ \A i \in 1 .. n + 1 : q[i] = put[ws[i]]
  <2>1. \A i \in 1 .. n + 1 : q[i] = put[ws[i]]
    BY <1>1 DEF Puts
  <2>2. q \in Seq(Seq(Byte)) /\ Len(q) = Len(ws)
    BY <1>1, PutsTyped
  <2> QED BY <1>1, <2>1, <2>2
<1>4. put[v] \in Seq(Byte)
  OBVIOUS
<1> HIDE DEF p, q
<1>5. /\ e \in Seq(Seq(Byte)) /\ Len(e) = n + 1 /\ e[n + 1] = put[v]
      /\ \A i \in 1 .. n : e[i] = p[i]
  BY <1>1, <1>2, <1>4
<1> HIDE DEF e
<1>6. ASSUME NEW i \in 1 .. Len(q) PROVE q[i] = e[i]
  <2>1. CASE i = n + 1
    BY <1>1, <1>3, <1>5, <2>1
  <2>2. CASE i # n + 1
    <3>1. i \in 1 .. n
      BY <1>1, <1>3, <2>2
    <3> QED BY <1>1, <1>2, <1>3, <1>5, <3>1
  <2> QED BY <2>1, <2>2
<1>7. q = e
  BY <1>3, <1>5, <1>6, SeqEqual
<1>8. FlattenSeq(e) = FlattenSeq(p) \o put[v]
  <2>1. FlattenSeq(Append(p, put[v])) = FlattenSeq(p) \o put[v]
    BY <1>2, <1>4, FlattenMore
  <2> QED BY <2>1 DEF e
<1> QED BY <1>7, <1>8 DEF p, q, ws

\* A cursor that gave up, or has a stream to go on with.
Readied(c) == c = Error \/ c.rest \in Seq(Byte)

\* A step wherever there is a stream.
Nearly(g, T, c, n) == /\ g[0] = c
                      /\ \A k \in 1 .. n : Readied(g[k - 1]) => g[k] = Advance(T, g[k - 1])

\* The steps never leave the streams.
LEMMA NearlyReadied ==
    ASSUME NEW T, Parser(T), NEW c, Readied(c), NEW n \in Nat, NEW g,
           Nearly(g, T, c, n)
    PROVE  \A k \in 0 .. n : Readied(g[k])
<1>1. g[0] = c /\ \A k \in 1 .. n : Readied(g[k - 1]) => g[k] = Advance(T, g[k - 1])
  BY DEF Nearly
<1> DEFINE S == {k \in Nat : k \in 0 .. n => Readied(g[k])}
<1>2. 0 \in S
  BY <1>1
<1>3. ASSUME NEW k \in Nat, k \in S
      PROVE  k + 1 \in S
  <2> SUFFICES ASSUME k + 1 \in 0 .. n
               PROVE  Readied(g[k + 1])
    OBVIOUS
  <2>1. (k + 1) - 1 = k /\ k \in 0 .. n /\ k + 1 \in 1 .. n
    OBVIOUS
  <2>2. Readied(g[k])
    BY <1>3, <2>1
  <2>3. g[k + 1] = Advance(T, g[k])
    BY <1>1, <2>1, <2>2
  <2> HIDE DEF S
  <2>4. CASE g[k] = Error \/ T[g[k].rest] = Error
    BY <2>3, <2>4 DEF Advance, Readied
  <2>5. CASE g[k] # Error /\ T[g[k].rest] # Error
    <3>1. g[k].rest \in Seq(Byte)
      BY <2>2, <2>5 DEF Readied
    <3>2. PICK v, r : T[g[k].rest] = Got(v, r) /\ r \in Seq(Byte)
      BY <2>5, <3>1 DEF Parser
    <3>3. T[g[k].rest].rest = r
      BY <3>2, NoResult
    <3> DEFINE vs == Append(g[k].value, T[g[k].rest].value)
    <3>4. g[k + 1] = Got(vs, r)
      BY <2>3, <2>5, <3>3 DEF Advance
    <3> HIDE DEF vs
    <3>5. g[k + 1].rest = r
      BY <3>4, NoResult
    <3> QED BY <3>2, <3>5 DEF Readied
  <2> QED BY <2>4, <2>5
<1> HIDE DEF S
<1>4. Nat \subseteq S
  BY <1>2, <1>3, SetInduction
<1>5. ASSUME NEW k \in 0 .. n PROVE Readied(g[k])
  <2>1. k \in S
    BY <1>4
  <2> QED BY <2>1 DEF S
<1> QED BY <1>5

\* So they are all the steps.
LEMMA NearlyGoes ==
    ASSUME NEW T, Parser(T), NEW c, Readied(c), NEW n \in Nat, NEW g,
           Nearly(g, T, c, n)
    PROVE  Goes(g, T, c, n)
<1>1. g[0] = c /\ \A k \in 1 .. n : Readied(g[k - 1]) => g[k] = Advance(T, g[k - 1])
  BY DEF Nearly
<1>5. \A k \in 0 .. n : Readied(g[k])
  BY NearlyReadied
<1>6. ASSUME NEW k \in 0 .. n PROVE g[k] = IF k = 0 THEN c ELSE Advance(T, g[k - 1])
  <2>1. CASE k = 0
    BY <1>1, <2>1
  <2>2. CASE k # 0
    <3>1. k \in 1 .. n /\ k - 1 \in 0 .. n
      BY <2>2
    <3> QED BY <1>1, <1>5, <2>2, <3>1
  <2> QED BY <2>1, <2>2
<1> QED BY <1>6 DEF Goes

\* The steps never leave the streams.
LEMMA GoesReadied ==
    ASSUME NEW T, Parser(T), NEW c, Readied(c), NEW n \in Nat, NEW g, Goes(g, T, c, n)
    PROVE  \A k \in 0 .. n : Readied(g[k])
<1>1. \A k \in 0 .. n : g[k] = IF k = 0 THEN c ELSE Advance(T, g[k - 1])
  BY DEF Goes
<1>2. g[0] = c
  BY <1>1
<1>3. \A k \in 1 .. n : g[k] = Advance(T, g[k - 1])
  <2>1. \A k \in 1 .. n : k \in 0 .. n /\ k # 0
    OBVIOUS
  <2> QED BY <1>1, <2>1
<1>4. Nearly(g, T, c, n)
  BY <1>2, <1>3 DEF Nearly
<1> QED BY <1>4, NearlyReadied

\* TakeStr as a function, and that TakeAll runs it: what is proved of lists
\* speaks of functions, as no theorem can be given an operator.
StrT == [b \in Seq(Byte) |-> TakeStr(b)]

\* TakeStr gives up or leaves a stream.
LEMMA StrParser == Parser(StrT)
<1>1. ASSUME NEW b \in Seq(Byte)
      PROVE  StrT[b] = Error \/ \E v, r : StrT[b] = Got(v, r) /\ r \in Seq(Byte)
  <2>1. StrT[b] = TakeStr(b)
    BY DEF StrT
  <2> QED BY <2>1, StrTyped
<1> QED BY <1>1 DEF Parser

\* A list of strings is taken by that function.
LEMMA StrsTaken ==
    ASSUME NEW b \in Seq(Byte), TakeU16(b) # Error
    PROVE  TakesTo(StrT, TakeU16(b).rest, TakeU16(b).value, TakeAll(b, TakeStr))
<1> DEFINE n == TakeU16(b).value
           r == TakeU16(b).rest
           c == Got(<<>>, r)
           F(g) == [k \in 0 .. n |->
                      IF k = 0 THEN Got(<<>>, r)
                      ELSE IF g[k - 1] = Error THEN Error
                      ELSE IF TakeStr(g[k - 1].rest) = Error THEN Error
                      ELSE Got(Append(g[k - 1].value, TakeStr(g[k - 1].rest).value),
                               TakeStr(g[k - 1].rest).rest)]
           h == CHOOSE h : h = F(h)
<1>1. TakeAll(b, TakeStr) = h[n]
  BY DEF TakeAll, Then
<1>2. n \in Nat /\ r \in Seq(Byte)
  BY U16Typed
<1>3. Readied(c)
  <2> HIDE DEF r
  <2>1. c.rest = r
    BY NoResult
  <2> QED BY <1>2, <2>1 DEF Readied
<1> HIDE DEF n, r, c
<1>4. PICK g : Taken(g, StrT, c, n)
  BY <1>2, TakenExists
<1>5. Goes(g, StrT, c, n)
  BY <1>2, <1>4, TakenSteps
<1>6. \A k \in 0 .. n : Readied(g[k])
  BY <1>2, <1>3, <1>5, StrParser, GoesReadied
<1>7. ASSUME NEW k \in 0 .. n
      PROVE  g[k] = F(g)[k]
  <2>1. CASE k = 0
    <3>1. g[k] = c
      BY <1>5, <2>1 DEF Goes
    <3>2. F(g)[k] = Got(<<>>, r)
      BY <2>1
    <3> HIDE DEF F
    <3> QED BY <3>1, <3>2 DEF c
  <2>2. CASE k # 0
    <3> DEFINE d == g[k - 1]
    <3>1. k - 1 \in 0 .. n
      BY <1>2, <2>2
    <3>2. g[k] = Advance(StrT, d)
      BY <1>5, <2>2 DEF Goes
    <3>3. F(g)[k] = IF d = Error THEN Error
                    ELSE IF TakeStr(d.rest) = Error THEN Error
                    ELSE Got(Append(d.value, TakeStr(d.rest).value), TakeStr(d.rest).rest)
      BY <2>2
    <3>4. d = Error \/ d.rest \in Seq(Byte)
      BY <1>6, <3>1 DEF Readied
    <3>5. d # Error => StrT[d.rest] = TakeStr(d.rest)
      BY <3>4 DEF StrT
    <3> HIDE DEF F, d
    <3> QED BY <3>2, <3>3, <3>5 DEF Advance
  <2> QED BY <2>1, <2>2
<1>8. g = F(g)
  <2>1. g = [k \in 0 .. n |-> g[k]] /\ F(g) = [k \in 0 .. n |-> F(g)[k]]
    BY <1>4 DEF Taken
  <2> HIDE DEF F
  <2> QED BY <1>7, <2>1
<1>9. h = F(h)
  <2> HIDE DEF F
  <2>1. \E x : x = F(x)
    BY <1>8
  <2> QED BY <2>1
<1> HIDE DEF h
<1>10. Nearly(h, StrT, c, n)
  <2>1. ASSUME NEW k \in 0 .. n PROVE h[k] = F(h)[k]
    <3> HIDE DEF F
    <3> QED BY <1>9
  <2>2. h[0] = c
    <3>1. 0 \in 0 .. n
      BY <1>2
    <3>2. F(h)[0] = Got(<<>>, r)
      BY <3>1
    <3> HIDE DEF F
    <3> QED BY <2>1, <3>1, <3>2 DEF c
  <2>3. ASSUME NEW k \in 1 .. n, Readied(h[k - 1])
        PROVE  h[k] = Advance(StrT, h[k - 1])
    <3> DEFINE d == h[k - 1]
    <3>1. k \in 0 .. n /\ k # 0
      BY <1>2
    <3>2. F(h)[k] = IF d = Error THEN Error
                    ELSE IF TakeStr(d.rest) = Error THEN Error
                    ELSE Got(Append(d.value, TakeStr(d.rest).value), TakeStr(d.rest).rest)
      BY <3>1
    <3>3. d = Error \/ d.rest \in Seq(Byte)
      BY <2>3 DEF Readied
    <3>4. d # Error => StrT[d.rest] = TakeStr(d.rest)
      BY <3>3 DEF StrT
    <3>5. h[k] = F(h)[k]
      BY <2>1, <3>1
    <3> HIDE DEF F, d
    <3>6. h[k] = Advance(StrT, d)
      BY <3>2, <3>4, <3>5 DEF Advance
    <3> QED BY <3>6 DEF d
  <2> QED BY <2>2, <2>3 DEF Nearly
<1>11. Goes(h, StrT, c, n)
  BY <1>2, <1>3, <1>10, StrParser, NearlyGoes
<1> QED BY <1>1, <1>11 DEF TakesTo, c, n, r

\* What T takes costs no more than the bytes it takes, written by put.
Worthy(T, put, X) ==
    \A b \in Seq(Byte) : \/ T[b] = Error
                         \/ \E v \in X, r \in Seq(Byte) :
                               T[b] = Got(v, r) /\ put[v] \in Seq(Byte) /\ Fits(put[v], b, r)

\* A list of k that costs no more than the bytes taken of b.
Holds(x, put, X, b, k) ==
    \/ x = Error
    \/ \E vs \in Seq(X), r \in Seq(Byte) :
          /\ x = Got(vs, r) /\ Len(vs) = k
          /\ FlattenSeq(Puts(put, vs)) \in Seq(Byte)
          /\ Fits(FlattenSeq(Puts(put, vs)), b, r)

\* No elements, no bytes.
LEMMA PutsNone == ASSUME NEW put PROVE FlattenSeq(Puts(put, <<>>)) = <<>>
<1>1. Puts(put, <<>>) = <<>>
  BY DEF Puts
<1>2. <<>> \in Seq(Seq(Byte)) /\ (<<>> = <<>> => FlattenSeq(<<>>) = <<>>)
  <2>1. <<>> \in Seq(Seq(Byte))
    OBVIOUS
  <2> QED BY <2>1, Flattened
<1> QED BY <1>1, <1>2

\* No elements, no cost.
LEMMA HoldsNone ==
    ASSUME NEW X, NEW put, NEW b \in Seq(Byte)
    PROVE  Holds(Got(<<>>, b), put, X, b, 0)
<1>1. FlattenSeq(Puts(put, <<>>)) = <<>>
  BY PutsNone
<1>2. Worth(b) \in Nat
  BY Worths
<1>3. <<>> \in Seq(Byte) /\ Len(<<>>) = 0 /\ <<>> \in Seq(X)
  OBVIOUS
<1>4. Fits(<<>>, b, b)
  BY <1>2, <1>3 DEF Fits
<1> QED BY <1>1, <1>3, <1>4 DEF Holds

\* The bytes of one element more, for all lists.
LEMMA PutsNext ==
    ASSUME NEW X, NEW put \in [X -> Seq(Byte)]
    PROVE  \A vs \in Seq(X), v \in X :
              /\ put[v] \in Seq(Byte)
              /\ FlattenSeq(Puts(put, Append(vs, v))) = FlattenSeq(Puts(put, vs)) \o put[v]
<1>1. ASSUME NEW vs \in Seq(X), NEW v \in X
      PROVE  /\ put[v] \in Seq(Byte)
             /\ FlattenSeq(Puts(put, Append(vs, v))) = FlattenSeq(Puts(put, vs)) \o put[v]
  BY PutsMore
<1> QED BY <1>1

\* put writes the elements of X one behind the other.
Putting(put, X) == \A vs \in Seq(X), v \in X :
    /\ put[v] \in Seq(Byte)
    /\ FlattenSeq(Puts(put, Append(vs, v))) = FlattenSeq(Puts(put, vs)) \o put[v]

\* One more element keeps within the cost.
LEMMA HoldsMore ==
    ASSUME NEW X, NEW put, Putting(put, X), NEW T, Worthy(T, put, X),
           NEW b \in Seq(Byte), NEW c, NEW k \in Nat, Holds(c, put, X, b, k)
    PROVE  Holds(Advance(T, c), put, X, b, k + 1)
<1>1. CASE c = Error
  BY <1>1 DEF Advance, Holds
<1>2. CASE c # Error
  <2>1. PICK vs \in Seq(X), r \in Seq(Byte) :
           /\ c = Got(vs, r) /\ Len(vs) = k
           /\ FlattenSeq(Puts(put, vs)) \in Seq(Byte)
           /\ Fits(FlattenSeq(Puts(put, vs)), b, r)
    BY <1>2 DEF Holds
  <2>2. c.value = vs /\ c.rest = r
    BY <2>1, NoResult
  <2>3. Advance(T, c) = IF T[r] = Error THEN Error ELSE Got(Append(vs, T[r].value), T[r].rest)
    BY <1>2, <2>2 DEF Advance
  <2>4. CASE T[r] = Error
    BY <2>3, <2>4 DEF Holds
  <2>5. CASE T[r] # Error
    <3>1. PICK v \in X, q \in Seq(Byte) :
             T[r] = Got(v, q) /\ put[v] \in Seq(Byte) /\ Fits(put[v], r, q)
      BY <2>5 DEF Worthy
    <3>2. T[r].value = v /\ T[r].rest = q
      BY <3>1, NoResult
    <3> DEFINE ws == Append(vs, v)
               x == FlattenSeq(Puts(put, vs))
               y == put[v]
    <3>3. Advance(T, c) = Got(ws, q)
      BY <2>3, <2>5, <3>2
    <3>4. ws \in Seq(X) /\ Len(ws) = k + 1
      BY <2>1
    <3>5. FlattenSeq(Puts(put, ws)) = x \o y
      BY DEF Putting
    <3>6. x \in Seq(Byte) /\ y \in Seq(Byte) /\ Fits(x, b, r) /\ Fits(y, r, q)
      BY <2>1, <3>1
    <3> HIDE DEF ws, x, y
    <3>7. x \o y \in Seq(Byte) /\ Fits(x \o y, b, q)
      BY <3>6, FitsBoth, Joined
    <3>8. FlattenSeq(Puts(put, ws)) \in Seq(Byte) /\ Fits(FlattenSeq(Puts(put, ws)), b, q)
      BY <3>5, <3>7
    <3> QED BY <3>3, <3>4, <3>8 DEF Holds
  <2> QED BY <2>4, <2>5
<1> QED BY <1>1, <1>2

\* All that is taken keeps within the cost.
LEMMA TakenHolds ==
    ASSUME NEW X, NEW put, Putting(put, X), NEW T, Worthy(T, put, X),
           NEW b \in Seq(Byte), NEW n \in Nat, NEW x, TakesTo(T, b, n, x)
    PROVE  Holds(x, put, X, b, n)
<1>1. PICK g : Goes(g, T, Got(<<>>, b), n) /\ x = g[n]
  BY DEF TakesTo
<1>2. \A k \in 0 .. n : g[k] = IF k = 0 THEN Got(<<>>, b) ELSE Advance(T, g[k - 1])
  BY <1>1 DEF Goes
<1> DEFINE S == {k \in Nat : k \in 0 .. n => Holds(g[k], put, X, b, k)}
<1>3. 0 \in S
  <2>1. g[0] = Got(<<>>, b)
    BY <1>2
  <2>2. Holds(Got(<<>>, b), put, X, b, 0)
    BY HoldsNone
  <2> QED BY <2>1, <2>2
<1>4. ASSUME NEW k \in Nat, k \in S
      PROVE  k + 1 \in S
  <2> SUFFICES ASSUME k + 1 \in 0 .. n
               PROVE  Holds(g[k + 1], put, X, b, k + 1)
    OBVIOUS
  <2>1. (k + 1) - 1 = k /\ k \in 0 .. n /\ k + 1 # 0
    OBVIOUS
  <2>2. g[k + 1] = Advance(T, g[k])
    BY <1>2, <2>1
  <2>3. Holds(g[k], put, X, b, k)
    BY <1>4, <2>1
  <2> HIDE DEF S
  <2>4. Holds(Advance(T, g[k]), put, X, b, k + 1)
    BY <2>3, HoldsMore
  <2> QED BY <2>2, <2>4
<1> HIDE DEF S
<1>5. Nat \subseteq S
  BY <1>3, <1>4, SetInduction
<1>6. n \in S /\ n \in 0 .. n
  BY <1>5
<1>7. Holds(g[n], put, X, b, n)
  BY <1>6 DEF S
<1> QED BY <1>1, <1>7

\* T reads what put writes of the pieces of vs.
Faithful(T, put, vs) == \A i \in 1 .. Len(vs) : \A r \in Seq(Byte) :
                            T[put[vs[i]] \o r] = Got(vs[i], r)

\* A slice, and the element behind it appended.
LEMMA GrownBy ==
    ASSUME NEW S, NEW b \in Seq(S), NEW k \in Nat, k + 1 \in 1 .. Len(b)
    PROVE  Append(SubSeq(b, 1, k), b[k + 1]) = SubSeq(b, 1, k + 1)
<1>1. (k + 1) - 1 = k
  OBVIOUS
<1>2. SubSeq(b, 1, (k + 1) - 1) \o <<b[k + 1]>> = SubSeq(b, 1, k + 1)
  BY Grown
<1> DEFINE c == SubSeq(b, 1, k)
           x == b[k + 1]
<1>3. c \in Seq(S) /\ x \in S
  <2>1. k \in 0 .. Len(b)
    OBVIOUS
  <2> QED BY <2>1, Slice
<1>4. c \o <<x>> = SubSeq(b, 1, k + 1)
  BY <1>1, <1>2
<1> HIDE DEF c, x
<1>5. Append(c, x) = c \o <<x>>
  BY <1>3, AppendIsConcat
<1> QED BY <1>4, <1>5 DEF c, x

\* What is written of vs is taken as vs.
LEMMA TakenOf ==
    ASSUME NEW X, NEW put, NEW vs \in Seq(X), NEW ss \in Seq(Seq(Byte)), ss = Puts(put, vs),
           Len(ss) = Len(vs),
           NEW T, Faithful(T, put, vs), NEW r \in Seq(Byte),
           NEW x, TakesTo(T, FlattenSeq(ss) \o r, Len(vs), x)
    PROVE  x = Got(vs, r)
<1> DEFINE n == Len(vs)
           b == FlattenSeq(ss)
<1>0. n \in Nat
  OBVIOUS
<1>1. PICK q : Chain(q, Byte, ss, n, b, r)
  BY FlattenChain
<1>2. /\ q[0] = b \o r /\ q[n] = r
      /\ \A i \in 1 .. n : q[i - 1] = ss[i] \o q[i]
      /\ \A i \in 0 .. n : q[i] \in Seq(Byte)
  BY <1>1 DEF Chain
<1>3. \A i \in 1 .. n : ss[i] = put[vs[i]]
  BY DEF Puts
<1> HIDE DEF b
<1>4. PICK g : Goes(g, T, Got(<<>>, b \o r), n) /\ x = g[n]
  BY DEF TakesTo, b
<1>5. \A k \in 0 .. n : g[k] = IF k = 0 THEN Got(<<>>, b \o r) ELSE Advance(T, g[k - 1])
  BY <1>4 DEF Goes
<1> DEFINE S == {k \in Nat : k \in 0 .. n => g[k] = Got(SubSeq(vs, 1, k), q[k])}
<1>6. 0 \in S
  <2>1. g[0] = Got(<<>>, b \o r)
    BY <1>0, <1>5
  <2>2. SubSeq(vs, 1, 0) = <<>>
    BY EmptySeq, Slice
  <2> QED BY <1>2, <2>1, <2>2
<1>7. ASSUME NEW k \in Nat, k \in S
      PROVE  k + 1 \in S
  <2> SUFFICES ASSUME k + 1 \in 0 .. n
               PROVE  g[k + 1] = Got(SubSeq(vs, 1, k + 1), q[k + 1])
    OBVIOUS
  <2>1. (k + 1) - 1 = k /\ k \in 0 .. n /\ k + 1 # 0 /\ k + 1 \in 1 .. n
    BY <1>0
  <2> DEFINE c == g[k]
             us == SubSeq(vs, 1, k)
             v == vs[k + 1]
             s == q[k]
             t == q[k + 1]
  <2>2. g[k + 1] = Advance(T, c)
    BY <1>5, <2>1
  <2>3. c = Got(us, s)
    BY <1>7, <2>1
  <2>4. s = put[v] \o t
    BY <1>2, <1>3, <2>1
  <2>5. t \in Seq(Byte)
    BY <1>2
  <2>6. Append(us, v) = SubSeq(vs, 1, k + 1)
    BY <2>1, GrownBy
  <2> HIDE DEF S
  <2>7. T[put[v] \o t] = Got(v, t)
    BY <2>1, <2>5 DEF Faithful
  <2> HIDE DEF c, us, v, s, t
  <2>8. T[s] = Got(v, t)
    BY <2>4, <2>7
  <2>9. /\ c # Error /\ c.value = us /\ c.rest = s
        /\ T[s] # Error /\ T[s].value = v /\ T[s].rest = t
    BY <2>3, <2>8, NoResult
  <2>10. Advance(T, c) = Got(Append(us, v), t)
    BY <2>9 DEF Advance
  <2> QED BY <2>2, <2>6, <2>10 DEF t
<1> HIDE DEF S
<1>8. Nat \subseteq S
  BY <1>6, <1>7, SetInduction
<1>9. n \in S /\ n \in 0 .. n
  BY <1>0, <1>8
<1>10. g[n] = Got(SubSeq(vs, 1, n), q[n])
  BY <1>9 DEF S
<1>11. SubSeq(vs, 1, n) = vs
  BY WholeSeq
<1> QED BY <1>2, <1>4, <1>10, <1>11

\* A list as it is written.
Written(put, vs) == LE16(Len(vs)) \o FlattenSeq(Puts(put, vs))

\* A list that costs no more than the bytes taken of b, its count included.
Lists(x, put, X, b) ==
    \/ x = Error
    \/ \E vs \in Seq(X), r \in Seq(Byte) :
          x = Got(vs, r) /\ Written(put, vs) \in Seq(Byte) /\ Fits(Written(put, vs), b, r)

\* The count is within the cost as well.
LEMMA CountTyped ==
    ASSUME NEW X, NEW put, NEW b \in Seq(Byte), TakeU16(b) # Error, NEW x,
           Holds(x, put, X, TakeU16(b).rest, TakeU16(b).value)
    PROVE  Lists(x, put, X, b)
<1> DEFINE n == TakeU16(b).value
           u == TakeU16(b).rest
<1>1. n \in Nat /\ u \in Seq(Byte) /\ Len(b) = 2 + Len(u) /\ Len(u) \in Nat
  <2>1. n \in Nat /\ u \in Seq(Byte) /\ Len(b) = 2 + Len(u)
    BY U16Typed
  <2> QED BY <2>1
<1> HIDE DEF n, u
<1>2. CASE x = Error
  BY <1>2 DEF Lists
<1>3. CASE x # Error
  <2>1. PICK vs \in Seq(X), r \in Seq(Byte) :
          /\ x = Got(vs, r) /\ Len(vs) = n
          /\ FlattenSeq(Puts(put, vs)) \in Seq(Byte)
          /\ Fits(FlattenSeq(Puts(put, vs)), u, r)
    BY <1>3 DEF Holds, n, u
  <2> DEFINE c == LE16(Len(vs))
             w == FlattenSeq(Puts(put, vs))
  <2>2. c \in Seq(Byte) /\ Len(c) = 2
    BY <1>1, <2>1, Writes16
  <2>3. w \in Seq(Byte) /\ Fits(w, u, r)
    BY <2>1
  <2>4. Fits(c, b, u)
    <3>1. 2 + 0 + Worth(u) <= Worth(b)
      <4>1. Len(b) = 2 + 0 + Len(u) /\ 0 <= Len(Repl) * 0
        <5>1. Len(Repl) \in Nat
          BY FrameAssumption
        <5> QED BY <1>1, <5>1
      <4> QED BY <1>1, <4>1, WorthOf
    <3>2. Worth(u) \in Nat /\ Worth(b) \in Nat
      BY <1>1, Worths
    <3> QED BY <2>2, <3>1, <3>2 DEF Fits
  <2> HIDE DEF c, w
  <2>5. c \o w \in Seq(Byte) /\ Fits(c \o w, b, r)
    BY <1>1, <2>2, <2>3, <2>4, FitsBoth, Joined
  <2>6. Written(put, vs) = c \o w
    BY DEF Written, c, w
  <2> QED BY <2>1, <2>5, <2>6 DEF Lists
<1> QED BY <1>2, <1>3

\* Every piece of the list is written.
Lined(put, vs) == Puts(put, vs) \in Seq(Seq(Byte)) /\ Len(Puts(put, vs)) = Len(vs)

\* A written list is bytes.
LEMMA WrittenTyped ==
    ASSUME NEW X, NEW put, NEW vs \in Seq(X), Lined(put, vs)
    PROVE  Written(put, vs) \in Seq(Byte)
<1> DEFINE c == LE16(Len(vs))
           w == FlattenSeq(Puts(put, vs))
<1>1. c \in Seq(Byte)
  <2>1. Len(vs) \in Nat
    OBVIOUS
  <2> QED BY <2>1, Writes16
<1>2. w \in Seq(Byte)
  <2>1. Puts(put, vs) \in Seq(Seq(Byte))
    BY DEF Lined
  <2> QED BY <2>1, FlattenTyped
<1>3. Written(put, vs) = c \o w
  BY DEF Written
<1> HIDE DEF c, w
<1> QED BY <1>1, <1>2, <1>3, Joined

\* The list, and r behind it.
Carries(b, put, vs, r) == b = Written(put, vs) \o r

\* Its count is read.
Counted(b, put, vs, r) == /\ TakeU16(b) # Error /\ TakeU16(b).value = Len(vs)
                          /\ TakeU16(b).rest = FlattenSeq(Puts(put, vs)) \o r

\* A count that fits comes back.
LEMMA CountFirst ==
    ASSUME NEW X, NEW put, NEW vs \in Seq(X), Short(vs), Lined(put, vs),
           NEW r \in Seq(Byte), NEW b, Carries(b, put, vs, r)
    PROVE  Counted(b, put, vs, r)
<1> DEFINE c == LE16(Len(vs))
           w == FlattenSeq(Puts(put, vs))
           n == Len(vs)
           u == w \o r
<1>1. n \in Nat /\ n < U16
  BY DEF Short
<1>2. c \in Seq(Byte)
  BY <1>1, Writes16
<1>4. w \in Seq(Byte)
  <2>1. Puts(put, vs) \in Seq(Seq(Byte))
    BY DEF Lined
  <2> QED BY <2>1, FlattenTyped
<1>a. b = (c \o w) \o r
  BY DEF Written, Carries
<1> HIDE DEF w
<1>5. u \in Seq(Byte)
  BY <1>4, Joined
<1>6. b = c \o u
  <2>2. Associative(Byte)
    BY Associates
  <2> HIDE DEF c
  <2> QED BY <1>2, <1>4, <1>a, <2>2 DEF Associative
<1>7. TakeU16(b) = Got(n, u)
  <2> HIDE DEF n, u
  <2>1. TakeU16(LE16(n) \o u) = Got(n, u)
    BY <1>1, <1>5, U16Of
  <2> QED BY <1>6, <2>1 DEF n
<1>8. TakeU16(b) # Error /\ TakeU16(b).value = n /\ TakeU16(b).rest = u
  <2> HIDE DEF n, u
  <2> QED BY <1>7, NoResult
<1> QED BY <1>8 DEF w, Counted

\* A count, and that many with T.
Takes(T, b, x) == TakesTo(T, TakeU16(b).rest, TakeU16(b).value, x)

\* A list whose count fits comes back.
LEMMA CountOf ==
    ASSUME NEW X, NEW put, NEW vs \in Seq(X), Short(vs), Lined(put, vs),
           NEW T, Faithful(T, put, vs), NEW r \in Seq(Byte), NEW b, Carries(b, put, vs, r),
           NEW x, Takes(T, b, x)
    PROVE  x = Got(vs, r)
<1> DEFINE ss == Puts(put, vs)
<1>0. Counted(b, put, vs, r)
  BY CountFirst
<1>1. TakeU16(b).value = Len(vs) /\ TakeU16(b).rest = FlattenSeq(ss) \o r
  BY <1>0 DEF Counted
<1>2. TakesTo(T, FlattenSeq(ss) \o r, Len(vs), x)
  BY <1>1 DEF Takes
<1>3. ss \in Seq(Seq(Byte)) /\ ss = Puts(put, vs) /\ Len(ss) = Len(vs)
  BY DEF Lined
<1> HIDE DEF ss
<1> QED BY <1>2, <1>3, TakenOf

\* The list lemmas for strings: a string is written in bytes,
LEMMA StrWritten == ASSUME NEW s \in String PROVE PutStr(s) \in Seq(Byte)
<1>1. s \in Seq(Byte)
  BY DEF String
<1> QED BY <1>1, PutStrTyped

\* with PutStr as a function,
StrP == [v \in String |-> PutStr(v)]

\* one behind the other,
LEMMA StrPutting == Putting(StrP, String)
<1>1. ASSUME NEW v \in String PROVE StrP[v] \in Seq(Byte)
  <2>1. StrP[v] = PutStr(v)
    BY DEF StrP
  <2> QED BY <2>1, StrWritten
<1>2. StrP \in [String -> Seq(Byte)]
  <2>1. StrP = [v \in String |-> StrP[v]]
    BY DEF StrP
  <2> QED BY <1>1, <2>1
<1> HIDE DEF StrP
<1>3. \A vs \in Seq(String), v \in String :
         /\ StrP[v] \in Seq(Byte)
         /\ FlattenSeq(Puts(StrP, Append(vs, v))) = FlattenSeq(Puts(StrP, vs)) \o StrP[v]
  BY <1>2, PutsNext
<1> QED BY <1>3 DEF Putting

\* and read at no more than they cost;
LEMMA StrWorthy == Worthy(StrT, StrP, String)
<1>1. ASSUME NEW b \in Seq(Byte), StrT[b] # Error
      PROVE  \E v \in String, r \in Seq(Byte) :
                StrT[b] = Got(v, r) /\ StrP[v] \in Seq(Byte) /\ Fits(StrP[v], b, r)
  <2>1. StrT[b] = TakeStr(b)
    BY DEF StrT
  <2>2. PICK v \in String, r \in Seq(Byte) : TakeStr(b) = Got(v, r) /\ Fits(PutStr(v), b, r)
    BY <1>1, <2>1, StrTyped
  <2>3. StrP[v] = PutStr(v)
    BY DEF StrP
  <2>4. PutStr(v) \in Seq(Byte)
    BY StrWritten
  <2> QED BY <2>1, <2>2, <2>3, <2>4
<1> QED BY <1>1 DEF Worthy

\* PutAll writes the list,
LEMMA StrLines ==
    ASSUME NEW vs \in Seq(String)
    PROVE  /\ PutAll(vs, PutStr) = Written(StrP, vs)
           /\ Lined(StrP, vs)
<1>1. \A i \in 1 .. Len(vs) : StrP[vs[i]] = PutStr(vs[i]) /\ PutStr(vs[i]) \in Seq(Byte)
  <2>1. ASSUME NEW i \in 1 .. Len(vs)
        PROVE  StrP[vs[i]] = PutStr(vs[i]) /\ PutStr(vs[i]) \in Seq(Byte)
    <3>1. vs[i] \in String
      OBVIOUS
    <3>2. StrP[vs[i]] = PutStr(vs[i])
      BY <3>1 DEF StrP
    <3> QED BY <3>1, <3>2, StrWritten
  <2> QED BY <2>1
<1>2. DOMAIN vs = 1 .. Len(vs) /\ Len(vs) \in Nat
  OBVIOUS
<1>3. Puts(StrP, vs) = [i \in DOMAIN vs |-> PutStr(vs[i])]
  BY <1>1, <1>2 DEF Puts
<1>4. Lined(StrP, vs)
  BY <1>1, <1>2 DEF Puts, Lined
<1> QED BY <1>3, <1>4 DEF PutAll, Written

\* a list that is taken costs no more than its bytes,
LEMMA StrsTyped ==
    ASSUME NEW b \in Seq(Byte)
    PROVE  \/ TakeAll(b, TakeStr) = Error
           \/ \E vs \in Seq(String), r \in Seq(Byte) :
                 /\ TakeAll(b, TakeStr) = Got(vs, r)
                 /\ PutAll(vs, PutStr) \in Seq(Byte) /\ Fits(PutAll(vs, PutStr), b, r)
<1> DEFINE x == TakeAll(b, TakeStr)
<1>1. CASE TakeU16(b) = Error
  BY <1>1 DEF TakeAll, Then
<1>2. CASE TakeU16(b) # Error
  <2>1. TakesTo(StrT, TakeU16(b).rest, TakeU16(b).value, x)
    BY <1>2, StrsTaken
  <2> HIDE DEF x
  <2>2. TakeU16(b).rest \in Seq(Byte) /\ TakeU16(b).value \in Nat
    BY <1>2, U16Typed
  <2>3. Holds(x, StrP, String, TakeU16(b).rest, TakeU16(b).value)
    BY <2>1, <2>2, StrPutting, StrWorthy, TakenHolds
  <2>4. Lists(x, StrP, String, b)
    BY <1>2, <2>3, CountTyped
  <2>5. CASE x = Error
    BY <2>5 DEF x
  <2>6. CASE x # Error
    <3>1. PICK vs \in Seq(String), r \in Seq(Byte) :
             x = Got(vs, r) /\ Written(StrP, vs) \in Seq(Byte) /\ Fits(Written(StrP, vs), b, r)
      BY <2>4, <2>6 DEF Lists
    <3>2. PutAll(vs, PutStr) = Written(StrP, vs)
      BY StrLines
    <3> QED BY <3>1, <3>2 DEF x
  <2> QED BY <2>5, <2>6
<1> QED BY <1>1, <1>2

\* a written list is bytes,
LEMMA StrsWritten ==
    ASSUME NEW vs \in Seq(String)
    PROVE  PutAll(vs, PutStr) \in Seq(Byte)
BY StrLines, WrittenTyped

\* comes back if its elements do,
LEMMA StrsRead ==
    ASSUME NEW vs \in Seq(String), Short(vs), Faithful(StrT, StrP, vs), NEW r \in Seq(Byte)
    PROVE  TakeAll(PutAll(vs, PutStr) \o r, TakeStr) = Got(vs, r)
<1> DEFINE b == PutAll(vs, PutStr) \o r
           x == TakeAll(b, TakeStr)
<1>1. PutAll(vs, PutStr) = Written(StrP, vs) /\ Lined(StrP, vs)
  BY StrLines
<1>2. b \in Seq(Byte)
  BY StrsWritten, Joined
<1>3. Carries(b, StrP, vs, r)
  BY <1>1 DEF Carries
<1> HIDE DEF b
<1>4. TakeU16(b) # Error
  <2>1. Counted(b, StrP, vs, r)
    BY <1>1, <1>3, CountFirst
  <2> QED BY <2>1 DEF Counted
<1>5. Takes(StrT, b, x)
  BY <1>2, <1>4, StrsTaken DEF Takes
<1> HIDE DEF x
<1>6. x = Got(vs, r)
  BY <1>1, <1>3, <1>5, CountOf
<1> QED BY <1>6 DEF x, b

\* and so if all their lengths fit.
LEMMA StrsOf ==
    ASSUME NEW vs \in Seq(String), Short(vs), \A i \in 1 .. Len(vs) : Short(vs[i]),
           NEW r \in Seq(Byte)
    PROVE  TakeAll(PutAll(vs, PutStr) \o r, TakeStr) = Got(vs, r)
<1>1. Faithful(StrT, StrP, vs)
  <2>1. ASSUME NEW i \in 1 .. Len(vs), NEW s \in Seq(Byte)
        PROVE  StrT[StrP[vs[i]] \o s] = Got(vs[i], s)
    <3>1. vs[i] \in String /\ Short(vs[i])
      OBVIOUS
    <3>2. StrP[vs[i]] = PutStr(vs[i])
      BY <3>1 DEF StrP
    <3>3. PutStr(vs[i]) \o s \in Seq(Byte)
      BY <3>1, StrWritten, Joined
    <3>4. StrT[PutStr(vs[i]) \o s] = TakeStr(PutStr(vs[i]) \o s)
      BY <3>3 DEF StrT
    <3>5. TakeStr(PutStr(vs[i]) \o s) = Got(vs[i], s)
      BY <3>1, StrOf
    <3> QED BY <3>2, <3>4, <3>5
  <2> QED BY <2>1 DEF Faithful
<1> QED BY <1>1, StrsRead

\* The same for pairs.
LEMMA PairWritten == ASSUME NEW p \in String \X String PROVE PutPair(p) \in Seq(Byte)
<1>1. p[1] \in String /\ p[2] \in String
  OBVIOUS
<1>2. PutStr(p[1]) \in Seq(Byte) /\ PutStr(p[2]) \in Seq(Byte)
  BY <1>1, StrWritten
<1> QED BY <1>2, Joined DEF PutPair

PairT == [b \in Seq(Byte) |-> TakePair(b)]

LEMMA PairParser == Parser(PairT)
<1>1. ASSUME NEW b \in Seq(Byte)
      PROVE  PairT[b] = Error \/ \E v, r : PairT[b] = Got(v, r) /\ r \in Seq(Byte)
  <2>1. PairT[b] = TakePair(b)
    BY DEF PairT
  <2> QED BY <2>1, PairTyped
<1> QED BY <1>1 DEF Parser

LEMMA PairsTaken ==
    ASSUME NEW b \in Seq(Byte), TakeU16(b) # Error
    PROVE  TakesTo(PairT, TakeU16(b).rest, TakeU16(b).value, TakeAll(b, TakePair))
<1> DEFINE n == TakeU16(b).value
           r == TakeU16(b).rest
           c == Got(<<>>, r)
           F(g) == [k \in 0 .. n |->
                      IF k = 0 THEN Got(<<>>, r)
                      ELSE IF g[k - 1] = Error THEN Error
                      ELSE IF TakePair(g[k - 1].rest) = Error THEN Error
                      ELSE Got(Append(g[k - 1].value, TakePair(g[k - 1].rest).value),
                               TakePair(g[k - 1].rest).rest)]
           h == CHOOSE h : h = F(h)
<1>1. TakeAll(b, TakePair) = h[n]
  BY DEF TakeAll, Then
<1>2. n \in Nat /\ r \in Seq(Byte)
  BY U16Typed
<1>3. Readied(c)
  <2> HIDE DEF r
  <2>1. c.rest = r
    BY NoResult
  <2> QED BY <1>2, <2>1 DEF Readied
<1> HIDE DEF n, r, c
<1>4. PICK g : Taken(g, PairT, c, n)
  BY <1>2, TakenExists
<1>5. Goes(g, PairT, c, n)
  BY <1>2, <1>4, TakenSteps
<1>6. \A k \in 0 .. n : Readied(g[k])
  BY <1>2, <1>3, <1>5, PairParser, GoesReadied
<1>7. ASSUME NEW k \in 0 .. n
      PROVE  g[k] = F(g)[k]
  <2>1. CASE k = 0
    <3>1. g[k] = c
      BY <1>5, <2>1 DEF Goes
    <3>2. F(g)[k] = Got(<<>>, r)
      BY <2>1
    <3> HIDE DEF F
    <3> QED BY <3>1, <3>2 DEF c
  <2>2. CASE k # 0
    <3> DEFINE d == g[k - 1]
    <3>1. k - 1 \in 0 .. n
      BY <1>2, <2>2
    <3>2. g[k] = Advance(PairT, d)
      BY <1>5, <2>2 DEF Goes
    <3>3. F(g)[k] = IF d = Error THEN Error
                    ELSE IF TakePair(d.rest) = Error THEN Error
                    ELSE Got(Append(d.value, TakePair(d.rest).value), TakePair(d.rest).rest)
      BY <2>2
    <3>4. d = Error \/ d.rest \in Seq(Byte)
      BY <1>6, <3>1 DEF Readied
    <3>5. d # Error => PairT[d.rest] = TakePair(d.rest)
      BY <3>4 DEF PairT
    <3> HIDE DEF F, d
    <3> QED BY <3>2, <3>3, <3>5 DEF Advance
  <2> QED BY <2>1, <2>2
<1>8. g = F(g)
  <2>1. g = [k \in 0 .. n |-> g[k]] /\ F(g) = [k \in 0 .. n |-> F(g)[k]]
    BY <1>4 DEF Taken
  <2> HIDE DEF F
  <2> QED BY <1>7, <2>1
<1>9. h = F(h)
  <2> HIDE DEF F
  <2>1. \E x : x = F(x)
    BY <1>8
  <2> QED BY <2>1
<1> HIDE DEF h
<1>10. Nearly(h, PairT, c, n)
  <2>1. ASSUME NEW k \in 0 .. n PROVE h[k] = F(h)[k]
    <3> HIDE DEF F
    <3> QED BY <1>9
  <2>2. h[0] = c
    <3>1. 0 \in 0 .. n
      BY <1>2
    <3>2. F(h)[0] = Got(<<>>, r)
      BY <3>1
    <3> HIDE DEF F
    <3> QED BY <2>1, <3>1, <3>2 DEF c
  <2>3. ASSUME NEW k \in 1 .. n, Readied(h[k - 1])
        PROVE  h[k] = Advance(PairT, h[k - 1])
    <3> DEFINE d == h[k - 1]
    <3>1. k \in 0 .. n /\ k # 0
      BY <1>2
    <3>2. F(h)[k] = IF d = Error THEN Error
                    ELSE IF TakePair(d.rest) = Error THEN Error
                    ELSE Got(Append(d.value, TakePair(d.rest).value), TakePair(d.rest).rest)
      BY <3>1
    <3>3. d = Error \/ d.rest \in Seq(Byte)
      BY <2>3 DEF Readied
    <3>4. d # Error => PairT[d.rest] = TakePair(d.rest)
      BY <3>3 DEF PairT
    <3>5. h[k] = F(h)[k]
      BY <2>1, <3>1
    <3> HIDE DEF F, d
    <3>6. h[k] = Advance(PairT, d)
      BY <3>2, <3>4, <3>5 DEF Advance
    <3> QED BY <3>6 DEF d
  <2> QED BY <2>2, <2>3 DEF Nearly
<1>11. Goes(h, PairT, c, n)
  BY <1>2, <1>3, <1>10, PairParser, NearlyGoes
<1> QED BY <1>1, <1>11 DEF TakesTo, c, n, r

PairP == [v \in (String \X String) |-> PutPair(v)]

LEMMA PairPutting == Putting(PairP, (String \X String))
<1>1. ASSUME NEW v \in (String \X String) PROVE PairP[v] \in Seq(Byte)
  <2>1. PairP[v] = PutPair(v)
    BY DEF PairP
  <2> QED BY <2>1, PairWritten
<1>2. PairP \in [(String \X String) -> Seq(Byte)]
  <2>1. PairP = [v \in (String \X String) |-> PairP[v]]
    BY DEF PairP
  <2> QED BY <1>1, <2>1
<1> HIDE DEF PairP
<1>3. \A vs \in Seq((String \X String)), v \in (String \X String) :
         /\ PairP[v] \in Seq(Byte)
         /\ FlattenSeq(Puts(PairP, Append(vs, v))) = FlattenSeq(Puts(PairP, vs)) \o PairP[v]
  BY <1>2, PutsNext
<1> QED BY <1>3 DEF Putting

LEMMA PairWorthy == Worthy(PairT, PairP, (String \X String))
<1>1. ASSUME NEW b \in Seq(Byte), PairT[b] # Error
      PROVE  \E v \in (String \X String), r \in Seq(Byte) :
                PairT[b] = Got(v, r) /\ PairP[v] \in Seq(Byte) /\ Fits(PairP[v], b, r)
  <2>1. PairT[b] = TakePair(b)
    BY DEF PairT
  <2>2. PICK v \in (String \X String), r \in Seq(Byte) : TakePair(b) = Got(v, r) /\ Fits(PutPair(v), b, r)
    BY <1>1, <2>1, PairTyped
  <2>3. PairP[v] = PutPair(v)
    BY DEF PairP
  <2>4. PutPair(v) \in Seq(Byte)
    BY PairWritten
  <2> QED BY <2>1, <2>2, <2>3, <2>4
<1> QED BY <1>1 DEF Worthy

LEMMA PairLines ==
    ASSUME NEW vs \in Seq((String \X String))
    PROVE  /\ PutAll(vs, PutPair) = Written(PairP, vs)
           /\ Lined(PairP, vs)
<1>1. \A i \in 1 .. Len(vs) : PairP[vs[i]] = PutPair(vs[i]) /\ PutPair(vs[i]) \in Seq(Byte)
  <2>1. ASSUME NEW i \in 1 .. Len(vs)
        PROVE  PairP[vs[i]] = PutPair(vs[i]) /\ PutPair(vs[i]) \in Seq(Byte)
    <3>1. vs[i] \in (String \X String)
      OBVIOUS
    <3>2. PairP[vs[i]] = PutPair(vs[i])
      BY <3>1 DEF PairP
    <3> QED BY <3>1, <3>2, PairWritten
  <2> QED BY <2>1
<1>2. DOMAIN vs = 1 .. Len(vs) /\ Len(vs) \in Nat
  OBVIOUS
<1>3. Puts(PairP, vs) = [i \in DOMAIN vs |-> PutPair(vs[i])]
  BY <1>1, <1>2 DEF Puts
<1>4. Lined(PairP, vs)
  BY <1>1, <1>2 DEF Puts, Lined
<1> QED BY <1>3, <1>4 DEF PutAll, Written

LEMMA PairsTyped ==
    ASSUME NEW b \in Seq(Byte)
    PROVE  \/ TakeAll(b, TakePair) = Error
           \/ \E vs \in Seq((String \X String)), r \in Seq(Byte) :
                 /\ TakeAll(b, TakePair) = Got(vs, r)
                 /\ PutAll(vs, PutPair) \in Seq(Byte) /\ Fits(PutAll(vs, PutPair), b, r)
<1> DEFINE x == TakeAll(b, TakePair)
<1>1. CASE TakeU16(b) = Error
  BY <1>1 DEF TakeAll, Then
<1>2. CASE TakeU16(b) # Error
  <2>1. TakesTo(PairT, TakeU16(b).rest, TakeU16(b).value, x)
    BY <1>2, PairsTaken
  <2> HIDE DEF x
  <2>2. TakeU16(b).rest \in Seq(Byte) /\ TakeU16(b).value \in Nat
    BY <1>2, U16Typed
  <2>3. Holds(x, PairP, (String \X String), TakeU16(b).rest, TakeU16(b).value)
    BY <2>1, <2>2, PairPutting, PairWorthy, TakenHolds
  <2>4. Lists(x, PairP, (String \X String), b)
    BY <1>2, <2>3, CountTyped
  <2>5. CASE x = Error
    BY <2>5 DEF x
  <2>6. CASE x # Error
    <3>1. PICK vs \in Seq((String \X String)), r \in Seq(Byte) :
             x = Got(vs, r) /\ Written(PairP, vs) \in Seq(Byte) /\ Fits(Written(PairP, vs), b, r)
      BY <2>4, <2>6 DEF Lists
    <3>2. PutAll(vs, PutPair) = Written(PairP, vs)
      BY PairLines
    <3> QED BY <3>1, <3>2 DEF x
  <2> QED BY <2>5, <2>6
<1> QED BY <1>1, <1>2

LEMMA PairsWritten ==
    ASSUME NEW vs \in Seq((String \X String))
    PROVE  PutAll(vs, PutPair) \in Seq(Byte)
BY PairLines, WrittenTyped

LEMMA PairsRead ==
    ASSUME NEW vs \in Seq((String \X String)), Short(vs), Faithful(PairT, PairP, vs), NEW r \in Seq(Byte)
    PROVE  TakeAll(PutAll(vs, PutPair) \o r, TakePair) = Got(vs, r)
<1> DEFINE b == PutAll(vs, PutPair) \o r
           x == TakeAll(b, TakePair)
<1>1. PutAll(vs, PutPair) = Written(PairP, vs) /\ Lined(PairP, vs)
  BY PairLines
<1>2. b \in Seq(Byte)
  BY PairsWritten, Joined
<1>3. Carries(b, PairP, vs, r)
  BY <1>1 DEF Carries
<1> HIDE DEF b
<1>4. TakeU16(b) # Error
  <2>1. Counted(b, PairP, vs, r)
    BY <1>1, <1>3, CountFirst
  <2> QED BY <2>1 DEF Counted
<1>5. Takes(PairT, b, x)
  BY <1>2, <1>4, PairsTaken DEF Takes
<1> HIDE DEF x
<1>6. x = Got(vs, r)
  BY <1>1, <1>3, <1>5, CountOf
<1> QED BY <1>6 DEF x, b

LEMMA PairsOf ==
    ASSUME NEW vs \in Seq((String \X String)), Short(vs), \A i \in 1 .. Len(vs) : Short(vs[i][1]) /\ Short(vs[i][2]),
           NEW r \in Seq(Byte)
    PROVE  TakeAll(PutAll(vs, PutPair) \o r, TakePair) = Got(vs, r)
<1>1. Faithful(PairT, PairP, vs)
  <2>1. ASSUME NEW i \in 1 .. Len(vs), NEW s \in Seq(Byte)
        PROVE  PairT[PairP[vs[i]] \o s] = Got(vs[i], s)
    <3>1. vs[i] \in (String \X String) /\ Short(vs[i][1]) /\ Short(vs[i][2])
      OBVIOUS
    <3>2. PairP[vs[i]] = PutPair(vs[i])
      BY <3>1 DEF PairP
    <3>3. PutPair(vs[i]) \o s \in Seq(Byte)
      BY <3>1, PairWritten, Joined
    <3>4. PairT[PutPair(vs[i]) \o s] = TakePair(PutPair(vs[i]) \o s)
      BY <3>3 DEF PairT
    <3>5. TakePair(PutPair(vs[i]) \o s) = Got(vs[i], s)
      BY <3>1, PairOf
    <3> QED BY <3>2, <3>4, <3>5
  <2> QED BY <2>1 DEF Faithful
<1> QED BY <1>1, PairsRead

\* An element of a sequence is of its type.
LEMMA Member ==
    ASSUME NEW S, NEW s \in Seq(S), NEW i \in 1 .. Len(s)
    PROVE  s[i] \in S
OBVIOUS

\* A byte that is taken costs a byte.
LEMMA U8Typed ==
    ASSUME NEW b \in Seq(Byte)
    PROVE  \/ TakeU8(b) = Error
           \/ \E v \in Byte, r \in Seq(Byte) : TakeU8(b) = Got(v, r) /\ Fits(<<v>>, b, r)
<1>0. Len(b) \in Nat
  OBVIOUS
<1>1. CASE 1 > Len(b)
  <2>1. TakeBytes(b, 1) = Error
    BY <1>1, Bytes
  <2> QED BY <2>1 DEF TakeU8, Then
<1>2. CASE 1 <= Len(b)
  <2> DEFINE n == 1
             s == SubSeq(b, 1, n)
             r == SubSeq(b, n + 1, Len(b))
             v == s[1]
  <2>n. n \in Nat /\ n <= Len(b) /\ n = 1
    BY <1>2
  <2> HIDE DEF n
  <2>0. /\ TakeBytes(b, n) = Got(s, r)
        /\ s \in Seq(Byte) /\ Len(s) = n /\ r \in Seq(Byte) /\ Len(r) = Len(b) - n
    BY <2>n, Bytes
  <2> HIDE DEF s, r
  <2>1. /\ TakeBytes(b, 1) = Got(s, r)
        /\ s \in Seq(Byte) /\ Len(s) = 1 /\ r \in Seq(Byte) /\ Len(r) = Len(b) - 1
    BY <2>n, <2>0
  <2> HIDE DEF s, r
  <2>2. v \in Byte
    <3>2. s \in Seq(Byte) /\ 1 \in 1 .. Len(s)
      BY <2>1
    <3> QED BY <3>2, Member
  <2>3. TakeU8(b) = Got(v, r)
    <3>1. TakeBytes(b, 1) # Error /\ TakeBytes(b, 1).value = s /\ TakeBytes(b, 1).rest = r
      BY <2>1, NoResult
    <3> QED BY <3>1 DEF TakeU8, Then
  <2> HIDE DEF v
  <2>4. Fits(<<v>>, b, r)
    <3>1. Len(b) = 1 + 0 + Len(r) /\ 0 <= Len(Repl) * 0
      <4>1. Len(Repl) \in Nat /\ Len(r) \in Nat
        BY <2>1, FrameAssumption
      <4> QED BY <1>0, <2>1, <4>1
    <3> DEFINE m == 0
    <3>m. m \in Nat /\ m = 0
      OBVIOUS
    <3> HIDE DEF m
    <3>a. n + m + Worth(r) <= Worth(b)
      BY <2>1, <2>n, <3>1, <3>m, WorthOf
    <3>2. 1 + 0 + Worth(r) <= Worth(b)
      BY <2>n, <3>a, <3>m
    <3>3. Worth(r) \in Nat /\ Worth(b) \in Nat
      BY <2>1, Worths
    <3>4. Len(<<v>>) = 1
      OBVIOUS
    <3> QED BY <3>2, <3>3, <3>4 DEF Fits
  <2> QED BY <2>1, <2>2, <2>3, <2>4
<1>3. 1 > Len(b) \/ 1 <= Len(b)
  BY <1>0
<1> QED BY <1>1, <1>2, <1>3

\* A byte comes back.
LEMMA U8Of ==
    ASSUME NEW v \in Byte, NEW r \in Seq(Byte)
    PROVE  TakeU8(<<v>> \o r) = Got(v, r)
<1> DEFINE t == <<v>>
<1>1. t \in Seq(Byte) /\ Len(t) = 1 /\ t[1] = v
  OBVIOUS
<1> HIDE DEF t
<1>2. TakeBytes(t \o r, 1) = Got(t, r)
  BY <1>1, BytesOf
<1>3. TakeBytes(t \o r, 1) # Error /\ TakeBytes(t \o r, 1).value = t /\ TakeBytes(t \o r, 1).rest = r
  BY <1>2, NoResult
<1>4. TakeU8(t \o r) = Got(v, r)
  BY <1>1, <1>3 DEF TakeU8, Then
<1> QED BY <1>4 DEF t

\* What is taken of b, and what it costs.
Taking(x, v, w, b, r) == x = Got(v, r) /\ w \in Seq(Byte) /\ r \in Seq(Byte) /\ Fits(w, b, r)

\* What it says.
LEMMA TakingGot ==
    ASSUME NEW x, NEW v, NEW w, NEW b, NEW r, Taking(x, v, w, b, r)
    PROVE  /\ x # Error /\ x.value = v /\ x.rest = r
           /\ r \in Seq(Byte) /\ w \in Seq(Byte)
BY NoResult DEF Taking

\* A descriptor that is taken costs no more than its bytes, and has its type.
LEMMA DescriptorTyped ==
    ASSUME NEW b \in Seq(Byte)
    PROVE  \/ TakeDescriptor(b) = Error
           \/ \E d \in Descriptors, r \in Seq(Byte) :
                 /\ TakeDescriptor(b) = Got(d, r)
                 /\ PutDescriptor(d) \in Seq(Byte) /\ Fits(PutDescriptor(d), b, r)
<1> DEFINE x1 == TakeU8(b)
           x2 == TakeStr(x1.rest)
           x3 == TakeAll(x2.rest, TakeStr)
           x4 == TakeAll(x3.rest, TakePair)
           x == [role |-> x1.value, brand |-> x2.value, caps |-> x3.value, attrs |-> x4.value]
<1>1. TakeDescriptor(b) = IF x1 = Error THEN Error
                          ELSE IF x2 = Error THEN Error
                          ELSE IF x3 = Error THEN Error
                          ELSE IF x4 = Error THEN Error
                          ELSE Got(x, x4.rest)
  BY DEF TakeDescriptor, Then
<1> SUFFICES ASSUME TakeDescriptor(b) # Error
             PROVE  \E d \in Descriptors, r \in Seq(Byte) :
                       /\ TakeDescriptor(b) = Got(d, r)
                       /\ PutDescriptor(d) \in Seq(Byte) /\ Fits(PutDescriptor(d), b, r)
  OBVIOUS
<1>2. x1 # Error /\ x2 # Error /\ x3 # Error /\ x4 # Error /\ TakeDescriptor(b) = Got(x, x4.rest)
  <2> HIDE DEF x1, x2, x3, x4, x
  <2> QED BY <1>1
<1>3. PICK role \in Byte, r1 \in Seq(Byte) : Taking(x1, role, <<role>>, b, r1)
  <2>1. PICK v \in Byte, r \in Seq(Byte) : TakeU8(b) = Got(v, r) /\ Fits(<<v>>, b, r)
    BY <1>2, U8Typed
  <2>2. <<v>> \in Seq(Byte)
    OBVIOUS
  <2>3. Taking(x1, v, <<v>>, b, r)
    BY <2>1, <2>2 DEF Taking
  <2> QED BY <2>3
<1>4. x1.value = role /\ x1.rest = r1
  BY <1>3, TakingGot
<1>5. PICK brand \in String, r2 \in Seq(Byte) : Taking(x2, brand, PutStr(brand), r1, r2)
  <2>1. PICK v \in String, r \in Seq(Byte) : TakeStr(r1) = Got(v, r) /\ Fits(PutStr(v), r1, r)
    BY <1>2, <1>4, StrTyped
  <2>2. PutStr(v) \in Seq(Byte)
    BY StrWritten
  <2>3. Taking(x2, v, PutStr(v), r1, r)
    BY <1>4, <2>1, <2>2 DEF Taking
  <2> QED BY <2>3
<1>6. x2.value = brand /\ x2.rest = r2
  BY <1>5, TakingGot
<1>7. PICK caps \in Seq(String), r3 \in Seq(Byte) : Taking(x3, caps, PutAll(caps, PutStr), r2, r3)
  <2>1. PICK v \in Seq(String), r \in Seq(Byte) :
           /\ TakeAll(r2, TakeStr) = Got(v, r)
           /\ PutAll(v, PutStr) \in Seq(Byte) /\ Fits(PutAll(v, PutStr), r2, r)
    BY <1>2, <1>6, StrsTyped
  <2>3. Taking(x3, v, PutAll(v, PutStr), r2, r)
    BY <1>6, <2>1 DEF Taking
  <2> QED BY <2>3
<1>8. x3.value = caps /\ x3.rest = r3
  BY <1>7, TakingGot
<1>9. PICK attrs \in Seq(String \X String), r4 \in Seq(Byte) :
         Taking(x4, attrs, PutAll(attrs, PutPair), r3, r4)
  <2>1. PICK v \in Seq(String \X String), r \in Seq(Byte) :
           /\ TakeAll(r3, TakePair) = Got(v, r)
           /\ PutAll(v, PutPair) \in Seq(Byte) /\ Fits(PutAll(v, PutPair), r3, r)
    BY <1>2, <1>8, PairsTyped
  <2>3. Taking(x4, v, PutAll(v, PutPair), r3, r)
    BY <1>8, <2>1 DEF Taking
  <2> QED BY <2>3
<1>10. x4.value = attrs /\ x4.rest = r4
  BY <1>9, TakingGot
<1>11. x = [role |-> role, brand |-> brand, caps |-> caps, attrs |-> attrs]
  BY <1>4, <1>6, <1>8, <1>10
<1> DEFINE d == [role |-> role, brand |-> brand, caps |-> caps, attrs |-> attrs]
<1>12. TakeDescriptor(b) = Got(d, r4)
  BY <1>2, <1>10, <1>11
<1>13. d \in Descriptors
  BY DEF Descriptors
<1> DEFINE w1 == <<role>>
           w2 == PutStr(brand)
           w3 == PutAll(caps, PutStr)
           w4 == PutAll(attrs, PutPair)
<1>14. PutDescriptor(d) = ((w1 \o w2) \o w3) \o w4
  BY DEF PutDescriptor
<1>15. /\ w1 \in Seq(Byte) /\ w2 \in Seq(Byte) /\ w3 \in Seq(Byte) /\ w4 \in Seq(Byte)
       /\ Fits(w1, b, r1) /\ Fits(w2, r1, r2) /\ Fits(w3, r2, r3) /\ Fits(w4, r3, r4)
  BY <1>3, <1>5, <1>7, <1>9 DEF Taking
<1> HIDE DEF w1, w2, w3, w4, d, x, x1, x2, x3, x4
<1> DEFINE w5 == w1 \o w2
           w6 == w5 \o w3
           w7 == w6 \o w4
<1>16. w5 \in Seq(Byte) /\ Fits(w5, b, r2)
  BY <1>15, FitsBoth, Joined
<1> HIDE DEF w5
<1>17. w6 \in Seq(Byte) /\ Fits(w6, b, r3)
  BY <1>15, <1>16, FitsBoth, Joined
<1> HIDE DEF w6
<1>18. w7 \in Seq(Byte) /\ Fits(w7, b, r4)
  BY <1>15, <1>17, FitsBoth, Joined
<1>19. PutDescriptor(d) = w7
  BY <1>14 DEF w5, w6
<1> HIDE DEF w7
<1> QED BY <1>12, <1>13, <1>18, <1>19

\* Its fields.
LEMMA DescriptorFields ==
    ASSUME NEW d \in Descriptors
    PROVE  /\ d.role \in Byte /\ d.brand \in String /\ d.caps \in Seq(String)
           /\ d.attrs \in Seq(String \X String)
           /\ d = [role |-> d.role, brand |-> d.brand, caps |-> d.caps, attrs |-> d.attrs]
BY DEF Descriptors

\* The four parts of a descriptor.
LEMMA DescriptorParts ==
    ASSUME NEW d \in Descriptors
    PROVE  /\ <<d.role>> \in Seq(Byte)
           /\ PutStr(d.brand) \in Seq(Byte)
           /\ PutAll(d.caps, PutStr) \in Seq(Byte)
           /\ PutAll(d.attrs, PutPair) \in Seq(Byte)
           /\ PutDescriptor(d) \in Seq(Byte)
<1> DEFINE w1 == <<d.role>>
           w2 == PutStr(d.brand)
           w3 == PutAll(d.caps, PutStr)
           w4 == PutAll(d.attrs, PutPair)
<1>1. w1 \in Seq(Byte)
  <2>1. d.role \in Byte
    BY DescriptorFields
  <2> QED BY <2>1
<1>2. w2 \in Seq(Byte)
  BY DescriptorFields, StrWritten
<1>3. w3 \in Seq(Byte)
  BY DescriptorFields, StrsWritten
<1>4. w4 \in Seq(Byte)
  BY DescriptorFields, PairsWritten
<1>5. PutDescriptor(d) = ((w1 \o w2) \o w3) \o w4
  BY DEF PutDescriptor
<1> HIDE DEF w1, w2, w3, w4
<1>6. ((w1 \o w2) \o w3) \o w4 \in Seq(Byte)
  BY <1>1, <1>2, <1>3, <1>4, Joined
<1> QED BY <1>1, <1>2, <1>3, <1>4, <1>5, <1>6 DEF w1, w2, w3, w4

\* Concatenation is associative, of these three.
Regrouped(x, y, s) == (x \o y) \o s = x \o (y \o s)

LEMMA Regroup ==
    ASSUME NEW x \in Seq(Byte), NEW y \in Seq(Byte), NEW s \in Seq(Byte)
    PROVE  Regrouped(x, y, s)
BY ConcatAssociative DEF Regrouped

\* The parts of a descriptor, and r behind, each with the rest behind it.
FourParts(w1, w2, w3, w4, r) ==
    /\ (((w1 \o w2) \o w3) \o w4) \o r = w1 \o (w2 \o (w3 \o (w4 \o r)))
    /\ w4 \o r \in Seq(Byte) /\ w3 \o (w4 \o r) \in Seq(Byte)
    /\ w2 \o (w3 \o (w4 \o r)) \in Seq(Byte)

LEMMA FourThenRest ==
    ASSUME NEW w1 \in Seq(Byte), NEW w2 \in Seq(Byte), NEW w3 \in Seq(Byte), NEW w4 \in Seq(Byte),
           NEW r \in Seq(Byte)
    PROVE  FourParts(w1, w2, w3, w4, r)
<1>2. \A x, y \in Seq(Byte) : x \o y \in Seq(Byte)
  BY Joined
<1> DEFINE a == w1 \o w2
           e == a \o w3
           p == w4 \o r
           q == w3 \o p
           s == w2 \o q
<1>3. a \in Seq(Byte) /\ p \in Seq(Byte)
  BY <1>2
<1>4. e \in Seq(Byte) /\ q \in Seq(Byte)
  <2> HIDE DEF a, p
  <2> QED BY <1>2, <1>3
<1>5. s \in Seq(Byte)
  <2> HIDE DEF q
  <2> QED BY <1>2, <1>4
<1> HIDE DEF a, e, p, q, s
<1>6. (e \o w4) \o r = e \o (w4 \o r)
  <2>1. Regrouped(e, w4, r)
    BY <1>4, Regroup
  <2> QED BY <2>1 DEF Regrouped
<1>7. (a \o w3) \o p = a \o (w3 \o p)
  <2>1. Regrouped(a, w3, p)
    BY <1>3, Regroup
  <2> QED BY <2>1 DEF Regrouped
<1>8. (w1 \o w2) \o q = w1 \o (w2 \o q)
  <2>1. Regrouped(w1, w2, q)
    BY <1>4, Regroup
  <2> QED BY <2>1 DEF Regrouped
<1>9. (e \o w4) \o r = w1 \o s
  BY <1>6, <1>7, <1>8 DEF a, e, p, q, s
<1> QED BY <1>3, <1>4, <1>5, <1>9 DEF a, e, p, q, s, FourParts

\* A descriptor whose strings and lists fit comes back.
LEMMA DescriptorOf ==
    ASSUME NEW d \in Descriptors, ShortDescriptor(d), NEW r \in Seq(Byte)
    PROVE  TakeDescriptor(PutDescriptor(d) \o r) = Got(d, r)
<1> DEFINE w1 == <<d.role>>
           w2 == PutStr(d.brand)
           w3 == PutAll(d.caps, PutStr)
           w4 == PutAll(d.attrs, PutPair)
           r3 == w4 \o r
           r2 == w3 \o r3
           r1 == w2 \o r2
           b == w1 \o r1
<1>0. /\ d.role \in Byte /\ d.brand \in String /\ d.caps \in Seq(String)
      /\ d.attrs \in Seq(String \X String)
      /\ d = [role |-> d.role, brand |-> d.brand, caps |-> d.caps, attrs |-> d.attrs]
  BY DescriptorFields
<1>1. w1 \in Seq(Byte) /\ w2 \in Seq(Byte) /\ w3 \in Seq(Byte) /\ w4 \in Seq(Byte)
  BY DescriptorParts
<1>2. PutDescriptor(d) = ((w1 \o w2) \o w3) \o w4
  BY DEF PutDescriptor
<1>3. Short(d.brand) /\ Short(d.caps) /\ Short(d.attrs)
  BY DEF ShortDescriptor
<1>4. \A i \in 1 .. Len(d.caps) : Short(d.caps[i])
  <2>1. DOMAIN d.caps = 1 .. Len(d.caps)
    BY <1>0
  <2> QED BY <2>1 DEF ShortDescriptor
<1>5. \A i \in 1 .. Len(d.attrs) : Short(d.attrs[i][1]) /\ Short(d.attrs[i][2])
  <2>1. DOMAIN d.attrs = 1 .. Len(d.attrs)
    BY <1>0
  <2> QED BY <2>1 DEF ShortDescriptor
<1>6. /\ PutDescriptor(d) \o r = b
      /\ r3 \in Seq(Byte) /\ r2 \in Seq(Byte) /\ r1 \in Seq(Byte)
  <2> HIDE DEF w1, w2, w3, w4
  <2>1. FourParts(w1, w2, w3, w4, r)
    BY <1>1, FourThenRest
  <2> QED BY <1>2, <2>1 DEF FourParts
<1>7. TakeAll(r3, TakePair) = Got(d.attrs, r)
  BY <1>0, <1>3, <1>5, PairsOf
<1> HIDE DEF r3
<1>8. TakeAll(r2, TakeStr) = Got(d.caps, r3)
  BY <1>0, <1>3, <1>4, <1>6, StrsOf
<1> HIDE DEF r2
<1>9. TakeStr(r1) = Got(d.brand, r2)
  BY <1>0, <1>3, <1>6, StrOf
<1> HIDE DEF r1
<1>10. TakeU8(b) = Got(d.role, r1)
  BY <1>0, <1>6, U8Of
<1> HIDE DEF b
<1>11. /\ TakeU8(b) # Error /\ TakeU8(b).value = d.role /\ TakeU8(b).rest = r1
       /\ TakeStr(r1) # Error /\ TakeStr(r1).value = d.brand /\ TakeStr(r1).rest = r2
       /\ TakeAll(r2, TakeStr) # Error /\ TakeAll(r2, TakeStr).value = d.caps
       /\ TakeAll(r2, TakeStr).rest = r3
       /\ TakeAll(r3, TakePair) # Error /\ TakeAll(r3, TakePair).value = d.attrs
       /\ TakeAll(r3, TakePair).rest = r
  BY <1>7, <1>8, <1>9, <1>10, NoResult
<1>12. TakeDescriptor(b) = Got([role |-> d.role, brand |-> d.brand, caps |-> d.caps,
                                attrs |-> d.attrs], r)
  BY <1>11 DEF TakeDescriptor, Then
<1> QED BY <1>0, <1>6, <1>12

\* The entries of a list.
Entries == [id : String, desc : Descriptors]

\* The fields of an entry.
LEMMA EntryFields ==
    ASSUME NEW e \in Entries
    PROVE  e.id \in String /\ e.desc \in Descriptors /\ e = [id |-> e.id, desc |-> e.desc]
BY DEF Entries

\* The lemmas again for entries, an id and a descriptor.
LEMMA EntryWritten == ASSUME NEW e \in Entries PROVE PutEntry(e) \in Seq(Byte)
<1> DEFINE w == PutStr(e.id)
           z == PutDescriptor(e.desc)
<1>1. w \in Seq(Byte)
  BY EntryFields, StrWritten
<1>2. z \in Seq(Byte)
  BY EntryFields, DescriptorParts
<1>3. PutEntry(e) = w \o z
  BY DEF PutEntry
<1> HIDE DEF w, z
<1> QED BY <1>1, <1>2, <1>3, Joined

LEMMA EntryTyped ==
    ASSUME NEW b \in Seq(Byte)
    PROVE  \/ TakeEntry(b) = Error
           \/ \E e \in Entries, r \in Seq(Byte) :
                 TakeEntry(b) = Got(e, r) /\ Fits(PutEntry(e), b, r)
<1> DEFINE x1 == TakeStr(b)
           x2 == TakeDescriptor(x1.rest)
           x == [id |-> x1.value, desc |-> x2.value]
<1>1. TakeEntry(b) = IF x1 = Error THEN Error ELSE IF x2 = Error THEN Error ELSE Got(x, x2.rest)
  BY DEF TakeEntry, Then
<1> SUFFICES ASSUME TakeEntry(b) # Error
             PROVE  \E e \in Entries, r \in Seq(Byte) :
                       TakeEntry(b) = Got(e, r) /\ Fits(PutEntry(e), b, r)
  OBVIOUS
<1>2. x1 # Error /\ x2 # Error /\ TakeEntry(b) = Got(x, x2.rest)
  <2> HIDE DEF x1, x2, x
  <2> QED BY <1>1
<1>3. PICK id \in String, r1 \in Seq(Byte) : Taking(x1, id, PutStr(id), b, r1)
  <2>1. PICK v \in String, r \in Seq(Byte) : TakeStr(b) = Got(v, r) /\ Fits(PutStr(v), b, r)
    BY <1>2, StrTyped
  <2>2. PutStr(v) \in Seq(Byte)
    BY StrWritten
  <2>3. Taking(x1, v, PutStr(v), b, r)
    BY <2>1, <2>2 DEF Taking
  <2> QED BY <2>3
<1>4. x1.value = id /\ x1.rest = r1
  BY <1>3, TakingGot
<1>5. PICK d \in Descriptors, r2 \in Seq(Byte) : Taking(x2, d, PutDescriptor(d), r1, r2)
  <2>1. PICK v \in Descriptors, r \in Seq(Byte) :
           /\ TakeDescriptor(r1) = Got(v, r)
           /\ PutDescriptor(v) \in Seq(Byte) /\ Fits(PutDescriptor(v), r1, r)
    BY <1>2, <1>4, DescriptorTyped
  <2>2. Taking(x2, v, PutDescriptor(v), r1, r)
    BY <1>4, <2>1 DEF Taking
  <2> QED BY <2>2
<1>6. x2.value = d /\ x2.rest = r2
  BY <1>5, TakingGot
<1> DEFINE e == [id |-> id, desc |-> d]
<1>7. TakeEntry(b) = Got(e, r2)
  BY <1>2, <1>4, <1>6
<1>8. e \in Entries
  BY DEF Entries
<1> DEFINE w == PutStr(id)
           z == PutDescriptor(d)
<1>9. PutEntry(e) = w \o z
  BY DEF PutEntry
<1>10. w \in Seq(Byte) /\ z \in Seq(Byte) /\ Fits(w, b, r1) /\ Fits(z, r1, r2)
  BY <1>3, <1>5 DEF Taking
<1> HIDE DEF w, z, e, x, x1, x2
<1>11. Fits(w \o z, b, r2)
  BY <1>10, FitsBoth
<1>12. Fits(PutEntry(e), b, r2)
  BY <1>9, <1>11
<1> QED BY <1>7, <1>8, <1>12

LEMMA EntryOf ==
    ASSUME NEW e \in Entries, Short(e.id), ShortDescriptor(e.desc), NEW r \in Seq(Byte)
    PROVE  TakeEntry(PutEntry(e) \o r) = Got(e, r)
<1> DEFINE k == e.id
           d == e.desc
           w == PutStr(k)
           z == PutDescriptor(d)
           s == z \o r
           b == PutEntry(e) \o r
<1>0. k \in String /\ d \in Descriptors /\ e = [id |-> k, desc |-> d]
  BY EntryFields
<1>1. w \in Seq(Byte) /\ z \in Seq(Byte)
  BY <1>0, StrWritten, DescriptorParts
<1>2. b = w \o s
  <2>1. b = (w \o z) \o r
    BY DEF PutEntry
  <2>2. Regrouped(w, z, r)
    <3> HIDE DEF w, z
    <3> QED BY <1>1, Regroup
  <2> HIDE DEF w, z, b
  <2> QED BY <2>1, <2>2 DEF Regrouped
<1>3. s \in Seq(Byte)
  <2> HIDE DEF z
  <2> QED BY <1>1, Joined
<1>4. TakeDescriptor(s) = Got(d, r)
  BY <1>0, DescriptorOf
<1> HIDE DEF s, b
<1>5. TakeStr(b) = Got(k, s)
  BY <1>0, <1>2, <1>3, StrOf
<1> HIDE DEF k, d
<1>6. /\ TakeStr(b) # Error /\ TakeStr(b).value = k /\ TakeStr(b).rest = s
      /\ TakeDescriptor(s) # Error /\ TakeDescriptor(s).value = d
      /\ TakeDescriptor(s).rest = r
  BY <1>4, <1>5, NoResult
<1>7. TakeEntry(b) = Got([id |-> k, desc |-> d], r)
  BY <1>6 DEF TakeEntry, Then
<1> QED BY <1>0, <1>7 DEF b

EntryT == [b \in Seq(Byte) |-> TakeEntry(b)]

LEMMA EntryParser == Parser(EntryT)
<1>1. ASSUME NEW b \in Seq(Byte)
      PROVE  EntryT[b] = Error \/ \E v, r : EntryT[b] = Got(v, r) /\ r \in Seq(Byte)
  <2>1. EntryT[b] = TakeEntry(b)
    BY DEF EntryT
  <2> QED BY <2>1, EntryTyped
<1> QED BY <1>1 DEF Parser

LEMMA EntriesTaken ==
    ASSUME NEW b \in Seq(Byte), TakeU16(b) # Error
    PROVE  TakesTo(EntryT, TakeU16(b).rest, TakeU16(b).value, TakeAll(b, TakeEntry))
<1> DEFINE n == TakeU16(b).value
           r == TakeU16(b).rest
           c == Got(<<>>, r)
           F(g) == [k \in 0 .. n |->
                      IF k = 0 THEN Got(<<>>, r)
                      ELSE IF g[k - 1] = Error THEN Error
                      ELSE IF TakeEntry(g[k - 1].rest) = Error THEN Error
                      ELSE Got(Append(g[k - 1].value, TakeEntry(g[k - 1].rest).value),
                               TakeEntry(g[k - 1].rest).rest)]
           h == CHOOSE h : h = F(h)
<1>1. TakeAll(b, TakeEntry) = h[n]
  BY DEF TakeAll, Then
<1>2. n \in Nat /\ r \in Seq(Byte)
  BY U16Typed
<1>3. Readied(c)
  <2> HIDE DEF r
  <2>1. c.rest = r
    BY NoResult
  <2> QED BY <1>2, <2>1 DEF Readied
<1> HIDE DEF n, r, c
<1>4. PICK g : Taken(g, EntryT, c, n)
  BY <1>2, TakenExists
<1>5. Goes(g, EntryT, c, n)
  BY <1>2, <1>4, TakenSteps
<1>6. \A k \in 0 .. n : Readied(g[k])
  BY <1>2, <1>3, <1>5, EntryParser, GoesReadied
<1>7. ASSUME NEW k \in 0 .. n
      PROVE  g[k] = F(g)[k]
  <2>1. CASE k = 0
    <3>1. g[k] = c
      BY <1>5, <2>1 DEF Goes
    <3>2. F(g)[k] = Got(<<>>, r)
      BY <2>1
    <3> HIDE DEF F
    <3> QED BY <3>1, <3>2 DEF c
  <2>2. CASE k # 0
    <3> DEFINE d == g[k - 1]
    <3>1. k - 1 \in 0 .. n
      BY <1>2, <2>2
    <3>2. g[k] = Advance(EntryT, d)
      BY <1>5, <2>2 DEF Goes
    <3>3. F(g)[k] = IF d = Error THEN Error
                    ELSE IF TakeEntry(d.rest) = Error THEN Error
                    ELSE Got(Append(d.value, TakeEntry(d.rest).value), TakeEntry(d.rest).rest)
      BY <2>2
    <3>4. d = Error \/ d.rest \in Seq(Byte)
      BY <1>6, <3>1 DEF Readied
    <3>5. d # Error => EntryT[d.rest] = TakeEntry(d.rest)
      BY <3>4 DEF EntryT
    <3> HIDE DEF F, d
    <3> QED BY <3>2, <3>3, <3>5 DEF Advance
  <2> QED BY <2>1, <2>2
<1>8. g = F(g)
  <2>1. g = [k \in 0 .. n |-> g[k]] /\ F(g) = [k \in 0 .. n |-> F(g)[k]]
    BY <1>4 DEF Taken
  <2> HIDE DEF F
  <2> QED BY <1>7, <2>1
<1>9. h = F(h)
  <2> HIDE DEF F
  <2>1. \E x : x = F(x)
    BY <1>8
  <2> QED BY <2>1
<1> HIDE DEF h
<1>10. Nearly(h, EntryT, c, n)
  <2>1. ASSUME NEW k \in 0 .. n PROVE h[k] = F(h)[k]
    <3> HIDE DEF F
    <3> QED BY <1>9
  <2>2. h[0] = c
    <3>1. 0 \in 0 .. n
      BY <1>2
    <3>2. F(h)[0] = Got(<<>>, r)
      BY <3>1
    <3> HIDE DEF F
    <3> QED BY <2>1, <3>1, <3>2 DEF c
  <2>3. ASSUME NEW k \in 1 .. n, Readied(h[k - 1])
        PROVE  h[k] = Advance(EntryT, h[k - 1])
    <3> DEFINE d == h[k - 1]
    <3>1. k \in 0 .. n /\ k # 0
      BY <1>2
    <3>2. F(h)[k] = IF d = Error THEN Error
                    ELSE IF TakeEntry(d.rest) = Error THEN Error
                    ELSE Got(Append(d.value, TakeEntry(d.rest).value), TakeEntry(d.rest).rest)
      BY <3>1
    <3>3. d = Error \/ d.rest \in Seq(Byte)
      BY <2>3 DEF Readied
    <3>4. d # Error => EntryT[d.rest] = TakeEntry(d.rest)
      BY <3>3 DEF EntryT
    <3>5. h[k] = F(h)[k]
      BY <2>1, <3>1
    <3> HIDE DEF F, d
    <3>6. h[k] = Advance(EntryT, d)
      BY <3>2, <3>4, <3>5 DEF Advance
    <3> QED BY <3>6 DEF d
  <2> QED BY <2>2, <2>3 DEF Nearly
<1>11. Goes(h, EntryT, c, n)
  BY <1>2, <1>3, <1>10, EntryParser, NearlyGoes
<1> QED BY <1>1, <1>11 DEF TakesTo, c, n, r

EntryP == [v \in Entries |-> PutEntry(v)]

LEMMA EntryPutting == Putting(EntryP, Entries)
<1>1. ASSUME NEW v \in Entries PROVE EntryP[v] \in Seq(Byte)
  <2>1. EntryP[v] = PutEntry(v)
    BY DEF EntryP
  <2> QED BY <2>1, EntryWritten
<1>2. EntryP \in [Entries -> Seq(Byte)]
  <2>1. EntryP = [v \in Entries |-> EntryP[v]]
    BY DEF EntryP
  <2> QED BY <1>1, <2>1
<1> HIDE DEF EntryP
<1>3. \A vs \in Seq(Entries), v \in Entries :
         /\ EntryP[v] \in Seq(Byte)
         /\ FlattenSeq(Puts(EntryP, Append(vs, v))) = FlattenSeq(Puts(EntryP, vs)) \o EntryP[v]
  BY <1>2, PutsNext
<1> QED BY <1>3 DEF Putting

LEMMA EntryWorthy == Worthy(EntryT, EntryP, Entries)
<1>1. ASSUME NEW b \in Seq(Byte), EntryT[b] # Error
      PROVE  \E v \in Entries, r \in Seq(Byte) :
                EntryT[b] = Got(v, r) /\ EntryP[v] \in Seq(Byte) /\ Fits(EntryP[v], b, r)
  <2>1. EntryT[b] = TakeEntry(b)
    BY DEF EntryT
  <2>2. PICK v \in Entries, r \in Seq(Byte) : TakeEntry(b) = Got(v, r) /\ Fits(PutEntry(v), b, r)
    BY <1>1, <2>1, EntryTyped
  <2>3. EntryP[v] = PutEntry(v)
    BY DEF EntryP
  <2>4. PutEntry(v) \in Seq(Byte)
    BY EntryWritten
  <2> QED BY <2>1, <2>2, <2>3, <2>4
<1> QED BY <1>1 DEF Worthy

LEMMA EntryLines ==
    ASSUME NEW vs \in Seq(Entries)
    PROVE  /\ PutAll(vs, PutEntry) = Written(EntryP, vs)
           /\ Lined(EntryP, vs)
<1>1. \A i \in 1 .. Len(vs) : EntryP[vs[i]] = PutEntry(vs[i]) /\ PutEntry(vs[i]) \in Seq(Byte)
  <2>1. ASSUME NEW i \in 1 .. Len(vs)
        PROVE  EntryP[vs[i]] = PutEntry(vs[i]) /\ PutEntry(vs[i]) \in Seq(Byte)
    <3>1. vs[i] \in Entries
      OBVIOUS
    <3>2. EntryP[vs[i]] = PutEntry(vs[i])
      BY <3>1 DEF EntryP
    <3> QED BY <3>1, <3>2, EntryWritten
  <2> QED BY <2>1
<1>2. DOMAIN vs = 1 .. Len(vs) /\ Len(vs) \in Nat
  OBVIOUS
<1>3. Puts(EntryP, vs) = [i \in DOMAIN vs |-> PutEntry(vs[i])]
  BY <1>1, <1>2 DEF Puts
<1>4. Lined(EntryP, vs)
  BY <1>1, <1>2 DEF Puts, Lined
<1> QED BY <1>3, <1>4 DEF PutAll, Written

LEMMA EntriesTyped ==
    ASSUME NEW b \in Seq(Byte)
    PROVE  \/ TakeAll(b, TakeEntry) = Error
           \/ \E vs \in Seq(Entries), r \in Seq(Byte) :
                 /\ TakeAll(b, TakeEntry) = Got(vs, r)
                 /\ PutAll(vs, PutEntry) \in Seq(Byte) /\ Fits(PutAll(vs, PutEntry), b, r)
<1> DEFINE x == TakeAll(b, TakeEntry)
<1>1. CASE TakeU16(b) = Error
  BY <1>1 DEF TakeAll, Then
<1>2. CASE TakeU16(b) # Error
  <2>1. TakesTo(EntryT, TakeU16(b).rest, TakeU16(b).value, x)
    BY <1>2, EntriesTaken
  <2> HIDE DEF x
  <2>2. TakeU16(b).rest \in Seq(Byte) /\ TakeU16(b).value \in Nat
    BY <1>2, U16Typed
  <2>3. Holds(x, EntryP, Entries, TakeU16(b).rest, TakeU16(b).value)
    BY <2>1, <2>2, EntryPutting, EntryWorthy, TakenHolds
  <2>4. Lists(x, EntryP, Entries, b)
    BY <1>2, <2>3, CountTyped
  <2>5. CASE x = Error
    BY <2>5 DEF x
  <2>6. CASE x # Error
    <3>1. PICK vs \in Seq(Entries), r \in Seq(Byte) :
             x = Got(vs, r) /\ Written(EntryP, vs) \in Seq(Byte) /\ Fits(Written(EntryP, vs), b, r)
      BY <2>4, <2>6 DEF Lists
    <3>2. PutAll(vs, PutEntry) = Written(EntryP, vs)
      BY EntryLines
    <3> QED BY <3>1, <3>2 DEF x
  <2> QED BY <2>5, <2>6
<1> QED BY <1>1, <1>2

LEMMA EntriesWritten ==
    ASSUME NEW vs \in Seq(Entries)
    PROVE  PutAll(vs, PutEntry) \in Seq(Byte)
BY EntryLines, WrittenTyped

LEMMA EntriesRead ==
    ASSUME NEW vs \in Seq(Entries), Short(vs), Faithful(EntryT, EntryP, vs), NEW r \in Seq(Byte)
    PROVE  TakeAll(PutAll(vs, PutEntry) \o r, TakeEntry) = Got(vs, r)
<1> DEFINE b == PutAll(vs, PutEntry) \o r
           x == TakeAll(b, TakeEntry)
<1>1. PutAll(vs, PutEntry) = Written(EntryP, vs) /\ Lined(EntryP, vs)
  BY EntryLines
<1>2. b \in Seq(Byte)
  BY EntriesWritten, Joined
<1>3. Carries(b, EntryP, vs, r)
  BY <1>1 DEF Carries
<1> HIDE DEF b
<1>4. TakeU16(b) # Error
  <2>1. Counted(b, EntryP, vs, r)
    BY <1>1, <1>3, CountFirst
  <2> QED BY <2>1 DEF Counted
<1>5. Takes(EntryT, b, x)
  BY <1>2, <1>4, EntriesTaken DEF Takes
<1> HIDE DEF x
<1>6. x = Got(vs, r)
  BY <1>1, <1>3, <1>5, CountOf
<1> QED BY <1>6 DEF x, b

LEMMA EntriesOf ==
    ASSUME NEW vs \in Seq(Entries), Short(vs), \A i \in 1 .. Len(vs) : Short(vs[i].id) /\ ShortDescriptor(vs[i].desc),
           NEW r \in Seq(Byte)
    PROVE  TakeAll(PutAll(vs, PutEntry) \o r, TakeEntry) = Got(vs, r)
<1>1. Faithful(EntryT, EntryP, vs)
  <2>1. ASSUME NEW i \in 1 .. Len(vs), NEW s \in Seq(Byte)
        PROVE  EntryT[EntryP[vs[i]] \o s] = Got(vs[i], s)
    <3>1. vs[i] \in Entries /\ Short(vs[i].id) /\ ShortDescriptor(vs[i].desc)
      OBVIOUS
    <3>2. EntryP[vs[i]] = PutEntry(vs[i])
      BY <3>1 DEF EntryP
    <3>3. PutEntry(vs[i]) \o s \in Seq(Byte)
      BY <3>1, EntryWritten, Joined
    <3>4. EntryT[PutEntry(vs[i]) \o s] = TakeEntry(PutEntry(vs[i]) \o s)
      BY <3>3 DEF EntryT
    <3>5. TakeEntry(PutEntry(vs[i]) \o s) = Got(vs[i], s)
      BY <3>1, EntryOf
    <3> QED BY <3>2, <3>4, <3>5
  <2> QED BY <2>1 DEF Faithful
<1> QED BY <1>1, EntriesRead

\* A frame is written in bytes.
LEMMA EncodeTyped ==
    ASSUME NEW f \in Raw
    PROVE  Encode(f) \in Seq(Byte)
BY Layout

\* Nothing behind is nothing more.
LEMMA Unended == ASSUME NEW s \in Seq(Byte) PROVE s \o <<>> = s
OBVIOUS

\* A body that is taken whole.
LEMMA WholeOf ==
    ASSUME NEW v
    PROVE  Whole(Got(v, <<>>)) = Got(v, <<>>)
BY NoResult DEF Whole

\* What a HELLO says: a descriptor that costs no more than its bytes.
Heard(x, b) == \E d \in Descriptors : x = Got(d, <<>>) /\ Len(PutDescriptor(d)) <= Worth(b)

\* A HELLO that is understood has a descriptor within the cost.
LEMMA HelloTyped ==
    ASSUME NEW b \in Seq(Byte)
    PROVE  decode_hello(b) = Error \/ Heard(decode_hello(b), b)
<1> DEFINE x == TakeDescriptor(b)
<1>1. decode_hello(b) = IF x = Error THEN Error ELSE IF x.rest # <<>> THEN Error ELSE x
  BY DEF decode_hello, Whole
<1>2. CASE x = Error
  BY <1>1, <1>2
<1>3. CASE x # Error
  <2>1. PICK d \in Descriptors, r \in Seq(Byte) :
           /\ x = Got(d, r)
           /\ PutDescriptor(d) \in Seq(Byte) /\ Fits(PutDescriptor(d), b, r)
    BY <1>3, DescriptorTyped
  <2>2. x.rest = r
    BY <2>1, NoResult
  <2> HIDE DEF x
  <2>3. CASE r # <<>>
    BY <1>1, <1>3, <2>2, <2>3
  <2>4. CASE r = <<>>
    <3>1. decode_hello(b) = Got(d, <<>>)
      BY <1>1, <1>3, <2>1, <2>2, <2>4
    <3>2. Len(PutDescriptor(d)) <= Worth(b)
      <4>1. Worth(r) \in Nat /\ Worth(b) \in Nat /\ Len(PutDescriptor(d)) \in Nat
        BY <2>1, Worths
      <4>2. Len(PutDescriptor(d)) + Worth(r) <= Worth(b)
        BY <2>1 DEF Fits
      <4> QED BY <4>1, <4>2
    <3> QED BY <3>1, <3>2 DEF Heard
  <2> QED BY <2>3, <2>4
<1> QED BY <1>2, <1>3

(* A descriptor whose strings and lists fit their 16-bit counts is read as it *)
(* was said (frame.rs:221-271).                                               *)
THEOREM HelloRoundTrip ==
    ASSUME NEW d \in Descriptors, ShortDescriptor(d)
    PROVE  decode_hello(encode_hello(d)) = Got(d, <<>>)
<1> DEFINE w == PutDescriptor(d)
<1>1. w \in Seq(Byte) /\ <<>> \in Seq(Byte)
  <2>1. <<>> \in Seq(Byte)
    OBVIOUS
  <2> QED BY <2>1, DescriptorParts
<1>2. TakeDescriptor(w \o <<>>) = Got(d, <<>>)
  BY <1>1, DescriptorOf
<1> HIDE DEF w
<1>3. w \o <<>> = w
  BY <1>1, Unended
<1>4. TakeDescriptor(w) = Got(d, <<>>)
  BY <1>2, <1>3
<1> QED BY <1>4, WholeOf DEF decode_hello, encode_hello, w

\* What PROVIDERS lists.
Listed(x) == \E es \in Seq(Entries) : x = Got(es, <<>>)

\* A list that is understood has its type.
LEMMA ProvidersTyped ==
    ASSUME NEW b \in Seq(Byte)
    PROVE  decode_providers(b) = Error \/ Listed(decode_providers(b))
<1> DEFINE x == TakeAll(b, TakeEntry)
<1>1. decode_providers(b) = IF x = Error THEN Error ELSE IF x.rest # <<>> THEN Error ELSE x
  BY DEF decode_providers, Whole
<1>2. CASE x = Error
  BY <1>1, <1>2
<1>3. CASE x # Error
  <2>1. PICK es \in Seq(Entries), r \in Seq(Byte) : x = Got(es, r)
    BY <1>3, EntriesTyped
  <2>2. x.rest = r
    BY <2>1, NoResult
  <2> HIDE DEF x
  <2>3. CASE r # <<>>
    BY <1>1, <1>3, <2>2, <2>3
  <2>4. CASE r = <<>>
    <3>1. decode_providers(b) = Got(es, <<>>)
      BY <1>1, <1>3, <2>1, <2>2, <2>4
    <3> QED BY <3>1 DEF Listed
  <2> QED BY <2>3, <2>4
<1> QED BY <1>2, <1>3

\* The two lists a peer may get.
Offer(k) == <<[id |-> Id, desc |-> k]>>
\* The one entry, or none.
Offers(k) == {<<>>, Offer(k)}

\* The list of one entry.
LEMMA OfferTyped ==
    ASSUME NEW k \in Descriptors
    PROVE  /\ Offer(k) \in Seq(Entries) /\ Len(Offer(k)) = 1
           /\ Offer(k)[1] = [id |-> Id, desc |-> k]
<1>1. [id |-> Id, desc |-> k] \in Entries
  BY WireAssumption DEF Entries
<1> QED BY <1>1 DEF Offer

\* Both lists have a count that fits.
LEMMA OffersTyped ==
    ASSUME NEW k \in Descriptors, NEW es \in Offers(k)
    PROVE  es \in Seq(Entries) /\ Short(es)
<1>1. CASE es = <<>>
  <2>1. es \in Seq(Entries) /\ Len(es) = 0
    BY <1>1
  <2> QED BY <2>1, Sizes DEF Short
<1>2. CASE es = Offer(k)
  <2>1. es \in Seq(Entries) /\ Len(es) = 1
    BY <1>2, OfferTyped
  <2> QED BY <2>1, Sizes DEF Short
<1> QED BY <1>1, <1>2 DEF Offers

(* And so is the list of the one node registered under such a descriptor      *)
(* (frame.rs:273-303).                                                        *)
THEOREM ProvidersRoundTrip ==
    ASSUME NEW k \in Descriptors, ShortDescriptor(k), Short(Id), NEW es \in Offers(k)
    PROVE  decode_providers(encode_providers(es)) = Got(es, <<>>)
<1> DEFINE w == PutAll(es, PutEntry)
<1>0. es \in Seq(Entries) /\ Short(es)
  BY OffersTyped
<1>1. w \in Seq(Byte) /\ <<>> \in Seq(Byte)
  <2>1. <<>> \in Seq(Byte)
    OBVIOUS
  <2> QED BY <1>0, <2>1, EntriesWritten
<1>2. \A i \in 1 .. Len(es) : Short(es[i].id) /\ ShortDescriptor(es[i].desc)
  <2>1. CASE es = <<>>
    BY <2>1
  <2>2. CASE es = Offer(k)
    <3>1. Len(es) = 1 /\ es[1] = [id |-> Id, desc |-> k]
      BY <2>2, OfferTyped
    <3> QED BY <3>1
  <2> QED BY <2>1, <2>2 DEF Offers
<1>3. TakeAll(w \o <<>>, TakeEntry) = Got(es, <<>>)
  BY <1>0, <1>1, <1>2, EntriesOf
<1> HIDE DEF w
<1>4. w \o <<>> = w
  BY <1>1, Unended
<1>5. TakeAll(w, TakeEntry) = Got(es, <<>>)
  BY <1>3, <1>4
<1> QED BY <1>5, WholeOf DEF decode_providers, encode_providers, w

-----------------------------------------------------------------------------
(* The frames that are sent. *)

\* A string is bytes, and needs no mending.
LEMMA Stringy ==
    /\ \A s \in String : s \in Seq(Byte) /\ Lossy(s) = s
    /\ <<>> \in String
<1>1. ASSUME NEW s \in String PROVE s \in Seq(Byte) /\ Lossy(s) = s
  <2>1. s \in Seq(Byte)
    BY DEF String
  <2> QED BY <2>1, MendingIsBounded
<1>2. <<>> \in String
  BY DEF String
<1> QED BY <1>1, <1>2

\* A frame that was read is one that could be written, and needs no mending.
LEMMA FrameRaw ==
    ASSUME NEW f \in Frames
    PROVE  f \in Raw /\ Mended(f) = f
<1>1. f \in [typ : Byte, flags : 0 .. U16 - 1, from : String, to : String, payload : Seq(Byte)]
  BY DEF Frames, Envelope
<1>2. /\ f.typ \in Byte /\ f.flags \in 0 .. U16 - 1 /\ f.from \in String /\ f.to \in String
      /\ f.payload \in Seq(Byte)
      /\ f = [typ |-> f.typ, flags |-> f.flags, from |-> f.from, to |-> f.to,
              payload |-> f.payload]
  BY <1>1
<1>3. f.from \in Seq(Byte) /\ f.to \in Seq(Byte) /\ Lossy(f.from) = f.from /\ Lossy(f.to) = f.to
  BY <1>2, Stringy
<1>4. f \in [typ : Byte, flags : 0 .. U16 - 1, from : Seq(Byte), to : Seq(Byte),
             payload : Seq(Byte)]
  BY <1>2, <1>3
<1>5. Mended(f) = f
  BY <1>2, <1>3 DEF Mended
<1> QED BY <1>4, <1>5 DEF Raw, Envelope

\* A frame of the router's own, or of a node's HELLO.
LEMMA NewTyped ==
    ASSUME NEW typ \in Byte, NEW from \in String, NEW to \in String, NEW payload \in Seq(Byte)
    PROVE  /\ New(typ, from, to, payload) \in Frames
           /\ New(typ, from, to, payload).typ = typ
           /\ New(typ, from, to, payload).from = from
           /\ New(typ, from, to, payload).to = to
           /\ New(typ, from, to, payload).payload = payload
           /\ Size(New(typ, from, to, payload)) = 11 + Len(from) + Len(to) + Len(payload)
<1> DEFINE f == New(typ, from, to, payload)
<1>1. f = [typ |-> typ, flags |-> 0, from |-> from, to |-> to, payload |-> payload]
  BY DEF New
<1>2. 0 \in 0 .. U16 - 1
  BY Sizes
<1>3. f \in Frames
  BY <1>1, <1>2 DEF Frames, Envelope
<1>4. f.typ = typ /\ f.payload = payload /\ f.from = from /\ f.to = to
  BY <1>1
<1> HIDE DEF f
<1>5. Size(f) = 11 + Len(f.from) + Len(f.to) + Len(f.payload)
  BY <1>3, FrameRaw, FieldTypes
<1>6. Size(f) = 11 + Len(from) + Len(to) + Len(payload)
  BY <1>4, <1>5
<1> QED BY <1>3, <1>4, <1>6 DEF f

\* A frame that goes as it is.
Plain(f) == f \in Raw /\ Size(f) < U32 /\ Mended(f) = f

\* A HELLO goes as it is.
LEMMA GreetingTyped ==
    ASSUME NEW d \in Descs
    PROVE  Plain(Greeting(d)) /\ Greeting(d).payload = encode_hello(d) /\ d \in Descriptors
<1>1. d \in Descriptors /\ Size(Greeting(d)) < U32 /\ HELLO \in Byte
  BY WireAssumption
<1>2. encode_hello(d) \in Seq(Byte)
  BY <1>1, DescriptorParts DEF encode_hello
<1>3. Greeting(d) \in Frames /\ Greeting(d).payload = encode_hello(d)
  <2>1. Proposed \in String /\ <<>> \in String
    BY WireAssumption, Stringy
  <2> QED BY <1>1, <1>2, <2>1, NewTyped DEF Greeting
<1> QED BY <1>1, <1>3, FrameRaw DEF Plain

\* A descriptor that came in a frame that was read.
Cheap(k) == Len(PutDescriptor(k)) <= Len(Repl) * MAX_FRAME

\* The numbers of WireAssumption.
LEMMA Limits ==
    /\ MAX_FRAME \in Nat /\ Len(Repl) \in Nat
    /\ Len(Id) \in Nat /\ Len(Asker) \in Nat /\ Len(Zapd) \in Nat
    /\ Len(Repl) * MAX_FRAME \in Nat
    /\ 15 + Len(Id) + Len(Asker) + Len(Zapd) + Len(Repl) * MAX_FRAME < U32
    /\ 15 + Len(Id) + Len(Repl) * MAX_FRAME < U32
<1>1. MAX_FRAME \in Nat
  <2>1. MAX_FRAME \in 0 .. U32 - 1
    BY FrameAssumption
  <2> QED BY <2>1, Sizes
<1>2. Len(Repl) \in Nat
  BY FrameAssumption
<1>3. Len(Id) \in Nat /\ Len(Asker) \in Nat /\ Len(Zapd) \in Nat
  BY WireAssumption DEF String
<1> DEFINE R == Len(Repl)
           i == Len(Id)
           a == Len(Asker)
           z == Len(Zapd)
<1>4. R \in Nat /\ i \in Nat /\ a \in Nat /\ z \in Nat
  BY <1>2, <1>3
<1>5. R * MAX_FRAME + i + a + z + 11 + 4 < U32
  BY WireAssumption DEF HEADER
<1> HIDE DEF R, i, a, z
<1>6. R * MAX_FRAME \in Nat
  BY <1>1, <1>4
<1> DEFINE m == R * MAX_FRAME
<1>7. m \in Nat /\ m + i + a + z + 11 + 4 < U32 /\ U32 \in Nat
  BY <1>5, <1>6, Sizes
<1> HIDE DEF m
<1>8. 15 + i + a + z + m < U32 /\ 15 + i + m < U32
  BY <1>4, <1>7
<1> QED BY <1>1, <1>4, <1>6, <1>8 DEF R, i, a, z, m

\* What the two lists cost.
OfferCost(k) == /\ Len(encode_providers(Offer(k))) = 4 + Len(Id) + Len(PutDescriptor(k))
                /\ Len(encode_providers(<<>>)) = 2

\* The lengths, by the fields written.
LEMMA OfferLength ==
    ASSUME NEW k \in Descriptors
    PROVE  OfferCost(k)
<1> DEFINE e == [id |-> Id, desc |-> k]
           c == LE16(1)
           p == PutStr(Id)
           z == PutDescriptor(k)
<1>1. e \in Entries /\ e.id = Id /\ e.desc = k
  BY WireAssumption DEF Entries
<1>2. PutEntry(e) = p \o z
  BY DEF PutEntry
<1>3. /\ c \in Seq(Byte) /\ Len(c) = 2
      /\ p \in Seq(Byte) /\ Len(p) = 2 + Len(Id)
      /\ z \in Seq(Byte)
  <2>1. Id \in Seq(Byte)
    BY WireAssumption, Stringy
  <2>2. p \in Seq(Byte) /\ Len(p) = 2 + Len(Id)
    BY <2>1, PutStrTyped
  <2>3. z \in Seq(Byte)
    BY DescriptorParts
  <2>4. c \in Seq(Byte) /\ Len(c) = 2
    BY Writes16
  <2> QED BY <2>2, <2>3, <2>4
<1>4. FlattenSeq(Puts(EntryP, <<e>>)) = p \o z
  <2>1. <<>> \in Seq(Entries)
    OBVIOUS
  <2>2. FlattenSeq(Puts(EntryP, Append(<<>>, e))) = FlattenSeq(Puts(EntryP, <<>>)) \o EntryP[e]
    <3> HIDE DEF e
    <3> QED BY <1>1, <2>1, EntryPutting DEF Putting
  <2>3. Append(<<>>, e) = <<e>>
    OBVIOUS
  <2>4. FlattenSeq(Puts(EntryP, <<>>)) = <<>>
    BY PutsNone
  <2>5. EntryP[e] = p \o z
    BY <1>1, <1>2 DEF EntryP
  <2>6. p \o z \in Seq(Byte)
    <3> HIDE DEF p, z
    <3> QED BY <1>3, Joined
  <2> DEFINE w == p \o z
  <2>7. <<>> \o w = w
    <3> HIDE DEF w
    <3> QED BY <2>6 DEF w
  <2> HIDE DEF w, e
  <2> QED BY <2>2, <2>3, <2>4, <2>5, <2>7 DEF w
<1>5. encode_providers(Offer(k)) = c \o (p \o z)
  <2>1. Offer(k) \in Seq(Entries) /\ Len(Offer(k)) = 1 /\ Offer(k) = <<e>>
    BY OfferTyped DEF Offer
  <2>2. PutAll(Offer(k), PutEntry) = Written(EntryP, Offer(k))
    BY <2>1, EntryLines
  <2>3. Written(EntryP, Offer(k)) = LE16(Len(Offer(k))) \o FlattenSeq(Puts(EntryP, Offer(k)))
    BY DEF Written
  <2> HIDE DEF e, p, z
  <2> QED BY <1>4, <2>1, <2>2, <2>3 DEF encode_providers
<1>6. Len(c \o (p \o z)) = 2 + (2 + Len(Id) + Len(z))
  <2> HIDE DEF c, p, z
  <2> DEFINE w == p \o z
  <2>1. w \in Seq(Byte) /\ Len(w) = Len(p) + Len(z)
    BY <1>3, Joined
  <2> HIDE DEF w
  <2>2. Len(c \o w) = Len(c) + Len(w)
    BY <1>3, <2>1, Joined
  <2> QED BY <1>3, <2>1, <2>2 DEF w
<1>7. Len(encode_providers(Offer(k))) = 4 + Len(Id) + Len(PutDescriptor(k))
  <2>1. Len(z) \in Nat
    BY <1>3
  <2> HIDE DEF c, p
  <2> QED BY <1>5, <1>6, <2>1, Limits
<1>8. Len(encode_providers(<<>>)) = 2
  <2>1. <<>> \in Seq(Entries) /\ Len(<<>>) = 0
    OBVIOUS
  <2>2. PutAll(<<>>, PutEntry) = Written(EntryP, <<>>)
    BY <2>1, EntryLines
  <2>3. FlattenSeq(Puts(EntryP, <<>>)) = <<>>
    BY PutsNone
  <2>4. LE16(0) \in Seq(Byte) /\ Len(LE16(0)) = 2
    BY Writes16
  <2>5. Written(EntryP, <<>>) = LE16(0)
    <3>1. Written(EntryP, <<>>) = LE16(0) \o <<>>
      BY <2>1, <2>3 DEF Written
    <3> QED BY <2>4, <3>1, Unended
  <2> QED BY <2>2, <2>4, <2>5 DEF encode_providers
<1> QED BY <1>7, <1>8 DEF OfferCost

\* A list goes as it is, and if it is too long, the list with the entry is.
LEMMA ListingTyped ==
    ASSUME NEW k \in Descriptors, Cheap(k), NEW es \in Offers(k)
    PROVE  /\ Plain(Listing(es)) /\ Listing(es).typ = PROVIDERS
           /\ Listing(es).payload = encode_providers(es)
           /\ ~Readable(Listing(es)) => ~Readable(Listing(Offer(k)))
<1> DEFINE p == encode_providers(es)
           n == Len(PutDescriptor(k))
           i == Len(Id)
           r == Len(Repl) * MAX_FRAME
<1>0. es \in Seq(Entries) /\ Offer(k) \in Seq(Entries)
  BY OffersTyped, OfferTyped
<1>1. p \in Seq(Byte) /\ encode_providers(Offer(k)) \in Seq(Byte)
  BY <1>0, EntriesWritten DEF encode_providers
<1>2. PROVIDERS \in Byte /\ Zapd \in String /\ Asker \in String
  BY WireAssumption
<1> DEFINE l == Len(Zapd) + Len(Asker)
<1>3. /\ Listing(es) \in Frames /\ Listing(es).typ = PROVIDERS /\ Listing(es).payload = p
      /\ Size(Listing(es)) = 11 + Len(Zapd) + Len(Asker) + Len(p)
      /\ Listing(es).from = Zapd /\ Listing(es).to = Asker
  BY <1>1, <1>2, NewTyped DEF Listing
<1>4. /\ Size(Listing(Offer(k))) = 11 + Len(Zapd) + Len(Asker) + Len(encode_providers(Offer(k)))
      /\ Listing(Offer(k)).from = Zapd /\ Listing(Offer(k)).to = Asker
  BY <1>1, <1>2, NewTyped DEF Listing
<1>5. n \in Nat /\ i \in Nat /\ r \in Nat /\ l \in Nat /\ n <= r /\ 15 + i + l + r < U32
  <2>1. PutDescriptor(k) \in Seq(Byte)
    BY DescriptorParts
  <2>2. n \in Nat /\ n <= r
    BY <2>1 DEF Cheap
  <2> DEFINE a == Len(Asker)
             z == Len(Zapd)
  <2>3. i \in Nat /\ a \in Nat /\ z \in Nat /\ r \in Nat /\ 15 + i + a + z + r < U32 /\ l = z + a
    BY Limits
  <2> HIDE DEF i, r, l, a, z, n
  <2> QED BY <2>2, <2>3, Sizes
<1>6. OfferCost(k)
  BY OfferLength
<1>7. Len(p) = 4 + i + n \/ Len(p) = 2
  <2>1. CASE es = <<>>
    BY <1>6, <2>1 DEF OfferCost
  <2>2. CASE es = Offer(k)
    BY <1>6, <2>2 DEF OfferCost
  <2> QED BY <2>1, <2>2 DEF Offers
<1>a. Len(encode_providers(Offer(k))) = 4 + i + n
  BY <1>6 DEF OfferCost
<1> DEFINE x == Size(Listing(es))
           y == Size(Listing(Offer(k)))
           c == Len(p)
           a == Len(Asker)
           z == Len(Zapd)
<1>b. /\ x = 11 + z + a + c /\ y = 11 + z + a + (4 + i + n) /\ l = z + a
      /\ (c = 4 + i + n \/ c = 2) /\ a \in Nat /\ z \in Nat /\ i \in Nat /\ n \in Nat /\ r \in Nat
      /\ n <= r /\ 15 + i + l + r < U32 /\ U32 \in Nat
  BY <1>3, <1>4, <1>5, <1>7, <1>a, Limits, Sizes
<1> HIDE DEF p, n, i, r, l, x, y, c, a, z
<1>c. x = 15 + i + l + n \/ x = 13 + l
  BY <1>b
<1>d. y = 15 + i + l + n /\ l \in Nat
  BY <1>b
<1>e. x < U32 /\ x <= y /\ x \in Nat /\ y \in Nat
  BY <1>b, <1>c, <1>d
<1>8. Size(Listing(es)) < U32
  BY <1>e DEF x
<1>9. Size(Listing(es)) <= Size(Listing(Offer(k)))
  BY <1>e DEF x, y
<1>10. Size(Listing(es)) \in Nat /\ Size(Listing(Offer(k))) \in Nat
  BY <1>e DEF x, y
<1>11. ~Readable(Listing(es)) => ~Readable(Listing(Offer(k)))
  BY <1>3, <1>4, <1>9, <1>10, Limits DEF Readable
<1>12. Listing(es) \in Raw /\ Mended(Listing(es)) = Listing(es)
  BY <1>3, FrameRaw
<1> QED BY <1>3, <1>8, <1>11, <1>12 DEF Plain, p

\* What a node sends.
LEMMA SentTyped ==
    ASSUME NEW f \in Envelopes
    PROVE  f \in Raw /\ Size(f) < U32 /\ f.typ = ROUTE
BY WireAssumption DEF Raw

\* A frame mended: a frame, whose names grew by so much at most.
LEMMA MendedTyped ==
    ASSUME NEW f \in Raw
    PROVE  /\ Mended(f) \in Frames /\ Mended(f).typ = f.typ /\ Mended(f).payload = f.payload
           /\ Len(Mended(f).to) <= Len(Repl) * Len(f.to)
<1>1. /\ f.typ \in Byte /\ f.flags \in 0 .. U16 - 1 /\ f.from \in Seq(Byte)
      /\ f.to \in Seq(Byte) /\ f.payload \in Seq(Byte)
  BY FieldTypes
<1>2. Lossy(f.from) \in String /\ Lossy(f.to) \in String /\ Len(Lossy(f.to)) <= Len(Repl) * Len(f.to)
  BY <1>1, MendingIsBounded
<1> QED BY <1>1, <1>2 DEF Mended, Frames, Envelope

\* A frame that was read and stamped goes as it is.
LEMMA StampedTyped ==
    ASSUME NEW f \in Envelopes, Readable(f)
    PROVE  /\ Stamped(Mended(f)) \in Frames /\ Plain(Stamped(Mended(f)))
           /\ Stamped(Mended(f)).typ = ROUTE
<1> DEFINE g == Mended(f)
           s == Stamped(g)
<1>0. f \in Raw /\ f.typ = ROUTE
  BY SentTyped
<1>1. g \in Frames /\ g.typ = ROUTE /\ g.payload = f.payload /\ Len(g.to) <= Len(Repl) * Len(f.to)
  BY <1>0, MendedTyped
<1> HIDE DEF g
<1>2. g \in [typ : Byte, flags : 0 .. U16 - 1, from : String, to : String, payload : Seq(Byte)]
  BY <1>1 DEF Frames, Envelope
<1>3. Id \in String
  BY WireAssumption
<1>4. s \in [typ : Byte, flags : 0 .. U16 - 1, from : String, to : String, payload : Seq(Byte)]
  BY <1>2, <1>3 DEF Stamped
<1>5. s.from = Id /\ s.to = g.to /\ s.payload = g.payload /\ s.typ = g.typ
  BY <1>2 DEF Stamped
<1> HIDE DEF s
<1>6. s \in Frames
  BY <1>4 DEF Frames, Envelope
<1> DEFINE R == Len(Repl)
           t == Len(f.to)
           p == Len(f.payload)
           m == Len(g.to)
           i == Len(Id)
           r == R * MAX_FRAME
<1>7. /\ R \in Nat /\ R >= 1 /\ t \in Nat /\ p \in Nat /\ m \in Nat /\ i \in Nat /\ r \in Nat
      /\ MAX_FRAME \in Nat /\ m <= R * t /\ 15 + i + r < U32
  <2>1. t \in Nat /\ p \in Nat
    BY <1>0, FieldTypes
  <2>2. m \in Nat
    BY <1>1, FrameRaw, FieldTypes
  <2>3. R # 0
    <3>1. Repl \in Seq(Byte \ {Bad}) /\ Repl # <<>>
      BY FrameAssumption
    <3> QED BY <3>1, EmptySeq
  <2> QED BY <1>1, <2>1, <2>2, <2>3, Limits
<1>8. t + p <= MAX_FRAME
  <2>1. Size(f) \in Nat /\ Size(f) = 11 + Len(f.from) + Len(f.to) + Len(f.payload) /\ Len(f.from) \in Nat
    BY <1>0, FieldTypes
  <2>2. Size(f) <= MAX_FRAME
    BY DEF Readable
  <2> DEFINE x == Size(f)
             l == Len(f.from)
  <2>3. x = 11 + l + t + p /\ l \in Nat /\ x <= MAX_FRAME
    BY <2>1, <2>2
  <2>4. t \in Nat /\ p \in Nat /\ MAX_FRAME \in Nat
    BY <1>7
  <2> HIDE DEF x, l, t, p
  <2> QED BY <2>3, <2>4
<1>9. Size(s) = 11 + i + m + p
  <2>1. Size(s) = 11 + Len(s.from) + Len(s.to) + Len(s.payload)
    BY <1>6, FrameRaw, FieldTypes
  <2> QED BY <1>1, <1>5, <2>1
<1> HIDE DEF R, t, p, m, i
<1>10. p <= R * p /\ R * p \in Nat /\ R * t \in Nat /\ R * (t + p) = R * t + R * p
  <2>1. p * 1 <= p * R
    BY <1>7, Scaled
  <2>2. p * 1 = p /\ p * R = R * p /\ R * p \in Nat /\ R * t \in Nat
    BY <1>7
  <2>3. R * (t + p) = R * t + R * p
    BY <1>7
  <2> QED BY <2>1, <2>2, <2>3
<1>11. R * (t + p) <= r
  <2>1. t + p \in Nat
    BY <1>7
  <2> QED BY <1>7, <1>8, <2>1, Scaled
<1> HIDE DEF r
<1>12. Size(s) < U32
  BY <1>7, <1>9, <1>10, <1>11, Sizes
<1> QED BY <1>1, <1>5, <1>6, <1>12, FrameRaw DEF Plain, s, g

-----------------------------------------------------------------------------
(* The stream from the node. *)

\* q[i] is what is written of fs after the first i frames.
Tails(q, fs) == /\ q[Len(fs)] = <<>>
                /\ \A i \in 0 .. Len(fs) : q[i] \in Seq(Byte)
                /\ \A i \in 1 .. Len(fs) : q[i - 1] = Encode(fs[i]) \o q[i]

\* The same with e behind.
Longer(p, q, n, e) == \A i \in 0 .. n : p[i] = q[i] \o e

\* One more frame is written behind all the others.
LEMMA TailsMore ==
    ASSUME NEW fs \in Seq(Raw), NEW f \in Raw, NEW q, Tails(q, fs)
    PROVE  \E p : Tails(p, Append(fs, f)) /\ Longer(p, q, Len(fs), Encode(f))
<1> DEFINE n == Len(fs)
           m == n + 1
           e == Encode(f)
           gs == Append(fs, f)
           p == [i \in 0 .. m |-> IF i = m THEN <<>> ELSE q[i] \o e]
<1>1. /\ n \in Nat /\ m \in Nat /\ gs \in Seq(Raw) /\ Len(gs) = m /\ gs[m] = f
      /\ \A i \in 1 .. n : gs[i] = fs[i] /\ fs[i] \in Raw
  OBVIOUS
<1>2. e \in Seq(Byte)
  BY EncodeTyped
<1>3. /\ q[n] = <<>>
      /\ \A i \in 0 .. n : q[i] \in Seq(Byte)
      /\ \A i \in 1 .. n : q[i - 1] = Encode(fs[i]) \o q[i]
  BY DEF Tails
<1> HIDE DEF e, gs
<1>4. p[m] = <<>> /\ \A i \in 0 .. n : p[i] = q[i] \o e
  <2>1. m \in 0 .. m /\ \A i \in 0 .. n : i \in 0 .. m /\ i # m
    BY <1>1
  <2>2. \A i \in 0 .. m : p[i] = IF i = m THEN <<>> ELSE q[i] \o e
    OBVIOUS
  <2> HIDE DEF p, n, m
  <2>3. p[m] = <<>>
    BY <2>1, <2>2
  <2>4. ASSUME NEW i \in 0 .. n PROVE p[i] = q[i] \o e
    BY <2>1, <2>2
  <2> QED BY <2>3, <2>4
<1> HIDE DEF p
<1>5. ASSUME NEW i \in 0 .. m PROVE p[i] \in Seq(Byte)
  <2>1. CASE i = m
    <3> HIDE DEF m, n
    <3>1. p[i] = <<>>
      BY <1>4, <2>1
    <3> QED BY <3>1
  <2>2. CASE i # m
    <3>1. i \in 0 .. n
      BY <1>1, <2>2
    <3>2. q[i] \in Seq(Byte) /\ p[i] = q[i] \o e
      BY <1>3, <1>4, <3>1
    <3> QED BY <1>2, <3>2, Joined
  <2> QED BY <2>1, <2>2
<1>6. ASSUME NEW i \in 1 .. m PROVE p[i - 1] = Encode(gs[i]) \o p[i]
  <2>1. i - 1 \in 0 .. n /\ p[i - 1] = q[i - 1] \o e
    BY <1>1, <1>4
  <2>2. CASE i = m
    <3>1. i - 1 = n /\ p[i] = <<>> /\ gs[i] = f
      BY <1>1, <1>4, <2>2
    <3>2. p[i - 1] = <<>> \o e
      BY <1>3, <2>1, <3>1
    <3>3. <<>> \o e = e /\ e \o <<>> = e
      BY <1>2
    <3>4. Encode(gs[i]) = e
      BY <3>1 DEF e
    <3> QED BY <3>1, <3>2, <3>3, <3>4
  <2>3. CASE i # m
    <3>1. i \in 1 .. n /\ i \in 0 .. n
      BY <1>1, <2>3
    <3> DEFINE x == Encode(fs[i])
               y == q[i]
    <3>2. q[i - 1] = x \o y /\ y \in Seq(Byte) /\ p[i] = y \o e
      BY <1>3, <1>4, <3>1
    <3>3. x \in Seq(Byte)
      BY <1>1, <3>1, EncodeTyped
    <3>4. gs[i] = fs[i]
      BY <1>1, <3>1
    <3>5. Encode(gs[i]) = x
      BY <3>4
    <3> HIDE DEF x, y
    <3>6. Regrouped(x, y, e)
      BY <1>2, <3>2, <3>3, Regroup
    <3> QED BY <2>1, <3>2, <3>5, <3>6 DEF Regrouped
  <2> QED BY <2>2, <2>3
<1>7. Tails(p, gs)
  BY <1>1, <1>4, <1>5, <1>6 DEF Tails
<1>8. Longer(p, q, n, e)
  BY <1>4 DEF Longer
<1> QED BY <1>7, <1>8 DEF gs, e

\* What the router has still to read, and t of it that will never come: the
\* HELLO if the router does not know the node, and the frames after the first m.
Upstream(u, o, k, s, fs, m) ==
    \E t \in Seq(Byte) : \E q :
       /\ o => t = <<>>
       /\ Tails(q, fs)
       /\ u \o t = IF k = None /\ s # None THEN Encode(Greeting(s)) \o q[0] ELSE q[m]

\* At first nothing was written.
LEMMA UpNothing == Upstream(<<>>, TRUE, None, None, <<>>, 0)
<1> DEFINE q == [i \in 0 .. 0 |-> <<>>]
<1>1. Tails(q, <<>>)
  BY DEF Tails
<1>2. q[0] = <<>> /\ <<>> \in Seq(Byte) /\ <<>> \o <<>> = <<>>
  OBVIOUS
<1> HIDE DEF q
<1> QED BY <1>1, <1>2 DEF Upstream

\* The HELLO is the first thing written.
LEMMA UpHello ==
    ASSUME NEW d \in Descs, d # None, NEW o
    PROVE  Upstream(Encode(Greeting(d)), o, None, d, <<>>, 0)
<1> DEFINE q == [i \in 0 .. 0 |-> <<>>]
           e == Encode(Greeting(d))
<1>1. Tails(q, <<>>)
  BY DEF Tails
<1>2. e \in Seq(Byte)
  BY GreetingTyped, EncodeTyped DEF Plain
<1>3. q[0] = <<>> /\ <<>> \in Seq(Byte)
  OBVIOUS
<1> HIDE DEF q
<1>4. e \o <<>> = e \o q[0]
  BY <1>3
<1>5. e \o <<>> = e
  BY <1>2, Unended
<1> QED BY <1>1, <1>3, <1>4 DEF Upstream

\* A frame goes behind what is to be read.
LEMMA UpSend ==
    ASSUME NEW u \in Seq(Byte), NEW k, NEW s \in Descs, NEW fs \in Seq(Raw), NEW m \in 0 .. Len(fs),
           Upstream(u, TRUE, k, s, fs, m), NEW f \in Raw
    PROVE  Upstream(u \o Encode(f), TRUE, k, s, Append(fs, f), m)
<1> DEFINE e == Encode(f)
           g == Encode(Greeting(s))
           gs == Append(fs, f)
<1>0. PICK t \in Seq(Byte) : \E q :
         /\ t = <<>> /\ Tails(q, fs)
         /\ u \o t = IF k = None /\ s # None THEN g \o q[0] ELSE q[m]
  BY DEF Upstream
<1>1. PICK q :
         /\ t = <<>> /\ Tails(q, fs)
         /\ u \o t = IF k = None /\ s # None THEN g \o q[0] ELSE q[m]
  BY <1>0
<1>2. PICK p : Tails(p, gs) /\ Longer(p, q, Len(fs), e)
  BY <1>1, TailsMore
<1>3. e \in Seq(Byte) /\ g \in Seq(Byte)
  BY EncodeTyped, GreetingTyped DEF Plain
<1>4. q[0] \in Seq(Byte) /\ p[0] = q[0] \o e /\ p[m] = q[m] \o e
  <2>1. 0 \in 0 .. Len(fs)
    OBVIOUS
  <2> QED BY <1>1, <1>2, <2>1 DEF Tails, Longer
<1>5. u \o <<>> = u
  BY Unended
<1> HIDE DEF e, g, gs
<1>6. u = IF k = None /\ s # None THEN g \o q[0] ELSE q[m]
  BY <1>1, <1>5
<1>7. u \o e = IF k = None /\ s # None THEN g \o p[0] ELSE p[m]
  <2>1. CASE k = None /\ s # None
    <3> DEFINE y == q[0]
    <3>1. Regrouped(g, y, e)
      <4>1. y \in Seq(Byte)
        BY <1>4
      <4> HIDE DEF y
      <4> QED BY <1>3, <4>1, Regroup
    <3>2. u \o e = (g \o y) \o e
      BY <1>6, <2>1
    <3>3. p[0] = y \o e
      BY <1>4
    <3> HIDE DEF y
    <3> QED BY <2>1, <3>1, <3>2, <3>3 DEF Regrouped
  <2>2. CASE ~(k = None /\ s # None)
    BY <1>4, <1>6, <2>2
  <2> QED BY <2>1, <2>2
<1>8. (u \o e) \o <<>> = u \o e
  <2> DEFINE x == u \o e
  <2>1. x \in Seq(Byte)
    BY <1>3, Joined
  <2> HIDE DEF x
  <2>2. x \o <<>> = x
    BY <2>1, Unended
  <2> QED BY <2>2 DEF x
<1>9. <<>> \in Seq(Byte)
  OBVIOUS
<1> DEFINE x == u \o e
<1>10. x \o <<>> = IF k = None /\ s # None THEN g \o p[0] ELSE p[m]
  BY <1>7, <1>8
<1> HIDE DEF x
<1>11. Upstream(x, TRUE, k, s, gs, m)
  BY <1>2, <1>9, <1>10 DEF Upstream, g
<1> QED BY <1>11 DEF x, e, gs

\* A front and a back make the whole.
LEMMA Halves ==
    ASSUME NEW S, NEW b \in Seq(S), NEW n \in 0 .. Len(b)
    PROVE  SubSeq(b, 1, n) \o SubSeq(b, n + 1, Len(b)) = b
<1> DEFINE c == SubSeq(b, 1, n)
           d == SubSeq(b, n + 1, Len(b))
           e == c \o d
<1>0. Len(b) \in Nat /\ n \in Nat /\ n + 1 \in Nat \ {0} /\ Len(b) \in 0 .. Len(b)
  OBVIOUS
<1>1. /\ c \in Seq(S) /\ Len(c) = IF 1 <= n THEN n - 1 + 1 ELSE 0
      /\ \A i \in 1 .. n - 1 + 1 : c[i] = b[1 + i - 1]
  BY <1>0, Slice
<1>2. /\ d \in Seq(S) /\ Len(d) = IF n + 1 <= Len(b) THEN Len(b) - (n + 1) + 1 ELSE 0
      /\ \A i \in 1 .. Len(b) - (n + 1) + 1 : d[i] = b[n + 1 + i - 1]
  BY <1>0, Slice
<1> HIDE DEF c, d
<1>3. Len(c) = n /\ Len(d) = Len(b) - n
  BY <1>0, <1>1, <1>2
<1>4. /\ e \in Seq(S) /\ Len(e) = Len(c) + Len(d)
      /\ \A i \in 1 .. Len(c) : e[i] = c[i]
      /\ \A i \in 1 .. Len(d) : e[Len(c) + i] = d[i]
  <2>1. c \in Seq(S) /\ d \in Seq(S)
    BY <1>1, <1>2
  <2> QED BY <2>1, Joined
<1> HIDE DEF e
<1>5. Len(e) = Len(b)
  BY <1>0, <1>3, <1>4
<1>6. ASSUME NEW i \in 1 .. Len(e) PROVE e[i] = b[i]
  <2>1. CASE i <= n
    <3>1. i \in 1 .. Len(c) /\ i \in 1 .. n - 1 + 1 /\ 1 + i - 1 = i
      BY <1>0, <1>3, <1>5, <2>1
    <3> QED BY <1>1, <1>4, <3>1
  <2>2. CASE i > n
    <3> DEFINE k == i - n
    <3>1. k \in 1 .. Len(d) /\ k \in 1 .. Len(b) - (n + 1) + 1 /\ i = Len(c) + k /\ n + 1 + k - 1 = i
      BY <1>0, <1>3, <1>5, <2>2
    <3> HIDE DEF k
    <3> QED BY <1>2, <1>4, <3>1
  <2>3. i \in Nat
    BY <1>0, <1>5
  <2> QED BY <1>0, <2>1, <2>2, <2>3
<1>7. e = b
  BY <1>4, <1>5, <1>6, SeqEqual
<1> QED BY <1>7 DEF e, c, d

\* A stream that ends early lacks its end.
LEMMA UpEnd ==
    ASSUME NEW u \in Seq(Byte), NEW k, NEW s, NEW fs, NEW m,
           Upstream(u, TRUE, k, s, fs, m), NEW n \in 0 .. Len(u)
    PROVE  Upstream(SubSeq(u, 1, n), FALSE, k, s, fs, m)
<1> DEFINE c == SubSeq(u, 1, n)
           d == SubSeq(u, n + 1, Len(u))
           g == Encode(Greeting(s))
<1>0. PICK t \in Seq(Byte) : \E q :
         /\ t = <<>> /\ Tails(q, fs)
         /\ u \o t = IF k = None /\ s # None THEN g \o q[0] ELSE q[m]
  BY DEF Upstream
<1>1. PICK q :
         /\ t = <<>> /\ Tails(q, fs)
         /\ u \o t = IF k = None /\ s # None THEN g \o q[0] ELSE q[m]
  BY <1>0
<1>2. c \o d = u
  BY Halves
<1>3. u \o <<>> = u
  BY Unended
<1>4. d \in Seq(Byte)
  <2>1. n + 1 \in Nat \ {0} /\ Len(u) \in 0 .. Len(u)
    OBVIOUS
  <2> QED BY <2>1, Slice
<1> HIDE DEF c, d, g
<1>5. c \o d = IF k = None /\ s # None THEN g \o q[0] ELSE q[m]
  BY <1>1, <1>2, <1>3
<1>6. Upstream(c, FALSE, k, s, fs, m)
  BY <1>1, <1>4, <1>5 DEF Upstream, g
<1> QED BY <1>6 DEF c

\* What was not written is not read.
LEMMA NothingRead ==
    ASSUME NEW u \in Seq(Byte), NEW t \in Seq(Byte), u \o t = <<>>
    PROVE  u = <<>> /\ Read(u) = More
<1>1. Len(u \o t) = Len(u) + Len(t) /\ Len(u) \in Nat /\ Len(t) \in Nat
  BY Joined
<1>2. Len(u \o t) = 0
  OBVIOUS
<1>3. Len(u) = 0
  BY <1>1, <1>2
<1>4. u = <<>>
  BY <1>3
<1> QED BY <1>3, <1>4 DEF Read

\* The first read is for the HELLO, and leaves the frames.
LEMMA UpGreet ==
    ASSUME NEW u \in Seq(Byte), NEW o, NEW s \in Descs, s # None, NEW fs \in Seq(Raw),
           Upstream(u, o, None, s, fs, 0), Read(u) # More
    PROVE  /\ Gives(u, Greeting(s))
           /\ \A k : Read(u) # Error /\ k # None => Upstream(Read(u).rest, o, k, s, fs, 0)
<1> DEFINE g == Greeting(s)
<1>0. PICK t \in Seq(Byte) : \E q :
         /\ o => t = <<>>
         /\ Tails(q, fs)
         /\ u \o t = Encode(g) \o q[0]
  BY DEF Upstream
<1>1. PICK q :
         /\ o => t = <<>>
         /\ Tails(q, fs)
         /\ u \o t = Encode(g) \o q[0]
  BY <1>0
<1>2. q[0] \in Seq(Byte)
  <2>1. 0 \in 0 .. Len(fs)
    OBVIOUS
  <2> QED BY <1>1, <2>1 DEF Tails
<1>3. g \in Raw /\ Size(g) < U32
  BY GreetingTyped DEF Plain
<1> DEFINE y == q[0]
<1> HIDE DEF g
<1>4. Gives(u, g) /\ Leaves(u, t, y)
  <2>1. y \in Seq(Byte) /\ u \o t = Encode(g) \o y
    BY <1>1, <1>2
  <2> HIDE DEF y
  <2> QED BY <1>3, <2>1, ReadsFirst
<1>5. ASSUME NEW k, Read(u) # Error, k # None
      PROVE  Upstream(Read(u).rest, o, k, s, fs, 0)
  <2> DEFINE r == Read(u).rest
  <2>1. r \o t = y
    BY <1>4, <1>5 DEF Leaves
  <2> HIDE DEF r
  <2>2. r \o t = IF k = None /\ s # None THEN Encode(Greeting(s)) \o q[0] ELSE q[0]
    BY <1>5, <2>1
  <2>3. Upstream(r, o, k, s, fs, 0)
    BY <1>1, <2>2 DEF Upstream
  <2> QED BY <2>3 DEF r
<1> QED BY <1>4, <1>5 DEF g

\* The next read is for the next frame, and leaves the others.
LEMMA UpForward ==
    ASSUME NEW u \in Seq(Byte), NEW o, NEW k, k # None, NEW s, NEW fs \in Seq(Raw),
           NEW m \in 0 .. Len(fs),
           \A i \in 1 .. Len(fs) : Size(fs[i]) < U32,
           Upstream(u, o, k, s, fs, m), Read(u) # More
    PROVE  /\ m < Len(fs)
           /\ Gives(u, fs[m + 1])
           /\ Read(u) # Error => Upstream(Read(u).rest, o, k, s, fs, m + 1)
<1> DEFINE n == m + 1
           f == fs[n]
<1>0. PICK t \in Seq(Byte) : \E q :
         /\ o => t = <<>>
         /\ Tails(q, fs)
         /\ u \o t = q[m]
  BY DEF Upstream
<1>1. PICK q :
         /\ o => t = <<>>
         /\ Tails(q, fs)
         /\ u \o t = q[m]
  BY <1>0
<1>2. CASE m = Len(fs)
  <2>1. u \o t = <<>>
    BY <1>1, <1>2 DEF Tails
  <2> QED BY <2>1, NothingRead
<1>3. CASE m # Len(fs)
  <2> DEFINE y == q[n]
  <2>1. n \in 1 .. Len(fs) /\ n \in 0 .. Len(fs) /\ n - 1 = m /\ m < Len(fs)
    BY <1>3
  <2>2. f \in Raw /\ Size(f) < U32
    BY <2>1
  <2>3. y \in Seq(Byte) /\ q[n - 1] = Encode(f) \o y
    BY <1>1, <2>1 DEF Tails
  <2>4. u \o t = Encode(f) \o y
    BY <1>1, <2>1, <2>3
  <2> HIDE DEF f, y, n
  <2>5. Gives(u, f) /\ Leaves(u, t, y)
    BY <2>2, <2>3, <2>4, ReadsFirst
  <2>6. ASSUME Read(u) # Error PROVE Upstream(Read(u).rest, o, k, s, fs, n)
    <3> DEFINE r == Read(u).rest
    <3>1. r \o t = y
      BY <2>5, <2>6 DEF Leaves
    <3> HIDE DEF r
    <3>2. r \o t = IF k = None /\ s # None THEN Encode(Greeting(s)) \o q[0] ELSE q[n]
      BY <3>1 DEF y
    <3>3. Upstream(r, o, k, s, fs, n)
      BY <1>1, <3>2 DEF Upstream
    <3> QED BY <3>3 DEF r
  <2> QED BY <2>1, <2>5, <2>6 DEF f, n
<1> QED BY <1>2, <1>3

-----------------------------------------------------------------------------
(* The stream to the peer. *)

\* x is what is in the stream before the peer reads g, and y what is after it.
Letter(x, y, g) == Plain(g) /\ x = Encode(g) \o y

\* g is the next of the forwarded frames, or a list; a of the frames of fw were
\* written before it, and b with it.
Post(g, a, b, fw, k) ==
    \/ b = a + 1 /\ b \in 1 .. Len(fw) /\ g = Stamped(fw[b]) /\ g.typ = ROUTE
    \/ b = a /\ g.typ = PROVIDERS /\ \E es \in Offers(k) : g = Listing(es)

\* A letter between the two states of the stream.
Step(x, y, a, b, fw, k) == \E g : Letter(x, y, g) /\ Post(g, a, b, fw, k)

\* q[j] is the stream after j more reads, and c[j] the forwarded frames then read.
Mail(q, c, n, fw, k) ==
    /\ q[n] = <<>> /\ c[n] = Len(fw)
    /\ \A j \in 0 .. n : q[j] \in Seq(Byte) /\ c[j] \in 0 .. Len(fw)
    /\ \A j \in 1 .. n : Step(q[j - 1], q[j], c[j - 1], c[j], fw, k)

\* What is in the stream to a peer that has read a of the forwarded frames.
Downstream(d, a, fw, k) ==
    \E n \in Nat : \E q, c : q[0] = d /\ c[0] = a /\ Mail(q, c, n, fw, k)

\* Nothing in the stream, nothing read.
LEMMA DownNothing == ASSUME NEW k PROVE Downstream(<<>>, 0, <<>>, k)
<1> DEFINE q == [j \in 0 .. 0 |-> <<>>]
           c == [j \in 0 .. 0 |-> 0]
<1>1. /\ q[0] = <<>> /\ c[0] = 0 /\ <<>> \in Seq(Byte) /\ Len(<<>>) = 0
      /\ \A j \in 0 .. 0 : j = 0
  OBVIOUS
<1> HIDE DEF q, c
<1>2. Mail(q, c, 0, <<>>, k)
  <2>1. q[0] = <<>> /\ c[0] = Len(<<>>)
    BY <1>1
  <2>2. 0 \in 0 .. Len(<<>>)
    BY <1>1
  <2>3. \A j \in 0 .. 0 : q[j] \in Seq(Byte) /\ c[j] \in 0 .. Len(<<>>)
    BY <1>1, <2>2
  <2>4. ASSUME NEW j \in 1 .. 0 PROVE FALSE
    OBVIOUS
  <2> QED BY <2>1, <2>3, <2>4 DEF Mail
<1>3. 0 \in Nat
  OBVIOUS
<1> QED BY <1>1, <1>2, <1>3 DEF Downstream

\* What is written behind does not change the letter.
LEMMA LetterGrows ==
    ASSUME NEW x, NEW y \in Seq(Byte), NEW g, Letter(x, y, g), NEW e \in Seq(Byte)
    PROVE  Letter(x \o e, y \o e, g)
<1> DEFINE z == Encode(g)
<1>1. z \in Seq(Byte) /\ x = z \o y
  BY EncodeTyped DEF Letter, Plain
<1> HIDE DEF z
<1>2. Regrouped(z, y, e)
  BY <1>1, Regroup
<1>3. x \o e = z \o (y \o e)
  BY <1>1, <1>2 DEF Regrouped
<1> QED BY <1>3 DEF Letter, z

\* fw goes on as fw2.
Extends(fw2, fw) == Len(fw) <= Len(fw2) /\ \A i \in 1 .. Len(fw) : fw2[i] = fw[i]

\* Nor do frames forwarded since.
LEMMA StepGrows ==
    ASSUME NEW S, NEW fw \in Seq(S), NEW fw2 \in Seq(S), Extends(fw2, fw),
           NEW x, NEW y \in Seq(Byte), NEW a, NEW b, NEW k, Step(x, y, a, b, fw, k),
           NEW e \in Seq(Byte)
    PROVE  Step(x \o e, y \o e, a, b, fw2, k)
<1>1. PICK g : Letter(x, y, g) /\ Post(g, a, b, fw, k)
  BY DEF Step
<1>2. Letter(x \o e, y \o e, g)
  BY <1>1, LetterGrows
<1>3. b \in 1 .. Len(fw) => b \in 1 .. Len(fw2) /\ fw2[b] = fw[b]
  BY DEF Extends
<1>4. Post(g, a, b, fw2, k)
  BY <1>1, <1>3 DEF Post
<1> QED BY <1>2, <1>4 DEF Step

\* One more letter at the end.
LEMMA MailMore ==
    ASSUME NEW S, NEW fw \in Seq(S), NEW fw2 \in Seq(S), Extends(fw2, fw),
           NEW d, NEW a, NEW k, Downstream(d, a, fw, k),
           NEW g, Plain(g), Post(g, Len(fw), Len(fw2), fw2, k)
    PROVE  Downstream(d \o Encode(g), a, fw2, k)
<1> DEFINE e == Encode(g)
<1>0. PICK n \in Nat : \E q, c : q[0] = d /\ c[0] = a /\ Mail(q, c, n, fw, k)
  BY DEF Downstream
<1>1. PICK q, c : q[0] = d /\ c[0] = a /\ Mail(q, c, n, fw, k)
  BY <1>0
<1>2. e \in Seq(Byte)
  BY EncodeTyped DEF Plain
<1> DEFINE m == n + 1
           p == [j \in 0 .. m |-> IF j = m THEN <<>> ELSE q[j] \o e]
           b == [j \in 0 .. m |-> IF j = m THEN Len(fw2) ELSE c[j]]
<1>3. /\ m \in Nat /\ m \in 0 .. m /\ m - 1 = n /\ n \in 0 .. n
      /\ \A j \in 0 .. n : j \in 0 .. m /\ j # m
      /\ \A j \in 0 .. m : j = m \/ j \in 0 .. n
      /\ \A j \in 1 .. m : j = m \/ (j \in 1 .. n /\ j \in 0 .. n /\ j - 1 \in 0 .. n)
  OBVIOUS
<1>4. /\ \A j \in 0 .. m : p[j] = IF j = m THEN <<>> ELSE q[j] \o e
      /\ \A j \in 0 .. m : b[j] = IF j = m THEN Len(fw2) ELSE c[j]
  OBVIOUS
<1> HIDE DEF p, b, e, m
<1>5. p[m] = <<>> /\ b[m] = Len(fw2)
  BY <1>3, <1>4
<1>6. ASSUME NEW j \in 0 .. n PROVE p[j] = q[j] \o e /\ b[j] = c[j]
  BY <1>3, <1>4
<1>7. /\ q[n] = <<>> /\ c[n] = Len(fw)
      /\ \A j \in 0 .. n : q[j] \in Seq(Byte) /\ c[j] \in 0 .. Len(fw)
      /\ \A j \in 1 .. n : Step(q[j - 1], q[j], c[j - 1], c[j], fw, k)
  BY <1>1 DEF Mail
<1>8. ASSUME NEW j \in 0 .. m PROVE p[j] \in Seq(Byte) /\ b[j] \in 0 .. Len(fw2)
  <2>1. CASE j = m
    <3>1. <<>> \in Seq(Byte) /\ Len(fw2) \in 0 .. Len(fw2)
      OBVIOUS
    <3> QED BY <1>5, <2>1, <3>1
  <2>2. CASE j # m
    <3> DEFINE x == q[j]
    <3>1. x \in Seq(Byte) /\ c[j] \in 0 .. Len(fw) /\ p[j] = x \o e /\ b[j] = c[j]
      BY <1>3, <1>6, <1>7, <2>2
    <3> HIDE DEF x
    <3>2. p[j] \in Seq(Byte)
      BY <1>2, <3>1, Joined
    <3>3. b[j] \in 0 .. Len(fw2)
      <4>1. Len(fw) \in Nat /\ Len(fw2) \in Nat /\ Len(fw) <= Len(fw2)
        BY DEF Extends
      <4> QED BY <3>1, <4>1
    <3> QED BY <3>2, <3>3
  <2> QED BY <2>1, <2>2
<1>9. ASSUME NEW j \in 1 .. m PROVE Step(p[j - 1], p[j], b[j - 1], b[j], fw2, k)
  <2>1. CASE j = m
    <3>1. p[j - 1] = <<>> \o e /\ b[j - 1] = Len(fw) /\ p[j] = <<>> /\ b[j] = Len(fw2)
      BY <1>3, <1>5, <1>6, <1>7, <2>1
    <3>2. <<>> \o e = e /\ e \o <<>> = e
      BY <1>2
    <3>3. p[j - 1] = e \o p[j]
      BY <3>1, <3>2
    <3>4. Letter(p[j - 1], p[j], g)
      BY <3>3 DEF Letter, e
    <3>5. Post(g, b[j - 1], b[j], fw2, k)
      BY <3>1
    <3> QED BY <3>4, <3>5 DEF Step
  <2>2. CASE j # m
    <3> DEFINE x == q[j - 1]
               y == q[j]
    <3>0. j \in 1 .. n /\ j \in 0 .. n /\ j - 1 \in 0 .. n
      BY <1>3, <2>2
    <3>1. Step(x, y, c[j - 1], c[j], fw, k) /\ y \in Seq(Byte)
      BY <1>7, <3>0
    <3>2. p[j - 1] = x \o e /\ p[j] = y \o e /\ b[j - 1] = c[j - 1] /\ b[j] = c[j]
      BY <1>6, <3>0
    <3> HIDE DEF x, y
    <3>3. Step(x \o e, y \o e, c[j - 1], c[j], fw2, k)
      BY <1>2, <3>1, StepGrows
    <3> QED BY <3>2, <3>3
  <2> QED BY <2>1, <2>2
<1>10. Mail(p, b, m, fw2, k)
  BY <1>5, <1>8, <1>9 DEF Mail
<1>11. p[0] = d \o e /\ b[0] = a
  <2>1. 0 \in 0 .. n
    OBVIOUS
  <2> QED BY <1>1, <1>6, <2>1
<1>12. Downstream(d \o e, a, fw2, k)
  BY <1>3, <1>10, <1>11 DEF Downstream
<1> QED BY <1>12 DEF e

\* What the peer finds in the stream: g, and then the rest.
Finds(d, a, fw, k, g, b) ==
    /\ Plain(g) /\ Gives(d, g) /\ Post(g, a, b, fw, k)
    /\ Read(d) # Error => Downstream(Read(d).rest, b, fw, k)

\* A read of the peer is for the first letter, and leaves the others.
LEMMA MailLess ==
    ASSUME NEW d \in Seq(Byte), NEW a, NEW fw, NEW k, Downstream(d, a, fw, k),
           Read(d) # More
    PROVE  \E g, b : Finds(d, a, fw, k, g, b)
<1>0. PICK n \in Nat : \E q, c : q[0] = d /\ c[0] = a /\ Mail(q, c, n, fw, k)
  BY DEF Downstream
<1>1. PICK q, c : q[0] = d /\ c[0] = a /\ Mail(q, c, n, fw, k)
  BY <1>0
<1>2. n # 0
  <2> SUFFICES ASSUME n = 0 PROVE FALSE
    OBVIOUS
  <2>1. d = <<>> /\ d \o <<>> = <<>> /\ <<>> \in Seq(Byte)
    BY <1>1 DEF Mail
  <2> QED BY <2>1, NothingRead
<1> DEFINE m == n - 1
           p == [j \in 0 .. m |-> q[j + 1]]
           b == [j \in 0 .. m |-> c[j + 1]]
<1>3. /\ m \in Nat /\ m \in 0 .. m /\ 0 \in 0 .. m /\ m + 1 = n /\ 1 \in 1 .. n /\ 0 + 1 = 1
      /\ 1 - 1 = 0 /\ 1 \in 0 .. n
      /\ \A j \in 0 .. m : j + 1 \in 0 .. n
      /\ \A j \in 1 .. m : j + 1 \in 1 .. n /\ (j + 1) - 1 = j /\ (j - 1) + 1 = j
                           /\ j - 1 \in 0 .. m /\ j \in 0 .. m
  BY <1>2
<1>4. \A j \in 0 .. m : p[j] = q[j + 1] /\ b[j] = c[j + 1]
  OBVIOUS
<1> HIDE DEF p, b, m
<1>5. /\ q[n] = <<>> /\ c[n] = Len(fw)
      /\ \A j \in 0 .. n : q[j] \in Seq(Byte) /\ c[j] \in 0 .. Len(fw)
      /\ \A j \in 1 .. n : Step(q[j - 1], q[j], c[j - 1], c[j], fw, k)
  BY <1>1 DEF Mail
<1>6. p[m] = <<>> /\ b[m] = Len(fw)
  BY <1>3, <1>4, <1>5
<1>7. ASSUME NEW j \in 0 .. m PROVE p[j] \in Seq(Byte) /\ b[j] \in 0 .. Len(fw)
  BY <1>3, <1>4, <1>5
<1>8. ASSUME NEW j \in 1 .. m PROVE Step(p[j - 1], p[j], b[j - 1], b[j], fw, k)
  <2> DEFINE i == j + 1
  <2>1. i \in 1 .. n /\ i - 1 = j
    BY <1>3
  <2>2. Step(q[j], q[i], c[j], c[i], fw, k)
    <3> HIDE DEF i
    <3>1. Step(q[i - 1], q[i], c[i - 1], c[i], fw, k)
      BY <1>5, <2>1
    <3> QED BY <2>1, <3>1
  <2>3. p[j] = q[i] /\ b[j] = c[i]
    BY <1>3, <1>4
  <2>4. p[j - 1] = q[j] /\ b[j - 1] = c[j]
    <3> DEFINE h == j - 1
    <3>1. h \in 0 .. m /\ h + 1 = j
      BY <1>3
    <3> HIDE DEF h
    <3>2. p[h] = q[j] /\ b[h] = c[j]
      BY <1>4, <3>1
    <3> QED BY <3>2 DEF h
  <2> QED BY <2>2, <2>3, <2>4
<1>9. Mail(p, b, m, fw, k)
  BY <1>6, <1>7, <1>8 DEF Mail
<1>10. Downstream(p[0], b[0], fw, k)
  BY <1>3, <1>9 DEF Downstream
<1> DEFINE y == p[0]
<1>11. y = q[1] /\ b[0] = c[1] /\ y \in Seq(Byte)
  BY <1>3, <1>4, <1>7
<1>12. Step(d, y, a, b[0], fw, k)
  <2>1. Step(q[1 - 1], q[1], c[1 - 1], c[1], fw, k)
    BY <1>3, <1>5
  <2>2. Step(q[0], q[1], c[0], c[1], fw, k)
    BY <1>3, <2>1
  <2> QED BY <1>1, <1>11, <2>2
<1>13. PICK g : Letter(d, y, g) /\ Post(g, a, b[0], fw, k)
  BY <1>12 DEF Step
<1> HIDE DEF y
<1>14. g \in Raw /\ Size(g) < U32 /\ d = Encode(g) \o y
  BY <1>13 DEF Letter, Plain
<1>15. Gives(d, g) /\ Leaves(d, <<>>, y)
  <2>1. d \o <<>> = d /\ <<>> \in Seq(Byte)
    BY Unended
  <2> DEFINE t == <<>>
  <2>2. d \o t = Encode(g) \o y /\ t \in Seq(Byte)
    BY <1>14, <2>1
  <2> HIDE DEF t
  <2>3. Gives(d, g) /\ Leaves(d, t, y)
    BY <1>11, <1>14, <2>2, ReadsFirst
  <2> QED BY <2>3 DEF t
<1>16. ASSUME Read(d) # Error PROVE Downstream(Read(d).rest, b[0], fw, k)
  <2> DEFINE r == Read(d).rest
  <2>1. r \o <<>> = y
    BY <1>15, <1>16 DEF Leaves
  <2>2. r \in Seq(Byte)
    BY <1>16, Outcome
  <2> HIDE DEF r
  <2>3. r = y
    BY <2>1, <2>2, Unended
  <2> QED BY <1>10, <2>3 DEF r, y
<1>17. Finds(d, a, fw, k, g, b[0])
  BY <1>13, <1>15, <1>16 DEF Finds, Letter
<1> QED BY <1>17

-----------------------------------------------------------------------------
(* The inductive invariant. *)

\* Before HELLO nothing is written, and nothing is registered.
Told == said = None => sent = <<>> /\ up = <<>> /\ known = None

\* Before the node is registered nothing goes to the peer.
Early == known = None => /\ down = <<>> /\ forwarded = <<>> /\ got = <<>> /\ lists = <<>>
                         /\ peer = "reading"

\* What is registered came in one frame, and is what was said if that fits.
Noted == known # None => /\ said # None
                         /\ Cheap(known)
                         /\ ShortDescriptor(said) => known = said

\* The forwarded frames are the first of those sent, mended.
Relayed == /\ Len(forwarded) <= Len(sent)
           /\ \A i \in 1 .. Len(forwarded) : /\ Readable(sent[i])
                                             /\ forwarded[i] = Mended(sent[i])

\* The frames that the peer read are the first of those forwarded, stamped.
Delivered == /\ Len(got) <= Len(forwarded)
             /\ \A i \in 1 .. Len(got) : got[i] = Stamped(forwarded[i])

\* What is to be read is what was written and not read.
FromNode == relay = "reading" => Upstream(up, open, known, said, sent, Len(forwarded))
\* So at the peer.
ToPeer == peer = "reading" => Downstream(down, Len(got), forwarded, known)

\* The peer reads the lists that were written.
Answered == known # None /\ Short(Id) /\ ShortDescriptor(known) =>
                \A i \in 1 .. Len(lists) : lists[i] \in Offers(known)

\* Why a read of the router fails.
NodeFails == relay = "failed" => \/ ~open
                                 \/ /\ said # None
                                    /\ \/ ~ShortDescriptor(said)
                                       \/ ~Readable(Greeting(said))
                                       \/ \E i \in 1 .. Len(sent) : ~Readable(sent[i])

\* Why a read of the peer fails.
PeerFails == peer = "failed" => \/ \E i \in 1 .. Len(forwarded) : ~Readable(Stamped(forwarded[i]))
                                \/ ~Readable(Listing(Offer(known)))

\* The streams are written and read frame by frame.
Inv == /\ TypeOK
       /\ Told /\ Early /\ Noted
       /\ Relayed /\ Delivered
       /\ FromNode /\ ToPeer
       /\ Answered
       /\ NodeFails /\ PeerFails

\* The frames sent can be written.
LEMMA SentRaw ==
    ASSUME NEW fs \in Seq(Envelopes)
    PROVE  /\ fs \in Seq(Raw)
           /\ \A i \in 1 .. Len(fs) : fs[i] \in Envelopes /\ fs[i] \in Raw /\ Size(fs[i]) < U32
<1>1. Envelopes \subseteq Raw
  BY SentTyped
<1>2. ASSUME NEW i \in 1 .. Len(fs) PROVE fs[i] \in Envelopes
  OBVIOUS
<1> QED BY <1>1, <1>2, SentTyped

\* One lemma per action.
LEMMA InitKeeps == Init => Inv
<1> SUFFICES ASSUME Init PROVE Inv
  OBVIOUS
<1>1. /\ up = <<>> /\ down = <<>> /\ open = TRUE /\ said = None /\ known = None
      /\ sent = <<>> /\ forwarded = <<>> /\ relay = "reading" /\ peer = "reading"
      /\ got = <<>> /\ lists = <<>> /\ asked = 0
  BY DEF Init
<1>2. MaxLists \in Nat
  BY WireAssumption
<1>3. TypeOK
  BY <1>1, <1>2 DEF TypeOK
<1>4. Told /\ Early /\ Noted /\ Answered /\ NodeFails /\ PeerFails
  BY <1>1 DEF Told, Early, Noted, Answered, NodeFails, PeerFails
<1>5. Relayed /\ Delivered
  BY <1>1 DEF Relayed, Delivered
<1>6. FromNode
  <2>1. Upstream(<<>>, TRUE, None, None, <<>>, 0)
    BY UpNothing
  <2>2. Len(<<>>) = 0
    OBVIOUS
  <2> QED BY <1>1, <2>1, <2>2 DEF FromNode
<1>7. ToPeer
  <2>1. Downstream(<<>>, 0, <<>>, None)
    BY DownNothing
  <2>2. Len(<<>>) = 0
    OBVIOUS
  <2> QED BY <1>1, <2>1, <2>2 DEF ToPeer
<1> QED BY <1>3, <1>4, <1>5, <1>6, <1>7 DEF Inv

LEMMA HelloKeeps ==
    ASSUME Inv, NEW d \in Descs, Hello(d)
    PROVE  Inv'
<1>1. /\ open /\ said = None /\ said' = d /\ up' = Encode(Greeting(d))
      /\ open' = open /\ sent' = sent /\ relay' = relay /\ known' = known
      /\ forwarded' = forwarded /\ down' = down /\ peer' = peer /\ got' = got
      /\ lists' = lists /\ asked' = asked
  BY DEF Hello, router, other
<1>2. d # None /\ up' \in Seq(Byte)
  <2>1. d \in Descriptors /\ None \notin Descriptors /\ Greeting(d) \in Raw
    BY WireAssumption, GreetingTyped DEF Plain
  <2>2. up' \in Seq(Byte)
    BY <1>1, <2>1, EncodeTyped
  <2> QED BY <2>1, <2>2
<1>3. TypeOK'
  BY <1>1, <1>2 DEF Inv, TypeOK
<1>4. sent = <<>> /\ known = None
  BY <1>1 DEF Inv, Told
<1>5. forwarded = <<>> /\ got = <<>> /\ lists = <<>> /\ peer = "reading" /\ down = <<>>
  BY <1>4 DEF Inv, Early
<1>6. Told' /\ Early' /\ Noted' /\ Answered' /\ PeerFails'
  BY <1>1, <1>2, <1>4, <1>5 DEF Inv, Told, Early, Noted, Answered, PeerFails
<1>7. Relayed' /\ Delivered'
  BY <1>1 DEF Inv, Relayed, Delivered
<1>8. ToPeer'
  BY <1>1 DEF Inv, ToPeer
<1>9. NodeFails'
  BY <1>1 DEF Inv, NodeFails
<1>10. FromNode'
  <2>1. Upstream(Encode(Greeting(d)), open, None, d, <<>>, 0)
    BY <1>2, UpHello
  <2>2. Len(<<>>) = 0
    OBVIOUS
  <2> QED BY <1>1, <1>4, <1>5, <2>1, <2>2 DEF FromNode
<1> QED BY <1>3, <1>6, <1>7, <1>8, <1>9, <1>10 DEF Inv

LEMMA SendKeeps ==
    ASSUME Inv, NEW f \in Envelopes, Send(f)
    PROVE  Inv'
<1>1. /\ open /\ said # None /\ sent' = Append(sent, f) /\ up' = up \o Encode(f)
      /\ open' = open /\ said' = said /\ relay' = relay /\ known' = known
      /\ forwarded' = forwarded /\ down' = down /\ peer' = peer /\ got' = got
      /\ lists' = lists /\ asked' = asked
  BY DEF Send, router, other
<1>2. /\ up \in Seq(Byte) /\ sent \in Seq(Envelopes) /\ open = TRUE
      /\ said \in Descs /\ forwarded \in Seq(Frames)
  BY <1>1 DEF Inv, TypeOK
<1>3. f \in Raw /\ Encode(f) \in Seq(Byte) /\ sent \in Seq(Raw)
  BY <1>2, SentTyped, EncodeTyped, SentRaw
<1>4. up' \in Seq(Byte)
  BY <1>1, <1>2, <1>3, Joined
<1>5. sent' \in Seq(Envelopes) /\ Len(sent') = Len(sent) + 1 /\ Len(sent) \in Nat
      /\ Len(forwarded) \in Nat /\ \A i \in 1 .. Len(sent) : sent'[i] = sent[i]
  BY <1>1, <1>2
<1>6. TypeOK'
  BY <1>1, <1>4, <1>5 DEF Inv, TypeOK
<1>7. Told' /\ Early' /\ Noted' /\ Answered' /\ PeerFails'
  BY <1>1 DEF Inv, Told, Early, Noted, Answered, PeerFails
<1>8. Relayed'
  <2>1. Len(forwarded) <= Len(sent)
    BY DEF Inv, Relayed
  <2>2. \A i \in 1 .. Len(forwarded) : i \in 1 .. Len(sent)
    BY <1>5, <2>1
  <2> QED BY <1>1, <1>5, <2>1, <2>2 DEF Inv, Relayed
<1>9. Delivered' /\ ToPeer'
  BY <1>1 DEF Inv, Delivered, ToPeer
<1>10. NodeFails'
  <2>1. \A i \in 1 .. Len(sent) : i \in 1 .. Len(sent')
    BY <1>5
  <2> QED BY <1>1, <1>5, <2>1 DEF Inv, NodeFails
<1>11. FromNode'
  <2>1. ASSUME relay = "reading" PROVE Upstream(up', TRUE, known, said, sent', Len(forwarded))
    <3>1. Upstream(up, TRUE, known, said, sent, Len(forwarded))
      BY <1>2, <2>1 DEF Inv, FromNode
    <3>2. Len(forwarded) \in 0 .. Len(sent)
      BY <1>5 DEF Inv, Relayed
    <3>3. Upstream(up \o Encode(f), TRUE, known, said, Append(sent, f), Len(forwarded))
      BY <1>2, <1>3, <3>1, <3>2, UpSend
    <3> QED BY <1>1, <3>3
  <2> QED BY <1>1, <1>2, <2>1 DEF FromNode
<1> QED BY <1>6, <1>7, <1>8, <1>9, <1>10, <1>11 DEF Inv

LEMMA EndKeeps ==
    ASSUME Inv, End
    PROVE  Inv'
<1>1. /\ open /\ open' = FALSE /\ said' = said /\ sent' = sent /\ relay' = relay /\ known' = known
      /\ forwarded' = forwarded /\ down' = down /\ peer' = peer /\ got' = got
      /\ lists' = lists /\ asked' = asked
  BY DEF End, router, other
<1>2. PICK n \in 0 .. Len(up) : up' = SubSeq(up, 1, n)
  BY DEF End
<1>3. up \in Seq(Byte) /\ open = TRUE
  BY <1>1 DEF Inv, TypeOK
<1>4. up' \in Seq(Byte) /\ (up = <<>> => up' = <<>>)
  <2>1. 1 \in Nat \ {0}
    OBVIOUS
  <2> DEFINE c == SubSeq(up, 1, n)
  <2>2. c \in Seq(Byte) /\ Len(c) = IF 1 <= n THEN n - 1 + 1 ELSE 0
    <3> DEFINE m == 1
    <3>1. m \in Nat \ {0} /\ m = 1
      OBVIOUS
    <3> HIDE DEF m
    <3>2. SubSeq(up, m, n) \in Seq(Byte) /\ Len(SubSeq(up, m, n)) = IF m <= n THEN n - m + 1 ELSE 0
      BY <1>2, <1>3, <3>1, Slice
    <3> QED BY <3>1, <3>2
  <2>3. ASSUME up = <<>> PROVE Len(c) = 0
    <3>1. n = 0
      BY <1>2, <2>3
    <3> QED BY <2>2, <3>1
  <2> HIDE DEF c
  <2>4. up = <<>> => c = <<>>
    BY <2>2, <2>3, EmptySeq
  <2> QED BY <1>2, <2>2, <2>4 DEF c
<1>5. TypeOK'
  BY <1>1, <1>4 DEF Inv, TypeOK
<1>6. Told' /\ Early' /\ Noted' /\ Answered' /\ PeerFails'
  BY <1>1, <1>4 DEF Inv, Told, Early, Noted, Answered, PeerFails
<1>7. Relayed' /\ Delivered' /\ ToPeer'
  BY <1>1 DEF Inv, Relayed, Delivered, ToPeer
<1>8. NodeFails'
  BY <1>1 DEF NodeFails
<1>9. FromNode'
  <2>1. ASSUME relay = "reading" PROVE Upstream(up', FALSE, known, said, sent, Len(forwarded))
    <3>1. Upstream(up, TRUE, known, said, sent, Len(forwarded))
      BY <1>3, <2>1 DEF Inv, FromNode
    <3>2. Upstream(SubSeq(up, 1, n), FALSE, known, said, sent, Len(forwarded))
      BY <1>2, <1>3, <3>1, UpEnd
    <3> QED BY <1>2, <3>2
  <2> QED BY <1>1, <2>1 DEF FromNode
<1> QED BY <1>5, <1>6, <1>7, <1>8, <1>9 DEF Inv

LEMMA ReadEndsKeeps ==
    ASSUME Inv, ReadEnds
    PROVE  Inv'
<1>1. /\ relay = "reading"
      /\ up' = up /\ open' = open /\ said' = said /\ sent' = sent /\ known' = known
      /\ forwarded' = forwarded /\ down' = down /\ peer' = peer /\ got' = got
      /\ lists' = lists /\ asked' = asked
  BY DEF ReadEnds, node, other
<1>2. \/ Read(up) = Error /\ relay' = "failed"
      \/ ~open /\ relay' \in {"eof", "failed"}
  BY DEF ReadEnds
<1>3. /\ up \in Seq(Byte) /\ sent \in Seq(Envelopes) /\ said \in Descs \cup {None}
      /\ forwarded \in Seq(Frames)
  BY DEF Inv, TypeOK
<1>4. TypeOK'
  BY <1>1, <1>2 DEF Inv, TypeOK
<1>5. Told' /\ Early' /\ Noted' /\ Answered' /\ PeerFails'
  BY <1>1 DEF Inv, Told, Early, Noted, Answered, PeerFails
<1>6. Relayed' /\ Delivered' /\ ToPeer'
  BY <1>1 DEF Inv, Relayed, Delivered, ToPeer
<1>7. FromNode'
  BY <1>2 DEF FromNode
<1>8. NodeFails'
  <2>1. CASE ~open
    BY <1>1, <2>1 DEF NodeFails
  <2>2. CASE Read(up) = Error
    <3>1. Read(up) # More
      BY <2>2, NoResult
    <3>2. said # None
      <4> SUFFICES ASSUME said = None PROVE FALSE
        OBVIOUS
      <4>1. up = <<>> /\ up \o <<>> = up /\ <<>> \in Seq(Byte)
        BY <1>3, Unended DEF Inv, Told
      <4> QED BY <1>3, <3>1, <4>1, NothingRead
    <3>3. sent \in Seq(Raw) /\ \A i \in 1 .. Len(sent) : Size(sent[i]) < U32
      BY <1>3, SentRaw
    <3>4. Upstream(up, open, known, said, sent, Len(forwarded))
      BY <1>1 DEF Inv, FromNode
    <3>5. CASE known = None
      <4>1. Len(forwarded) = 0
        BY <3>5 DEF Inv, Early
      <4>2. Upstream(up, open, None, said, sent, 0)
        BY <3>4, <3>5, <4>1
      <4>3. Gives(up, Greeting(said))
        BY <1>3, <3>1, <3>2, <3>3, <4>2, UpGreet
      <4>4. ~Readable(Greeting(said))
        BY <2>2, <4>3 DEF Gives
      <4> QED BY <1>1, <3>2, <4>4 DEF NodeFails
    <3>6. CASE known # None
      <4> DEFINE m == Len(forwarded)
                 n == m + 1
      <4>1. m \in 0 .. Len(sent) /\ m \in Nat /\ Len(sent) \in Nat
        BY <1>3 DEF Inv, Relayed
      <4>2. Upstream(up, open, known, said, sent, m)
        BY <3>4
      <4> HIDE DEF m
      <4>3. m < Len(sent) /\ Gives(up, sent[n])
        BY <1>3, <3>1, <3>3, <3>6, <4>1, <4>2, UpForward
      <4>4. ~Readable(sent[n])
        BY <2>2, <4>3 DEF Gives
      <4>5. n \in 1 .. Len(sent)
        BY <4>1, <4>3
      <4> QED BY <1>1, <3>2, <4>4, <4>5 DEF NodeFails
    <3> QED BY <3>5, <3>6
  <2> QED BY <1>2, <2>1, <2>2
<1> QED BY <1>4, <1>5, <1>6, <1>7, <1>8 DEF Inv

LEMMA GreetKeeps ==
    ASSUME Inv, Greet
    PROVE  Inv'
<1> DEFINE f == Read(up)
           d == decode_hello(f.value.payload)
<1>1. /\ relay = "reading" /\ known = None /\ f.status = "got"
      /\ \/ d = Error /\ relay' = "failed" /\ known' = known
         \/ d # Error /\ known' = d.value /\ relay' = relay
      /\ up' = f.rest
      /\ open' = open /\ said' = said /\ sent' = sent
      /\ forwarded' = forwarded /\ down' = down /\ peer' = peer /\ got' = got
      /\ lists' = lists /\ asked' = asked
  BY DEF Greet, node, other
<1>2. f # More /\ f # Error
  BY <1>1 DEF More, Error
<1>3. /\ up \in Seq(Byte) /\ sent \in Seq(Envelopes) /\ said \in Descs \cup {None}
      /\ forwarded \in Seq(Frames)
  BY DEF Inv, TypeOK
<1>4. up' \in Seq(Byte)
  BY <1>1, <1>2, <1>3, Outcome
<1>5. said # None
  <2> SUFFICES ASSUME said = None PROVE FALSE
    OBVIOUS
  <2>1. up = <<>> /\ up \o <<>> = up /\ <<>> \in Seq(Byte)
    BY <1>3, Unended DEF Inv, Told
  <2> QED BY <1>2, <1>3, <2>1, NothingRead
<1>6. forwarded = <<>> /\ got = <<>> /\ lists = <<>> /\ down = <<>> /\ peer = "reading" /\ Len(<<>>) = 0
  BY <1>1 DEF Inv, Early
<1>7. Upstream(up, open, None, said, sent, 0)
  BY <1>1, <1>6 DEF Inv, FromNode
<1>8. sent \in Seq(Raw) /\ said \in Descs
  BY <1>3, <1>5, SentRaw
<1>9. /\ Gives(up, Greeting(said))
      /\ \A k : Read(up) # Error /\ k # None => Upstream(Read(up).rest, open, k, said, sent, 0)
  BY <1>2, <1>3, <1>5, <1>7, <1>8, UpGreet
<1>10. /\ Plain(Greeting(said)) /\ Greeting(said).payload = encode_hello(said)
       /\ said \in Descriptors
  BY <1>8, GreetingTyped
<1>11. /\ Readable(Greeting(said)) /\ f.value = Greeting(said)
  BY <1>2, <1>9, <1>10 DEF Gives, Plain
<1> DEFINE b == encode_hello(said)
<1>12. d = decode_hello(b) /\ b \in Seq(Byte) /\ Worth(b) <= Len(Repl) * MAX_FRAME
  <2>1. d = decode_hello(b)
    BY <1>10, <1>11
  <2> DEFINE g == Greeting(said)
  <2>2. g \in Raw /\ g.payload = b
    BY <1>10 DEF Plain
  <2> HIDE DEF b, g
  <2>3. /\ Size(g) = 11 + Len(g.from) + Len(g.to) + Len(g.payload)
        /\ g.payload \in Seq(Byte) /\ Len(g.from) \in Nat /\ Len(g.to) \in Nat
    BY <2>2, FieldTypes
  <2> DEFINE x == Len(b)
             s == Size(g)
             y == Len(g.from)
             z == Len(g.to)
  <2>4. s = 11 + y + z + x /\ x \in Nat /\ y \in Nat /\ z \in Nat /\ s <= MAX_FRAME /\ MAX_FRAME \in Nat
    <3>1. Size(g) <= MAX_FRAME
      BY <1>11 DEF Readable, g
    <3>2. Len(b) \in Nat
      BY <2>2, <2>3
    <3> QED BY <2>2, <2>3, <3>1, <3>2, Limits
  <2>5. x <= MAX_FRAME
    <3> HIDE DEF x, s, y, z
    <3> QED BY <2>4
  <2>6. Len(Repl) \in Nat
    BY Limits
  <2>7. Len(Repl) * x <= Len(Repl) * MAX_FRAME
    <3> DEFINE R == Len(Repl)
    <3> HIDE DEF R, x
    <3>1. R \in Nat
      BY <2>6 DEF R
    <3> QED BY <2>4, <2>5, <3>1, Scaled DEF R
  <2> QED BY <2>1, <2>2, <2>3, <2>7 DEF Worth, b
<1> HIDE DEF d, b
<1>13. ShortDescriptor(said) => d = Got(said, <<>>)
  BY <1>10, <1>12, HelloRoundTrip DEF b
<1>14. Relayed' /\ Delivered'
  BY <1>1 DEF Inv, Relayed, Delivered
<1>15. CASE d = Error
  <2>1. relay' = "failed" /\ known' = None
    BY <1>1, <1>15 DEF d
  <2>2. TypeOK'
    BY <1>1, <1>4, <2>1 DEF Inv, TypeOK
  <2>3. ~ShortDescriptor(said)
    BY <1>13, <1>15, NoResult
  <2>4. NodeFails'
    BY <1>1, <1>5, <2>3 DEF NodeFails
  <2>5. Told' /\ Early' /\ Noted' /\ Answered' /\ PeerFails'
    BY <1>1, <1>5, <2>1 DEF Inv, Told, Early, Noted, Answered, PeerFails
  <2>6. FromNode' /\ ToPeer'
    BY <1>1, <2>1 DEF Inv, FromNode, ToPeer
  <2> QED BY <1>14, <2>2, <2>4, <2>5, <2>6 DEF Inv
<1>16. CASE d # Error
  <2>1. relay' = relay /\ known' = d.value
    BY <1>1, <1>16 DEF d
  <2>2. Heard(d, b)
    BY <1>12, <1>16, HelloTyped
  <2>3. PICK dd \in Descriptors : d = Got(dd, <<>>) /\ Len(PutDescriptor(dd)) <= Worth(b)
    BY <2>2 DEF Heard
  <2>4. known' = dd /\ dd # None
    BY <2>1, <2>3, NoResult, WireAssumption
  <2>5. Cheap(dd)
    <3>1. Len(PutDescriptor(dd)) \in Nat
      BY DescriptorParts
    <3>2. Worth(b) \in Nat
      BY <1>12, Worths
    <3> QED BY <1>12, <2>3, <3>1, <3>2, Limits DEF Cheap
  <2>6. ShortDescriptor(said) => dd = said
    BY <1>13, <2>3, NoResult
  <2>7. TypeOK'
    BY <1>1, <1>4, <2>1, <2>4 DEF Inv, TypeOK
  <2>8. Told' /\ Early' /\ Noted'
    BY <1>1, <1>5, <2>4, <2>5, <2>6 DEF Told, Early, Noted
  <2>9. Answered' /\ PeerFails'
    BY <1>1, <1>6 DEF Answered, PeerFails
  <2>10. NodeFails'
    BY <1>1, <2>1 DEF NodeFails
  <2>11. FromNode'
    <3>1. Upstream(f.rest, open, dd, said, sent, 0)
      BY <1>2, <1>9, <2>4
    <3> QED BY <1>1, <1>6, <2>4, <3>1 DEF FromNode
  <2>12. ToPeer'
    <3>1. Downstream(<<>>, 0, <<>>, dd)
      BY DownNothing
    <3> QED BY <1>1, <1>6, <2>4, <3>1 DEF ToPeer
  <2> QED BY <1>14, <2>7, <2>8, <2>9, <2>10, <2>11, <2>12 DEF Inv
<1> QED BY <1>15, <1>16

LEMMA ForwardKeeps ==
    ASSUME Inv, Forward
    PROVE  Inv'
<1> DEFINE v == Read(up).value
           m == Len(forwarded)
           n == m + 1
           f == sent[n]
<1>1. /\ relay = "reading" /\ known # None /\ Read(up).status = "got"
      /\ forwarded' = Append(forwarded, v)
      /\ down' = down \o Encode(Stamped(v))
      /\ up' = Read(up).rest
      /\ open' = open /\ said' = said /\ sent' = sent /\ relay' = relay /\ known' = known
      /\ peer' = peer /\ got' = got /\ lists' = lists /\ asked' = asked
  BY DEF Forward, node, other, Stamped
<1>2. Read(up) # More /\ Read(up) # Error
  BY <1>1 DEF More, Error
<1>3. /\ up \in Seq(Byte) /\ down \in Seq(Byte) /\ sent \in Seq(Envelopes)
      /\ forwarded \in Seq(Frames)
  BY DEF Inv, TypeOK
<1>4. up' \in Seq(Byte)
  BY <1>1, <1>2, <1>3, Outcome
<1>5. sent \in Seq(Raw) /\ \A i \in 1 .. Len(sent) : Size(sent[i]) < U32
  BY <1>3, SentRaw
<1>6. Upstream(up, open, known, said, sent, m) /\ m \in 0 .. Len(sent) /\ m \in Nat /\ Len(sent) \in Nat
  BY <1>1, <1>3 DEF Inv, FromNode, Relayed
<1> HIDE DEF m
<1>7. /\ m < Len(sent) /\ Gives(up, sent[n])
      /\ Upstream(Read(up).rest, open, known, said, sent, n)
  BY <1>1, <1>2, <1>3, <1>5, <1>6, UpForward
<1>8. n \in 1 .. Len(sent) /\ f \in Envelopes
  <2>1. n \in 1 .. Len(sent)
    BY <1>6, <1>7
  <2> HIDE DEF n
  <2> QED BY <1>3, <2>1
<1>9. Readable(f) /\ v = Mended(f)
  BY <1>2, <1>7 DEF Gives
<1> HIDE DEF v, f
<1>10. v \in Frames /\ Stamped(v) \in Frames /\ Plain(Stamped(v)) /\ Stamped(v).typ = ROUTE
  <2>1. f \in Raw
    BY <1>8, SentTyped
  <2> QED BY <1>8, <1>9, <2>1, MendedTyped, StampedTyped
<1>11. Encode(Stamped(v)) \in Seq(Byte)
  BY <1>10, EncodeTyped DEF Plain
<1>12. down' \in Seq(Byte)
  BY <1>1, <1>3, <1>11, Joined
<1>13. /\ forwarded' \in Seq(Frames) /\ Len(forwarded') = n
       /\ forwarded'[n] = v /\ \A i \in 1 .. m : forwarded'[i] = forwarded[i]
  BY <1>1, <1>3, <1>10 DEF m
<1>14. n \in Nat /\ \A i \in 1 .. n : i = n \/ i \in 1 .. m
  BY <1>6
<1>15. TypeOK'
  BY <1>1, <1>4, <1>12, <1>13 DEF Inv, TypeOK
<1>16. Told' /\ Early' /\ Noted' /\ Answered' /\ NodeFails'
  <2>1. said # None
    BY <1>1 DEF Inv, Noted
  <2> QED BY <1>1, <2>1 DEF Inv, Told, Early, Noted, Answered, NodeFails
<1> HIDE DEF n
<1>17. Relayed'
  <2>1. Len(forwarded') <= Len(sent')
    BY <1>1, <1>8, <1>13
  <2>2. ASSUME NEW i \in 1 .. Len(forwarded')
        PROVE  Readable(sent'[i]) /\ forwarded'[i] = Mended(sent'[i])
    <3>1. CASE i = n
      BY <1>1, <1>9, <1>13, <3>1 DEF f
    <3>2. CASE i # n
      <4>1. i \in 1 .. m
        BY <1>13, <1>14, <3>2
      <4>2. Readable(sent[i]) /\ forwarded[i] = Mended(sent[i])
        BY <4>1 DEF Inv, Relayed, m
      <4> QED BY <1>1, <1>13, <4>1, <4>2
    <3> QED BY <3>1, <3>2
  <2> QED BY <2>1, <2>2 DEF Relayed
<1>18. m <= n
  BY <1>6 DEF n
<1>19. Delivered'
  <2>1. Len(got) <= m /\ Len(got) \in Nat
    BY DEF Inv, Delivered, TypeOK, m
  <2>2. Len(got) <= n /\ \A i \in 1 .. Len(got) : i \in 1 .. m
    BY <1>6, <1>14, <1>18, <2>1
  <2>3. ASSUME NEW i \in 1 .. Len(got) PROVE got[i] = Stamped(forwarded'[i])
    <3>1. i \in 1 .. m /\ got[i] = Stamped(forwarded[i])
      BY <2>2 DEF Inv, Delivered
    <3> QED BY <1>13, <3>1
  <2> QED BY <1>1, <1>13, <2>2, <2>3 DEF Delivered
<1>20. FromNode'
  BY <1>1, <1>7, <1>13 DEF FromNode
<1>21. ToPeer'
  <2>1. Extends(forwarded', forwarded)
    BY <1>13, <1>18 DEF Extends, m
  <2>2. Post(Stamped(v), Len(forwarded), Len(forwarded'), forwarded', known)
    <3>1. Len(forwarded') \in 1 .. Len(forwarded')
      BY <1>13, <1>14, <1>8
    <3>2. Len(forwarded') = Len(forwarded) + 1
      BY <1>13 DEF n, m
    <3> QED BY <1>10, <1>13, <3>1, <3>2 DEF Post
  <2>3. ASSUME peer = "reading" PROVE Downstream(down', Len(got), forwarded', known)
    <3>1. Downstream(down, Len(got), forwarded, known)
      BY <2>3 DEF Inv, ToPeer
    <3>2. Downstream(down \o Encode(Stamped(v)), Len(got), forwarded', known)
      BY <1>3, <1>10, <1>13, <2>1, <2>2, <3>1, MailMore
    <3> QED BY <1>1, <3>2
  <2> QED BY <1>1, <2>3 DEF ToPeer
<1>22. PeerFails'
  <2>1. \A i \in 1 .. m : i \in 1 .. Len(forwarded')
    BY <1>6, <1>13, <1>14, <1>18
  <2>2. \A i \in 1 .. Len(forwarded) : forwarded'[i] = forwarded[i] /\ i \in 1 .. Len(forwarded')
    BY <1>13, <2>1 DEF m
  <2> QED BY <1>1, <2>2 DEF Inv, PeerFails
<1> QED BY <1>15, <1>16, <1>17, <1>19, <1>20, <1>21, <1>22 DEF Inv

LEMMA ListKeeps ==
    ASSUME Inv, NEW p \in Filters, List(p)
    PROVE  Inv'
<1> DEFINE brand == decode_brand_filter(p)
           es == IF brand \in {<<>>, known.brand} THEN <<[id |-> Id, desc |-> known]>> ELSE <<>>
           g == Listing(es)
<1>1. /\ known # None /\ asked < MaxLists /\ asked' = asked + 1
      /\ down' = down \o Encode(g)
      /\ up' = up /\ open' = open /\ said' = said /\ sent' = sent
      /\ relay' = relay /\ known' = known /\ forwarded' = forwarded
      /\ peer' = peer /\ got' = got /\ lists' = lists
  BY DEF List, node, router, other
<1>2. es \in Offers(known)
  BY DEF Offers, Offer
<1> HIDE DEF es
<1>3. known \in Descriptors /\ Cheap(known) /\ down \in Seq(Byte) /\ forwarded \in Seq(Frames)
  BY <1>1 DEF Inv, TypeOK, Noted
<1>4. Plain(g) /\ g.typ = PROVIDERS
  BY <1>2, <1>3, ListingTyped
<1>5. Post(g, Len(forwarded), Len(forwarded), forwarded, known)
  BY <1>2, <1>4 DEF Post
<1> HIDE DEF g
<1>6. Encode(g) \in Seq(Byte)
  BY <1>4, EncodeTyped DEF Plain
<1>7. down' \in Seq(Byte)
  BY <1>1, <1>3, <1>6, Joined
<1>8. asked' \in 0 .. MaxLists
  BY <1>1, WireAssumption DEF Inv, TypeOK
<1>9. TypeOK'
  BY <1>1, <1>7, <1>8 DEF Inv, TypeOK
<1>10. Told' /\ Early' /\ Noted' /\ Answered' /\ NodeFails' /\ PeerFails'
  BY <1>1 DEF Inv, Told, Early, Noted, Answered, NodeFails, PeerFails
<1>11. Relayed' /\ Delivered' /\ FromNode'
  BY <1>1 DEF Inv, Relayed, Delivered, FromNode
<1>12. ToPeer'
  <2>1. Extends(forwarded, forwarded)
    BY <1>3 DEF Extends
  <2>2. ASSUME peer = "reading" PROVE Downstream(down', Len(got), forwarded, known)
    <3>1. Downstream(down, Len(got), forwarded, known)
      BY <2>2 DEF Inv, ToPeer
    <3>2. Downstream(down \o Encode(g), Len(got), forwarded, known)
      BY <1>3, <1>4, <1>5, <2>1, <3>1, MailMore
    <3> QED BY <1>1, <3>2
  <2> QED BY <1>1, <2>2 DEF ToPeer
<1> QED BY <1>9, <1>10, <1>11, <1>12 DEF Inv

\* A forwarded frame goes on with the stamped id.
LEMMA ForwardedTyped ==
    ASSUME Inv, NEW i \in 1 .. Len(forwarded)
    PROVE  Stamped(forwarded[i]) \in Frames
<1>1. Len(forwarded) <= Len(sent) /\ Readable(sent[i]) /\ forwarded[i] = Mended(sent[i])
  BY DEF Inv, Relayed
<1>2. sent \in Seq(Envelopes) /\ forwarded \in Seq(Frames)
  BY DEF Inv, TypeOK
<1>3. i \in 1 .. Len(sent)
  BY <1>1, <1>2
<1>4. sent[i] \in Envelopes
  BY <1>2, <1>3
<1>5. Stamped(Mended(sent[i])) \in Frames
  BY <1>1, <1>4, StampedTyped
<1> QED BY <1>1, <1>5

LEMMA ReceiveKeeps ==
    ASSUME Inv, Receive
    PROVE  Inv'
<1> DEFINE x == Read(down)
           l == decode_providers(x.value.payload)
           a == Len(got)
<1>1. /\ peer = "reading"
      /\ up' = up /\ open' = open /\ said' = said /\ sent' = sent
      /\ relay' = relay /\ known' = known /\ forwarded' = forwarded /\ asked' = asked
      /\ \/ x = Error /\ peer' = "failed" /\ down' = down /\ got' = got /\ lists' = lists
         \/ /\ x.status = "got" /\ down' = x.rest /\ peer' = peer
            /\ \/ x.value.typ = ROUTE /\ got' = Append(got, x.value) /\ lists' = lists
               \/ /\ x.value.typ = PROVIDERS /\ got' = got
                  /\ lists' = IF l = Error THEN lists ELSE Append(lists, l.value)
  BY DEF Receive, node, router
<1>2. x # More
  BY <1>1, NoResult
<1>3. /\ down \in Seq(Byte) /\ got \in Seq(Frames) /\ forwarded \in Seq(Frames)
      /\ lists \in Seq(Seq(Entries)) /\ known \in Descriptors \cup {None}
  BY DEF Inv, TypeOK, Entries
<1>4. known # None
  <2> SUFFICES ASSUME known = None PROVE FALSE
    OBVIOUS
  <2>1. down = <<>> /\ down \o <<>> = down /\ <<>> \in Seq(Byte)
    BY <1>3, Unended DEF Inv, Early
  <2> QED BY <1>2, <1>3, <2>1, NothingRead
<1>5. known \in Descriptors /\ Cheap(known)
  BY <1>3, <1>4 DEF Inv, Noted
<1>6. Downstream(down, a, forwarded, known)
  BY <1>1 DEF Inv, ToPeer
<1>7. PICK g, b : Finds(down, a, forwarded, known, g, b)
  BY <1>2, <1>3, <1>6, MailLess
<1>8. /\ Plain(g) /\ Gives(down, g) /\ Post(g, a, b, forwarded, known)
      /\ x # Error => Downstream(x.rest, b, forwarded, known)
  BY <1>7 DEF Finds
<1>9. Told' /\ Noted' /\ Early' /\ NodeFails' /\ Relayed' /\ FromNode'
  BY <1>1, <1>4 DEF Inv, Told, Noted, Early, NodeFails, Relayed, FromNode
<1>10. CASE x = Error
  <2>1. peer' = "failed" /\ down' = down /\ got' = got /\ lists' = lists
    BY <1>1, <1>10, NoResult
  <2>2. TypeOK'
    BY <1>1, <2>1 DEF Inv, TypeOK
  <2>3. Delivered' /\ Answered' /\ ToPeer'
    BY <1>1, <2>1 DEF Inv, Delivered, Answered, ToPeer
  <2>4. PeerFails'
    <3>1. ~Readable(g)
      BY <1>8, <1>10 DEF Gives
    <3>2. CASE b \in 1 .. Len(forwarded) /\ g = Stamped(forwarded[b])
      BY <1>1, <3>1, <3>2 DEF PeerFails
    <3>3. CASE \E es \in Offers(known) : g = Listing(es)
      <4>1. PICK es \in Offers(known) : g = Listing(es)
        BY <3>3
      <4>2. ~Readable(Listing(Offer(known)))
        BY <1>5, <3>1, <4>1, ListingTyped
      <4> QED BY <1>1, <4>2 DEF PeerFails
    <3> QED BY <1>8, <3>2, <3>3 DEF Post
  <2> QED BY <1>9, <2>2, <2>3, <2>4 DEF Inv
<1>11. CASE x # Error
  <2>1. /\ down' = x.rest /\ peer' = "reading"
        /\ \/ x.value.typ = ROUTE /\ got' = Append(got, x.value) /\ lists' = lists
           \/ /\ x.value.typ = PROVIDERS /\ got' = got
              /\ lists' = IF l = Error THEN lists ELSE Append(lists, l.value)
    BY <1>1, <1>11
  <2>2. down' \in Seq(Byte)
    BY <1>2, <1>3, <1>11, <2>1, Outcome
  <2>3. x.value = g
    BY <1>8, <1>11 DEF Gives, Plain
  <2>4. Downstream(down', b, forwarded, known)
    BY <1>8, <1>11, <2>1
  <2>5. PeerFails'
    BY <2>1 DEF PeerFails
  <2>6. CASE g.typ = ROUTE
    <3>0. PROVIDERS # ROUTE
      BY DEF PROVIDERS, ROUTE
    <3>1. b = a + 1 /\ b \in 1 .. Len(forwarded) /\ g = Stamped(forwarded[b])
      BY <1>8, <2>6, <3>0 DEF Post
    <3>2. got' = Append(got, g) /\ lists' = lists
      BY <2>1, <2>3, <2>6, <3>0
    <3>3. g \in Frames
      BY <3>1, ForwardedTyped
    <3>4. /\ got' \in Seq(Frames) /\ Len(got') = a + 1 /\ got'[a + 1] = g
          /\ \A i \in 1 .. a : got'[i] = got[i]
      BY <1>3, <3>2, <3>3
    <3>5. TypeOK'
      BY <1>1, <2>1, <2>2, <3>2, <3>4 DEF Inv, TypeOK
    <3>6. Delivered'
      <4>1. a \in Nat /\ Len(forwarded) \in Nat
        BY <1>3
      <4>2. ASSUME NEW i \in 1 .. Len(got') PROVE got'[i] = Stamped(forwarded[i])
        <5>1. CASE i = a + 1
          BY <3>1, <3>4, <5>1
        <5>2. CASE i # a + 1
          <6>1. i \in 1 .. a
            BY <3>4, <4>1, <5>2
          <6> QED BY <3>4, <6>1 DEF Inv, Delivered
        <5> QED BY <5>1, <5>2
      <4>3. Len(got') <= Len(forwarded)
        BY <3>1, <3>4, <4>1
      <4> QED BY <1>1, <4>2, <4>3 DEF Delivered
    <3>7. Answered'
      BY <1>1, <3>2 DEF Inv, Answered
    <3>8. ToPeer'
      BY <1>1, <2>4, <3>1, <3>4 DEF ToPeer
    <3> QED BY <1>9, <2>5, <3>5, <3>6, <3>7, <3>8 DEF Inv
  <2>7. CASE g.typ # ROUTE
    <3>1. b = a /\ \E es \in Offers(known) : g = Listing(es)
      BY <1>8, <2>7 DEF Post
    <3>2. got' = got /\ lists' = IF l = Error THEN lists ELSE Append(lists, l.value)
      BY <2>1, <2>3, <2>7
    <3>3. PICK es \in Offers(known) : g = Listing(es)
      BY <3>1
    <3> DEFINE w == encode_providers(es)
    <3>4. l = decode_providers(w)
      BY <1>5, <2>3, <3>3, ListingTyped
    <3>5. w \in Seq(Byte)
      <4>1. g.payload = w
        BY <1>5, <3>3, ListingTyped
      <4> QED BY <1>8, <4>1, FieldTypes DEF Plain
    <3> HIDE DEF l, w
    <3>6. Short(Id) /\ ShortDescriptor(known) => l # Error /\ l.value = es
      BY <1>5, <3>4, ProvidersRoundTrip, NoResult DEF w
    <3>7. l # Error => l.value \in Seq(Entries)
      <4>1. l = Error \/ Listed(l)
        BY <3>4, <3>5, ProvidersTyped
      <4> QED BY <4>1, NoResult DEF Listed
    <3>8. lists' = lists \/ (l # Error /\ lists' = Append(lists, l.value))
      BY <3>2 DEF l
    <3>9. /\ lists' \in Seq(Seq(Entries))
          /\ \A i \in 1 .. Len(lists') : \/ i \in 1 .. Len(lists) /\ lists'[i] = lists[i]
                                         \/ l # Error /\ lists'[i] = l.value
      <4>1. CASE lists' = lists
        BY <1>3, <4>1
      <4>2. CASE l # Error /\ lists' = Append(lists, l.value)
        <5> DEFINE e == l.value
        <5>1. e \in Seq(Entries) /\ lists' = Append(lists, e)
          BY <3>7, <4>2
        <5> HIDE DEF e
        <5>2. /\ lists' \in Seq(Seq(Entries)) /\ Len(lists') = Len(lists) + 1 /\ Len(lists) \in Nat
              /\ lists'[Len(lists) + 1] = e
              /\ \A i \in 1 .. Len(lists) : lists'[i] = lists[i]
          BY <1>3, <5>1
        <5>3. \A i \in 1 .. Len(lists') : i \in 1 .. Len(lists) \/ i = Len(lists) + 1
          BY <5>2
        <5> QED BY <4>2, <5>2, <5>3 DEF e
      <4> QED BY <3>8, <4>1, <4>2
    <3>10. TypeOK'
      BY <1>1, <2>1, <2>2, <3>2, <3>9 DEF Inv, TypeOK, Entries
    <3>11. Answered'
      BY <1>1, <3>6, <3>9 DEF Inv, Answered
    <3>12. Delivered' /\ ToPeer'
      BY <1>1, <2>4, <3>1, <3>2 DEF Inv, Delivered, ToPeer
    <3> QED BY <1>9, <2>5, <3>10, <3>11, <3>12 DEF Inv
  <2> QED BY <2>6, <2>7
<1> QED BY <1>10, <1>11

(* The inductive invariant, for every base, frame size, id, descriptor, frame *)
(* and filter, and any number of frames and lists.                            *)
THEOREM Invariant == Spec => []Inv
<1>1. Init => Inv
  BY InitKeeps
<1>2. Inv /\ [Next]_vars => Inv'
  <2> SUFFICES ASSUME Inv, [Next]_vars PROVE Inv'
    OBVIOUS
  <2>1. ASSUME NEW d \in Descs, Hello(d) PROVE Inv'
    BY <2>1, HelloKeeps
  <2>2. ASSUME NEW f \in Envelopes, Send(f) PROVE Inv'
    BY <2>2, SendKeeps
  <2>3. CASE End
    BY <2>3, EndKeeps
  <2>4. CASE ReadEnds
    BY <2>4, ReadEndsKeeps
  <2>5. CASE Greet
    BY <2>5, GreetKeeps
  <2>6. CASE Forward
    BY <2>6, ForwardKeeps
  <2>7. ASSUME NEW p \in Filters, List(p) PROVE Inv'
    BY <2>7, ListKeeps
  <2>8. CASE Receive
    BY <2>8, ReceiveKeeps
  <2>9. CASE UNCHANGED vars
    BY <2>9 DEF vars, node, router, other, Inv, TypeOK, Told, Early, Noted, Relayed, Delivered,
                FromNode, ToPeer, Answered, NodeFails, PeerFails
  <2> QED BY <2>1, <2>2, <2>3, <2>4, <2>5, <2>6, <2>7, <2>8, <2>9 DEF Next
<1> QED BY <1>1, <1>2, PTL DEF Spec

(* Type correctness: what is read has the type of what was written.           *)
THEOREM WireTypeCorrect == Spec => []TypeOK
<1>1. Inv => TypeOK
  BY DEF Inv
<1> QED BY <1>1, Invariant, PTL

(* The frames the router forwards are the first of those the node sent, and   *)
(* those the peer reads the first of these, each as it was, but for mended    *)
(* names and the stamped id (frame.rs:6-19).                                  *)
THEOREM NothingIsMisread == Spec => []NeverMisread
<1>1. Inv => NeverMisread
  <2> SUFFICES ASSUME Inv PROVE NeverMisread
    OBVIOUS
  <2>1. DOMAIN forwarded = 1 .. Len(forwarded) /\ DOMAIN got = 1 .. Len(got)
    BY DEF Inv, TypeOK
  <2> QED BY <2>1 DEF Inv, Relayed, Delivered, NeverMisread
<1> QED BY <1>1, Invariant, PTL

(* A read fails only when the node died or said something that does not fit,  *)
(* or when what the router makes of it does not (frame.rs:94-151).   *)
THEOREM FailuresHaveReasons == Spec => []FailsForAReason
<1>1. Inv => FailsForAReason
  <2> SUFFICES ASSUME Inv PROVE FailsForAReason
    OBVIOUS
  <2>1. forwarded \in Seq(Frames) /\ sent \in Seq(Envelopes)
    BY DEF Inv, TypeOK
  <2>2. DOMAIN forwarded = 1 .. Len(forwarded) /\ DOMAIN sent = 1 .. Len(sent)
    BY <2>1
  <2>3. relay = "failed" => \/ ~open
                            \/ ~ShortDescriptor(said)
                            \/ ~Readable(Greeting(said))
                            \/ \E i \in DOMAIN sent : ~Readable(sent[i])
    BY <2>2 DEF Inv, NodeFails
  <2>4. peer = "failed" => \/ \E i \in DOMAIN forwarded :
                                 /\ Readable(sent[i])
                                 /\ ~Readable(Stamped(forwarded[i]))
                           \/ ~Readable(Listing(<<[id |-> Id, desc |-> known]>>))
    BY <2>2 DEF Inv, PeerFails, Relayed, Offer
  <2> QED BY <2>3, <2>4 DEF FailsForAReason
<1> QED BY <1>1, Invariant, PTL

(* The registry has what the node said, and a peer's list what the registry   *)
(* has, whenever strings and lists fit (frame.rs:216).                        *)
THEOREM KnownAsSaid == Spec => []AsSaid
<1>1. Inv => AsSaid
  <2> SUFFICES ASSUME Inv, said # None, known # None
               PROVE  /\ ShortDescriptor(said) => known = said
                      /\ Short(Id) /\ ShortDescriptor(known) =>
                            \A i \in DOMAIN lists :
                                lists[i] \in {<<>>, <<[id |-> Id, desc |-> known]>>}
    BY DEF AsSaid
  <2>1. DOMAIN lists = 1 .. Len(lists)
    BY DEF Inv, TypeOK
  <2> QED BY <2>1 DEF Inv, Noted, Answered, Offers, Offer
<1> QED BY <1>1, Invariant, PTL

(* The door and the router cut the same frames (frame.rs:21-23).              *)
THEOREM DoorAndRouterAgree == Spec => []DoorAgrees
<1>1. TypeOK => DoorAgrees
  <2> SUFFICES ASSUME TypeOK, NEW n \in 0 .. Len(up)
               PROVE  LET b == SubSeq(up, 1, n)
                      IN Decode(b) = IF Read(b) # More /\ Read(b) # Error /\ Read(b).rest = <<>>
                                     THEN Read(b) ELSE Error
    BY DEF DoorAgrees
  <2> DEFINE m == 1
  <2>1. up \in Seq(Byte) /\ m \in Nat \ {0} /\ m = 1
    BY DEF TypeOK
  <2> HIDE DEF m
  <2>2. SubSeq(up, m, n) \in Seq(Byte)
    BY <2>1, Slice
  <2> QED BY <2>1, <2>2, OneCodec
<1> QED BY <1>1, WireTypeCorrect, PTL
=============================================================================
