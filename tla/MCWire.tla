------------------------------- MODULE MCWire -------------------------------
(* Wire with bytes of four values: a length in 16 bits is below 16, one in 32 *)
(* below 256.                                                                 *)
EXTENDS WireProps

CONSTANT MaxSize

MCRepl == <<2, 2>>
MCId == <<1, 2>>
MCProposed == <<2>>
MCAsker == <<1, 1>>
MCZapd == <<0>>

Fill(n, b) == [i \in 1..n |-> b]

\* The third brand is too long by all its 16 bytes: it is read as no brand, a cap
\* of ten bytes and another that is the count of the caps, which were none.  The
\* second is one that a list can still hold, the last makes the HELLO too long.
MCDescs ==
    { [role |-> 1, brand |-> <<1>>, caps |-> <<>>, attrs |-> <<>>],
      [role |-> 1, brand |-> <<>>, caps |-> <<<<2>>, <<>>>>, attrs |-> <<<<<<1>>, <<2>>>>>>],
      [role |-> 2, brand |-> <<2, 0, 2, 2>> \o Fill(10, 1) \o <<2, 0>>, caps |-> <<>>,
       attrs |-> <<>>],
      [role |-> 1, brand |-> Fill(MaxSize - 22, 1), caps |-> <<<<2, 2>>>>, attrs |-> <<>>] }

\* An empty frame, names and a payload, a name that is no UTF-8, one that is
\* too long when it is mended, one that is too long, the largest frame, and one
\* that is larger.
MCEnvelopes ==
    { New(ROUTE, <<>>, <<>>, <<>>),
      New(ROUTE, <<1>>, <<2, 1>>, <<3, 0>>),
      New(ROUTE, <<>>, <<3>>, <<1>>),
      New(ROUTE, <<>>, Fill(8, Bad), <<1>>),
      New(ROUTE, <<>>, Fill(17, 1), <<1>>),
      New(ROUTE, <<>>, <<1>>, Fill(MaxSize - HEADER - 1, 1)),
      New(ROUTE, <<>>, <<1>>, Fill(MaxSize - HEADER, 1)) }

\* All, the brand of the first, one that cannot be read, and another brand.
MCFilters == {<<>>, <<1, 0, 1>>, <<2, 0, 1>>, <<1, 0, 0>>}
=============================================================================
