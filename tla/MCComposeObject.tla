--------------------------- MODULE MCComposeObject ---------------------------
EXTENDS ComposeObject

Whole(k) == [key |-> k, offset |-> None, length |-> None]
From(k, o) == [key |-> k, offset |-> o, length |-> None]
Slice(k, o, n) == [key |-> k, offset |-> o, length |-> n]

\* Parts of two to four bytes; sources of one byte, of one part, of one part and
\* a byte (whose last piece is too small unless it comes last) and of a part and
\* a half.  One source, whole and with a range; two sources, one of them taken
\* twice; an empty range at the end; more parts than allowed.
MCSizes == {1, 4, 5, 6}
MCRequests ==
  { <<Whole("a")>>, <<Slice("a", 1, 3)>>,
    <<Whole("a"), Whole("b")>>, <<From("a", 1), Whole("b")>>,
    <<Slice("a", 0, 2), Slice("a", 2, 2), Whole("b")>>,
    <<Whole("a"), Slice("b", 0, 0)>> }
=============================================================================
