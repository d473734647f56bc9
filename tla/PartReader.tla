----------------------------- MODULE PartReader ------------------------------
(***************************************************************************)
(* Cutting the caller's stream into parts: the read_part_data lambda that  *)
(* the sequential and the parallel upload both have, and utils::ReadPart   *)
(* below it.  Data is abstracted to its place in the stream: a chunk is    *)
(* the bytes lo+1 .. hi.                                                   *)
(*                                                                         *)
(* The stream may hold fewer or more bytes than object_size says, and it   *)
(* may fail: std::istream::read then delivers what it has, and ReadPart    *)
(* reports only the count, so a failure looks like the end of the stream.  *)
(***************************************************************************)
EXTENDS PartInfo, ObjectStore

VARIABLES
  object_size,     \* args.object_size, None when unknown
  stream_len,      \* bytes the stream holds
  pos,             \* bytes taken from it so far
  bad,             \* the stream has failed
  part_size, part_count, part_number, uploaded_size,
  one_byte,        \* a byte read beyond the previous part is carried over
  stop,
  chunks           \* history: what was read for each part, in order

inputVars == <<object_size, stream_len>>
cutVars == <<pos, bad, part_size, part_count, uploaded_size, one_byte, stop,
             chunks>>
readerVars == <<inputVars, cutVars, part_number>>

Least(a, b) == IF a <= b THEN a ELSE b

\* utils::ReadPart: as many of the size bytes asked for as the stream has, or
\* fewer when it fails; nothing at all after a failure.
ReadPart(size, n) ==
  \/ ~bad /\ n = Least(size, stream_len - pos) /\ bad' = FALSE
  \/ ~bad /\ n \in 0 .. Least(size, stream_len - pos) /\ bad' = TRUE
  \/ bad /\ n = 0 /\ bad' = TRUE

LastPart == part_count # None /\ part_number = part_count

ReadInit(osize, len) ==
  /\ object_size = osize
  /\ stream_len = len
  /\ pos = 0
  /\ bad = FALSE
  /\ part_size = 0
  /\ part_count = None
  /\ part_number = 0
  /\ uploaded_size = 0
  /\ one_byte = FALSE
  /\ stop = FALSE
  /\ chunks = <<>>

\* The number of parts is known: the last one is what is left of object_size,
\* and a part the stream cannot fill is an error.
KnownSize == IF LastPart THEN object_size - uploaded_size ELSE part_size

\* The carried byte is forgotten.
Carry_Lost == 0

\* The size is not known: one byte more than a part is read to find out whether
\* the part is the last, and that byte opens the next part.
Carry == IF one_byte THEN 1 ELSE 0

Demand == IF part_count # None THEN KnownSize ELSE part_size + 1 - Carry

\* What the part's buffer holds, and whether the upload may go on, after a read
\* that delivered n bytes.
ChunkRead(n) ==
  IF part_count # None
    THEN [lo |-> pos, hi |-> pos + n]
    ELSE [lo |-> pos - Carry, hi |-> pos - Carry + Least(n + Carry, part_size)]

\* A short read of a part of known size goes unnoticed.
ReadOk_Unchecked(n) == TRUE

ReadOk(n) == part_count # None => n = KnownSize

read_known(n) ==
  /\ part_count # None
  /\ part_size' = KnownSize
  /\ stop' = (stop \/ LastPart)
  /\ UNCHANGED <<part_count, one_byte>>

read_unknown(n) ==
  LET last == n + Carry <= part_size
  IN /\ part_count = None
     /\ part_count' = IF last THEN part_number ELSE None
     /\ part_size' = IF last THEN n + Carry ELSE part_size
     /\ stop' = last
     /\ one_byte' = ~last

\* The lambda with the assignment to uploaded_size that follows each call.
read_part_data(n) ==
  /\ ReadPart(Demand, n)
  /\ read_known(n) \/ read_unknown(n)
  /\ pos' = pos + n
  /\ uploaded_size' = IF ReadOk(n) THEN uploaded_size + part_size' ELSE uploaded_size
  /\ chunks' = IF ReadOk(n) THEN Append(chunks, ChunkRead(n)) ELSE chunks
  /\ UNCHANGED <<inputVars, part_number>>

\* Chunks that follow one another without a gap, an overlap or a swap, from the
\* first byte of the stream to its byte number total.
Covers(cs, total) ==
  /\ cs # <<>>
  /\ cs[1].lo = 0
  /\ \A i \in 1 .. Len(cs) - 1 : cs[i].hi = cs[i + 1].lo
  /\ cs[Len(cs)].hi = total

\* What the whole object is: the bytes announced, or all the stream delivered.
Total == IF object_size # None THEN object_size ELSE pos

----------------------------------------------------------------------------
(* What the proofs about the uploads need of the reader.                    *)

ReaderTypeOK ==
  /\ object_size \in Nat \cup {None}
  /\ stream_len \in Nat
  /\ pos \in 0 .. stream_len
  /\ bad \in BOOLEAN
  /\ part_size \in Nat
  /\ part_count \in Nat \cup {None}
  /\ part_number \in Nat
  /\ uploaded_size \in Nat
  /\ one_byte \in BOOLEAN
  /\ stop \in BOOLEAN
  /\ chunks \in Seq(Chunk)

\* The chunks cut so far cover the bytes consumed, less the byte carried over.
Contiguous ==
  /\ one_byte => pos >= 1
  /\ chunks = <<>> => pos = 0 /\ ~one_byte
  /\ chunks # <<>> => chunks[1].lo = 0 /\ chunks[Len(chunks)].hi = pos - Carry
  /\ \A i \in 1 .. Len(chunks) - 1 : chunks[i].hi = chunks[i + 1].lo

\* With a known size the parts still to come hold what is left of the object,
\* and only the last of them may be short; after the last nothing is left.
Remaining ==
  /\ ~stop =>
       /\ (part_count = None) <=> (object_size = None)
       /\ object_size # None =>
            /\ uploaded_size = pos
            /\ ~one_byte
            /\ (part_count - Len(chunks) - 1) * part_size <= object_size - uploaded_size
            /\ object_size - uploaded_size <= (part_count - Len(chunks)) * part_size
  /\ stop => chunks # <<>> /\ pos = Total /\ ~one_byte
=============================================================================
