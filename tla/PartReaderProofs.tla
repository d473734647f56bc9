-------------------------- MODULE PartReaderProofs ---------------------------
(***************************************************************************)
(* What both uploads rest on, for every size of an object, every part size *)
(* and every choice of the limits: what utils::CalcPartInfo promises, and  *)
(* that read_part_data cuts the stream without a gap and leaves as many    *)
(* parts to come as the rest of the object needs.                          *)
(***************************************************************************)
EXTENDS PartReader, TLAPS

\* Rounding a quotient up: the least number of pieces of b that cover a.
LEMMA CeilDivBounds ==
  ASSUME NEW a \in Nat, NEW b \in Nat \ {0}
  PROVE  /\ CeilDiv(a, b) \in Nat
         /\ a <= CeilDiv(a, b) * b
         /\ (CeilDiv(a, b) - 1) * b < a
BY DEF CeilDiv

\* Rounding up is monotonic in the sense that is needed here: q pieces are
\* enough only if the rounded quotient is at most q.
LEMMA CeilDivLeast ==
  ASSUME NEW a \in Nat, NEW b \in Nat \ {0}, NEW q \in Nat, a <= q * b
  PROVE  CeilDiv(a, b) <= q
<1> DEFINE c == CeilDiv(a, b)
<1>1. c \in Nat /\ (c - 1) * b < a
  BY CeilDivBounds
<1> HIDE DEF c
<1>2. SUFFICES ASSUME c > q PROVE FALSE
  BY <1>1 DEF c
<1>3. c - 1 >= q
  BY <1>1, <1>2
<1>4. \A x, y, z \in Nat : x >= y => x * z >= y * z
  OBVIOUS
<1>5. (c - 1) * b >= q * b
  BY <1>1, <1>2, <1>3, <1>4
<1> QED BY <1>1, <1>5

\* Multiplication by a natural number keeps the order.
LEMMA TimesMonotonic ==
  ASSUME NEW x \in Nat, NEW y \in Nat, NEW z \in Nat, x <= y
  PROVE  x * z <= y * z
OBVIOUS

\* The part size the code chooses is a multiple of kMinPartSize with which
\* kMaxMultipartCount parts cover the object, and the least such multiple.
LEMMA AutoPartSizeFacts ==
  ASSUME NEW o \in Nat
  PROVE  /\ AutoPartSize(o) \in Nat
         /\ o > 0 => AutoPartSize(o) >= kMinPartSize
         /\ o <= AutoPartSize(o) * kMaxMultipartCount
         /\ \A n \in Nat : o <= n * kMinPartSize * kMaxMultipartCount
                             => AutoPartSize(o) <= n * kMinPartSize
<1> DEFINE each == CeilDiv(o, kMaxMultipartCount)
           units == CeilDiv(each, kMinPartSize)
<1>1. /\ each \in Nat
      /\ o <= each * kMaxMultipartCount
  BY CeilDivBounds, LimitsAssumption
<1>2. \A n \in Nat : o <= n * kMinPartSize * kMaxMultipartCount => each <= n * kMinPartSize
  <2> TAKE n \in Nat
  <2> HAVE o <= n * kMinPartSize * kMaxMultipartCount
  <2>1. n * kMinPartSize \in Nat
    BY LimitsAssumption
  <2> QED BY <2>1, CeilDivLeast, LimitsAssumption
<1> HIDE DEF each
<1>3. /\ units \in Nat
      /\ each <= units * kMinPartSize
  BY <1>1, CeilDivBounds, LimitsAssumption
<1>4. \A n \in Nat : each <= n * kMinPartSize => units <= n
  BY <1>1, CeilDivLeast, LimitsAssumption
<1>5. AutoPartSize(o) = units * kMinPartSize
  BY DEF AutoPartSize, each
<1> HIDE DEF units
<1>6. units * kMinPartSize \in Nat
  BY <1>3, LimitsAssumption
<1>7. o <= (units * kMinPartSize) * kMaxMultipartCount
  <2>1. each * kMaxMultipartCount <= (units * kMinPartSize) * kMaxMultipartCount
    BY <1>1, <1>3, <1>6, TimesMonotonic, LimitsAssumption
  <2>2. /\ each * kMaxMultipartCount \in Nat
        /\ (units * kMinPartSize) * kMaxMultipartCount \in Nat
    BY <1>1, <1>6, LimitsAssumption
  <2> QED BY <1>1, <2>1, <2>2
<1>8. o > 0 => units * kMinPartSize >= kMinPartSize
  <2>1. CASE units = 0
    BY <1>7, <2>1, LimitsAssumption
  <2>2. CASE units >= 1
    <3>1. 1 * kMinPartSize <= units * kMinPartSize
      BY <1>3, <2>2, TimesMonotonic, LimitsAssumption
    <3> QED BY <3>1, <1>6, LimitsAssumption
  <2> QED BY <1>3, <2>1, <2>2
<1>9. \A n \in Nat : o <= n * kMinPartSize * kMaxMultipartCount
                       => units * kMinPartSize <= n * kMinPartSize
  <2> TAKE n \in Nat
  <2> HAVE o <= n * kMinPartSize * kMaxMultipartCount
  <2>1. units <= n
    BY <1>2, <1>4
  <2> QED BY <1>3, <2>1, TimesMonotonic, LimitsAssumption
<1> QED BY <1>5, <1>6, <1>7, <1>8, <1>9

\* A chosen part size is the caller's or the automatic one, but no more than the
\* object.
LEMMA ChosenFacts ==
  ASSUME NEW o \in Nat, NEW p \in Nat
  PROVE  LET ps == ChosenPartSize(o, p)
             wanted == IF p = 0 THEN AutoPartSize(o) ELSE p
         IN  /\ ps \in Nat
             /\ ps = IF wanted > o THEN o ELSE wanted
             /\ o > 0 => ps > 0
<1>1. AutoPartSize(o) \in Nat /\ (o > 0 => AutoPartSize(o) > 0)
  BY AutoPartSizeFacts, LimitsAssumption
<1> QED BY <1>1 DEF ChosenPartSize

\* An accepted cut covers the object exactly: there are at most kMaxMultipartCount
\* parts, all but the last are full, and the last is not empty; when there are
\* several, they have at least kMinPartSize bytes, and the caller's own size is
\* kept (utils::CalcPartInfo).
THEOREM PartsCover ==
  ASSUME NEW o \in Nat, NEW p \in Nat, ~CalcPartInfo(o, p).err
  PROVE  LET info == CalcPartInfo(o, p)
         IN  /\ info.part_count \in 1 .. kMaxMultipartCount
             /\ o <= info.part_count * info.part_size
             /\ o > 0 => (info.part_count - 1) * info.part_size < o
             /\ info.part_count > 1 =>
                  /\ info.part_size >= kMinPartSize
                  /\ p > 0 => info.part_size = p /\ p <= kMaxPartSize
<1> DEFINE ps == ChosenPartSize(o, p)
           count == PartCount(o, ps)
<1>1. o # None
  BY LimitsAssumption
<1>2. /\ CalcPartInfo(o, p).part_size = ps
      /\ CalcPartInfo(o, p).part_count = count
      /\ ~PartInfoError(o, p)
      /\ ~(count > kMaxMultipartCount)
  BY <1>1 DEF CalcPartInfo
<1>3. /\ ps \in Nat
      /\ ps = IF (IF p = 0 THEN AutoPartSize(o) ELSE p) > o THEN o
              ELSE IF p = 0 THEN AutoPartSize(o) ELSE p
      /\ o > 0 => ps > 0
  BY ChosenFacts
<1>4. p > 0 => p >= kMinPartSize /\ p <= kMaxPartSize
  BY <1>2, LimitsAssumption DEF PartInfoError
<1>5. /\ AutoPartSize(o) \in Nat
      /\ o > 0 => AutoPartSize(o) >= kMinPartSize
  BY AutoPartSizeFacts
<1> HIDE DEF ps
<1>6. CASE ps = 0
  <2>1. o = 0 /\ count = 1
    BY <1>3, <1>6 DEF PartCount
  <2> QED BY <1>2, <1>6, <2>1, LimitsAssumption
<1>7. CASE ps > 0
  <2>1. /\ count = CeilDiv(o, ps)
        /\ count \in Nat
        /\ o <= count * ps
        /\ (count - 1) * ps < o
    BY <1>3, <1>7, CeilDivBounds DEF PartCount
  <2> HIDE DEF count
  <2>2. o > 0
    BY <1>3, <1>5, <1>7
  <2>3. count >= 1
    <3>1. CASE count = 0
      BY <2>1, <2>2, <3>1, <1>3
    <3> QED BY <2>1, <3>1
  <2>4. count > 1 => ps # o
    <3>1. SUFFICES ASSUME ps = o, count > 1 PROVE FALSE
      OBVIOUS
    <3>2. 1 * o <= (count - 1) * o
      BY <2>1, <3>1, TimesMonotonic
    <3> QED BY <2>1, <3>1, <3>2
  <2> QED BY <1>2, <1>3, <1>4, <1>5, <2>1, <2>2, <2>3, <2>4, LimitsAssumption
<1> QED BY <1>3, <1>6, <1>7

\* When the caller leaves the part size open, every object up to kMaxObjectSize is
\* accepted, and cut with the least multiple of kMinPartSize that does, or in one
\* piece if it is smaller than that.
THEOREM AutoSizeIsLeast ==
  ASSUME NEW o \in 1 .. kMaxObjectSize
  PROVE  LET info == CalcPartInfo(o, 0)
         IN  /\ ~info.err
             /\ info.part_size = IF AutoPartSize(o) > o THEN o ELSE AutoPartSize(o)
             /\ \A n \in Nat : o <= n * kMinPartSize * kMaxMultipartCount
                                 => info.part_size <= n * kMinPartSize
<1> DEFINE ps == ChosenPartSize(o, 0)
           count == PartCount(o, ps)
<1>1. o \in Nat /\ o > 0 /\ o # None
  BY LimitsAssumption
<1>2. /\ AutoPartSize(o) \in Nat
      /\ o <= AutoPartSize(o) * kMaxMultipartCount
      /\ \A n \in Nat : o <= n * kMinPartSize * kMaxMultipartCount
                          => AutoPartSize(o) <= n * kMinPartSize
  BY <1>1, AutoPartSizeFacts
<1>3. /\ ps \in Nat /\ ps > 0
      /\ ps = IF AutoPartSize(o) > o THEN o ELSE AutoPartSize(o)
  BY <1>1, ChosenFacts
<1>4. /\ CalcPartInfo(o, 0).part_size = ps
      /\ CalcPartInfo(o, 0).err <=> (PartInfoError(o, 0) \/ count > kMaxMultipartCount)
  BY <1>1 DEF CalcPartInfo
<1> HIDE DEF ps
<1>5. ~PartInfoError(o, 0)
  BY <1>1, LimitsAssumption DEF PartInfoError
<1>6. o <= kMaxMultipartCount * ps
  <2>1. CASE ps = o
    <3>1. 1 * o <= kMaxMultipartCount * o
      BY <1>1, TimesMonotonic, LimitsAssumption
    <3> QED BY <2>1, <3>1, <1>1
  <2>2. CASE ps = AutoPartSize(o)
    <3>1. AutoPartSize(o) * kMaxMultipartCount = kMaxMultipartCount * AutoPartSize(o)
      BY <1>2, LimitsAssumption
    <3> QED BY <1>2, <2>2, <3>1
  <2> QED BY <1>3, <2>1, <2>2
<1>7. count = CeilDiv(o, ps) /\ CeilDiv(o, ps) \in Nat
  BY <1>1, <1>3, CeilDivBounds DEF PartCount
<1>8. count <= kMaxMultipartCount
  BY <1>1, <1>3, <1>6, <1>7, CeilDivLeast, LimitsAssumption
<1>9. \A n \in Nat : o <= n * kMinPartSize * kMaxMultipartCount => ps <= n * kMinPartSize
  <2> TAKE n \in Nat
  <2> HAVE o <= n * kMinPartSize * kMaxMultipartCount
  <2>1. AutoPartSize(o) <= n * kMinPartSize /\ n * kMinPartSize \in Nat
    BY <1>2, LimitsAssumption
  <2> QED BY <1>1, <1>2, <1>3, <2>1
<1> QED
  <2>1. ~(count > kMaxMultipartCount)
    BY <1>7, <1>8, LimitsAssumption
  <2> QED BY <1>3, <1>4, <1>5, <1>9, <2>1

\* What Append returns, element by element.
LEMMA AppendFacts ==
  ASSUME NEW S, NEW q \in Seq(S), NEW e \in S
  PROVE  /\ Append(q, e) \in Seq(S)
         /\ Append(q, e) # <<>>
         /\ Len(q) \in Nat
         /\ Len(Append(q, e)) = Len(q) + 1
         /\ \A i \in 1 .. Len(q) : Append(q, e)[i] = q[i]
         /\ Append(q, e)[Len(q) + 1] = e
OBVIOUS

\* A sequence is empty exactly when its length is 0.
LEMMA EmptyFacts ==
  ASSUME NEW S, NEW q \in Seq(S)
  PROVE  /\ Len(q) \in Nat
         /\ (q = <<>>) <=> (Len(q) = 0)
         /\ \A i \in 1 .. Len(q) : q[i] \in S
OBVIOUS

\* What CalcPartInfo answers for every size and part size, refusals included:
\* all parts but the last are full, and together they cover the object.
LEMMA InfoFacts ==
  ASSUME NEW o \in Nat \cup {None}, NEW p \in Nat
  PROVE  LET info == CalcPartInfo(o, p)
         IN  /\ info.part_size \in Nat
             /\ info.part_count \in (Nat \ {0}) \cup {None}
             /\ (info.part_count = None) <=> (o = None)
             /\ o # None => /\ (info.part_count - 1) * info.part_size <= o
                            /\ o <= info.part_count * info.part_size
<1>1. CASE o = None
  BY <1>1, LimitsAssumption DEF CalcPartInfo
<1>2. CASE o \in Nat
  <2> DEFINE ps == ChosenPartSize(o, p)
             count == PartCount(o, ps)
  <2>1. o # None
    BY <1>2, LimitsAssumption
  <2>2. ps \in Nat /\ (o > 0 => ps > 0) /\ ps <= o
    <3>1. /\ ps \in Nat /\ (o > 0 => ps > 0)
          /\ ps = IF (IF p = 0 THEN AutoPartSize(o) ELSE p) > o THEN o
                  ELSE IF p = 0 THEN AutoPartSize(o) ELSE p
      BY <1>2, ChosenFacts
    <3>2. (IF p = 0 THEN AutoPartSize(o) ELSE p) \in Nat
      BY <1>2, AutoPartSizeFacts
    <3> HIDE DEF ps
    <3> QED BY <1>2, <3>1, <3>2
  <2>3. /\ CalcPartInfo(o, p).part_size = ps
        /\ CalcPartInfo(o, p).part_count = count
    BY <2>1 DEF CalcPartInfo
  <2> HIDE DEF ps
  <2>4. CASE ps = 0
    <3>1. count = 1 /\ o = 0
      BY <1>2, <2>2, <2>4 DEF PartCount
    <3> HIDE DEF count
    <3> QED BY <2>1, <2>2, <2>3, <2>4, <3>1, LimitsAssumption
  <2>5. CASE ps > 0
    <3>1. /\ count = CeilDiv(o, ps)
          /\ count \in Nat
          /\ o <= count * ps
          /\ (count - 1) * ps <= o
          /\ (count - 1) * ps < o
      BY <1>2, <2>2, <2>5, CeilDivBounds DEF PartCount
    <3>2. count # 0
      BY <1>2, <2>2, <2>5, <3>1
    <3> HIDE DEF count
    <3> QED BY <2>1, <2>2, <2>3, <3>1, <3>2, LimitsAssumption
  <2> QED BY <2>2, <2>4, <2>5
<1> QED BY <1>1, <1>2

\* What a part read holds, and which part it was: the case of a known size.
LEMMA KnownRead ==
  ASSUME ReaderTypeOK, Remaining, ~stop, part_number = Len(chunks) + 1,
         part_count # None, NEW n \in 0 .. Demand, read_part_data(n)
  PROVE  /\ object_size \in Nat /\ part_count \in Nat
         /\ uploaded_size = pos /\ one_byte = FALSE /\ Carry = 0
         /\ (part_count - Len(chunks) - 1) * part_size <= object_size - uploaded_size
         /\ object_size - uploaded_size <= (part_count - Len(chunks)) * part_size
         /\ part_size' = (IF part_number = part_count THEN object_size - uploaded_size
                                                      ELSE part_size)
         /\ stop' = (part_number = part_count)
         /\ part_count' = part_count /\ one_byte' = FALSE
         /\ (ReadOk(n) <=> n = part_size') /\ part_size' \in Nat
         /\ ChunkRead(n) = [lo |-> pos, hi |-> pos + n]
<1>1. /\ object_size \in Nat /\ part_count \in Nat /\ part_size \in Nat
      /\ uploaded_size = pos /\ one_byte = FALSE /\ Len(chunks) \in Nat /\ pos \in Nat
      /\ (part_count - Len(chunks) - 1) * part_size <= object_size - uploaded_size
      /\ object_size - uploaded_size <= (part_count - Len(chunks)) * part_size
  BY EmptyFacts DEF Remaining, ReaderTypeOK
<1>2. /\ part_size' = KnownSize /\ stop' = (stop \/ LastPart)
      /\ part_count' = part_count /\ one_byte' = one_byte
  BY DEF read_part_data, read_known, read_unknown
<1>3. LastPart <=> part_number = part_count
  BY DEF LastPart
<1>4. KnownSize \in Nat
  <2>1. CASE part_number = part_count
    <3>1. part_count - Len(chunks) - 1 = 0
      BY <1>1, <2>1
    <3>2. 0 <= object_size - uploaded_size
      BY <1>1, <3>1
    <3> QED BY <1>1, <1>3, <2>1, <3>2 DEF KnownSize
  <2>2. CASE part_number # part_count
    BY <1>1, <1>3, <2>2 DEF KnownSize
  <2> QED BY <2>1, <2>2
<1> QED BY <1>1, <1>2, <1>3, <1>4 DEF KnownSize, Carry, ReadOk, ChunkRead

\* The case of an unknown size: the part is the last, or full with a byte carried.
LEMMA UnknownRead ==
  ASSUME ReaderTypeOK, Contiguous, Remaining, ~stop, part_number = Len(chunks) + 1,
         part_count = None, NEW n \in 0 .. Demand, read_part_data(n)
  PROVE  /\ object_size = None /\ ReadOk(n)
         /\ Carry \in 0 .. 1 /\ pos - Carry \in Nat /\ n \in Nat
         /\ n <= part_size + 1 - Carry
         /\ (Carry = 1 <=> one_byte)
         /\ \/ /\ n + Carry <= part_size
               /\ part_count' = part_number /\ part_size' = n + Carry
               /\ stop' = TRUE /\ one_byte' = FALSE
               /\ ChunkRead(n) = [lo |-> pos - Carry, hi |-> pos + n]
            \/ /\ n + Carry = part_size + 1
               /\ part_count' = None /\ part_size' = part_size
               /\ stop' = FALSE /\ one_byte' = TRUE
               /\ ChunkRead(n) = [lo |-> pos - Carry, hi |-> pos + n - 1]
         /\ part_size' \in Nat
<1> DEFINE ck == ChunkRead(n)
<1>1. /\ object_size = None /\ ReadOk(n) /\ part_size \in Nat
      /\ (one_byte => pos >= 1) /\ one_byte \in BOOLEAN /\ pos \in Nat
  BY DEF ReadOk, Contiguous, Remaining, ReaderTypeOK
<1>2. Carry \in 0 .. 1 /\ pos - Carry \in Nat /\ (Carry = 1 <=> one_byte)
  BY <1>1 DEF Carry
<1>3. n \in Nat /\ n <= part_size + 1 - Carry
  BY <1>1, <1>2 DEF Demand
<1>4. /\ part_count' = (IF n + Carry <= part_size THEN part_number ELSE None)
      /\ part_size' = (IF n + Carry <= part_size THEN n + Carry ELSE part_size)
      /\ stop' = (n + Carry <= part_size)
      /\ one_byte' = ~(n + Carry <= part_size)
  BY DEF read_part_data, read_known, read_unknown
<1>5. ck = [lo |-> pos - Carry, hi |-> pos - Carry + Least(n + Carry, part_size)]
  BY DEF ChunkRead
<1> HIDE DEF ck
<1>6. CASE n + Carry <= part_size
  <2>1. pos - Carry + Least(n + Carry, part_size) = pos + n
    BY <1>1, <1>2, <1>3, <1>6 DEF Least
  <2>2. part_count' = part_number /\ part_size' = n + Carry
    BY <1>4, <1>6
  <2>3. stop' = TRUE /\ one_byte' = FALSE
    BY <1>4, <1>6
  <2>4. ck = [lo |-> pos - Carry, hi |-> pos + n]
    BY <1>5, <2>1
  <2>5. part_size' \in Nat
    BY <1>2, <1>3, <2>2
  <2> QED BY <1>1, <1>2, <1>3, <1>6, <2>2, <2>3, <2>4, <2>5 DEF ck
<1>7. CASE ~(n + Carry <= part_size)
  <2>1. n + Carry = part_size + 1
    BY <1>1, <1>2, <1>3, <1>7
  <2>2. pos - Carry + Least(n + Carry, part_size) = pos + n - 1
    BY <1>1, <1>2, <1>3, <1>7, <2>1 DEF Least
  <2>3. part_count' = None /\ part_size' = part_size
    BY <1>4, <1>7
  <2>4. stop' = FALSE /\ one_byte' = TRUE
    <3> DEFINE last == n + Carry <= part_size
    <3>1. stop' = last /\ one_byte' = ~last /\ ~last /\ last \in BOOLEAN
      BY <1>1, <1>2, <1>3, <1>4, <1>7
    <3> HIDE DEF last
    <3> QED BY <3>1
  <2>5. ck = [lo |-> pos - Carry, hi |-> pos + n - 1]
    BY <1>5, <2>2
  <2> QED BY <1>1, <1>2, <1>3, <2>1, <2>3, <2>4, <2>5 DEF ck
<1> QED BY <1>6, <1>7

\* Whatever a read delivers, its chunk is a piece of the stream and the reader's
\* variables keep their types; an accepted one is appended.
LEMMA ReadKeepsTypes ==
  ASSUME ReaderTypeOK, Contiguous, Remaining, ~stop, part_number = Len(chunks) + 1,
         NEW n \in 0 .. Demand, read_part_data(n)
  PROVE  /\ ReaderTypeOK'
         /\ n \in Nat /\ ChunkRead(n) \in Chunk /\ ReadOk(n) \in BOOLEAN
         /\ UNCHANGED <<object_size, stream_len, part_number>>
         /\ pos' = pos + n
         /\ ~ReadOk(n) => chunks' = chunks
         /\ ReadOk(n) => /\ chunks' \in Seq(Chunk) /\ chunks' # <<>>
                         /\ Len(chunks') = Len(chunks) + 1
                         /\ \A i \in 1 .. Len(chunks) : chunks'[i] = chunks[i]
                         /\ chunks'[Len(chunks) + 1] = ChunkRead(n)
<1> DEFINE ck == ChunkRead(n)
           ok == ReadOk(n)
<1>1. /\ UNCHANGED <<object_size, stream_len, part_number>>
      /\ pos' = pos + n
      /\ chunks' = (IF ok THEN Append(chunks, ck) ELSE chunks)
      /\ uploaded_size' = (IF ok THEN uploaded_size + part_size' ELSE uploaded_size)
      /\ ok \in BOOLEAN
  BY DEF read_part_data, ReadOk, inputVars
<1>2. /\ pos \in Nat /\ stream_len \in Nat /\ pos <= stream_len /\ part_size \in Nat
      /\ uploaded_size \in Nat /\ part_number \in Nat /\ chunks \in Seq(Chunk)
  BY DEF ReaderTypeOK
<1>3. n \in Nat /\ n <= stream_len - pos /\ bad' \in BOOLEAN
  <2>1. ReadPart(Demand, n)
    BY DEF read_part_data
  <2>2. Demand \in Int
    <3>1. part_count # None => object_size \in Nat
      BY DEF Remaining, ReaderTypeOK
    <3> QED BY <1>2, <3>1 DEF Demand, KnownSize, Carry
  <2>3. n \in Nat
    BY <2>2
  <2>4. n <= stream_len - pos
    BY <1>2, <2>1, <2>2, <2>3 DEF ReadPart, Least
  <2>5. bad' \in BOOLEAN
    BY <2>1 DEF ReadPart
  <2> QED BY <2>3, <2>4, <2>5
<1>4. /\ part_count' \in Nat \cup {None} /\ part_size' \in Nat /\ one_byte' \in BOOLEAN
      /\ stop' \in BOOLEAN
  <2>1. CASE part_count # None
    BY <2>1, KnownRead
  <2>2. CASE part_count = None
    BY <1>2, <2>2, UnknownRead
  <2> QED BY <2>1, <2>2
<1>5. ck \in Chunk
  <2>1. CASE part_count # None
    <3>1. ck = [lo |-> pos, hi |-> pos + n]
      BY <2>1, KnownRead
    <3> HIDE DEF ck
    <3> QED BY <1>2, <1>3, <3>1 DEF Chunk
  <2>2. CASE part_count = None
    <3>1. /\ pos - Carry \in Nat /\ Carry \in 0 .. 1
          /\ \/ ck = [lo |-> pos - Carry, hi |-> pos + n]
             \/ /\ n + Carry = part_size + 1
                /\ ck = [lo |-> pos - Carry, hi |-> pos + n - 1]
      BY <2>2, UnknownRead
    <3> HIDE DEF ck
    <3>2. pos + n \in Nat /\ (n + Carry = part_size + 1 => pos + n - 1 \in Nat)
      BY <1>2, <1>3, <3>1
    <3> QED BY <3>1, <3>2 DEF Chunk
  <2> QED BY <2>1, <2>2
<1> HIDE DEF ck, ok
<1>6. ASSUME ok
      PROVE  /\ chunks' \in Seq(Chunk) /\ chunks' # <<>>
             /\ Len(chunks') = Len(chunks) + 1
             /\ \A i \in 1 .. Len(chunks) : chunks'[i] = chunks[i]
             /\ chunks'[Len(chunks) + 1] = ck
  <2>1. chunks' = Append(chunks, ck)
    BY <1>1, <1>6
  <2> QED BY <1>2, <1>5, <2>1, AppendFacts
<1>7. uploaded_size' \in Nat
  <2>1. \A a, b \in Nat : a + b \in Nat
    OBVIOUS
  <2>2. uploaded_size + part_size' \in Nat
    BY <1>2, <1>4, <2>1
  <2> QED BY <1>1, <1>2, <2>2
<1>8. chunks' \in Seq(Chunk)
  BY <1>1, <1>2, <1>6
<1>9. pos' \in 0 .. stream_len'
  BY <1>1, <1>2, <1>3
<1>10. ReaderTypeOK'
  BY <1>1, <1>2, <1>3, <1>4, <1>7, <1>8, <1>9 DEF ReaderTypeOK
<1> QED BY <1>1, <1>3, <1>5, <1>6, <1>10 DEF ck, ok

\* An accepted chunk follows the ones before it, up to the byte carried over.
LEMMA ReadIsContiguous ==
  ASSUME ReaderTypeOK, Contiguous, Remaining, ~stop, part_number = Len(chunks) + 1,
         NEW n \in 0 .. Demand, read_part_data(n)
  PROVE  /\ one_byte' => pos' >= 1
         /\ ReadOk(n) => Contiguous'
<1> DEFINE ck == ChunkRead(n)
           ok == ReadOk(n)
<1>1. /\ n \in Nat /\ pos \in Nat /\ pos' = pos + n /\ Len(chunks) \in Nat /\ chunks \in Seq(Chunk)
      /\ part_size \in Nat
      /\ ok => /\ chunks' # <<>>
               /\ Len(chunks') = Len(chunks) + 1
               /\ \A i \in 1 .. Len(chunks) : chunks'[i] = chunks[i]
               /\ chunks'[Len(chunks) + 1] = ck
  BY ReadKeepsTypes, EmptyFacts DEF ReaderTypeOK
<1>2. /\ one_byte' => pos' >= 1
      /\ ck.lo = pos - Carry /\ ck.hi = pos' - Carry'
  <2>1. CASE part_count # None
    <3>1. Carry = 0 /\ one_byte' = FALSE /\ ck = [lo |-> pos, hi |-> pos + n]
      BY <2>1, KnownRead
    <3> HIDE DEF ck
    <3> QED BY <1>1, <3>1 DEF Carry
  <2>2. CASE part_count = None
    <3>1. /\ Carry \in 0 .. 1 /\ pos - Carry \in Nat
          /\ \/ one_byte' = FALSE /\ ck = [lo |-> pos - Carry, hi |-> pos + n]
             \/ /\ n + Carry = part_size + 1 /\ one_byte' = TRUE
                /\ ck = [lo |-> pos - Carry, hi |-> pos + n - 1]
      BY <2>2, UnknownRead
    <3> HIDE DEF ck
    <3>2. CASE one_byte' = FALSE /\ ck = [lo |-> pos - Carry, hi |-> pos + n]
      BY <1>1, <3>2 DEF Carry
    <3>3. CASE /\ n + Carry = part_size + 1 /\ one_byte' = TRUE
               /\ ck = [lo |-> pos - Carry, hi |-> pos + n - 1]
      <4>1. pos + n >= 1
        BY <1>1, <3>1, <3>3
      <4>2. Carry' = 1
        BY <3>3 DEF Carry
      <4> QED BY <1>1, <3>3, <4>1, <4>2
    <3> QED BY <3>1, <3>2, <3>3
  <2> QED BY <2>1, <2>2
<1> HIDE DEF ck, ok
<1>3. ASSUME ok
      PROVE  /\ chunks'[1].lo = 0
             /\ chunks'[Len(chunks')].hi = pos' - Carry'
             /\ \A i \in 1 .. Len(chunks') - 1 : chunks'[i].hi = chunks'[i + 1].lo
  <2>1. CASE Len(chunks) = 0
    <3>1. chunks = <<>>
      BY <1>1, <2>1, EmptyFacts
    <3>2. pos - Carry = 0
      BY <1>1, <3>1 DEF Contiguous, Carry
    <3>3. Len(chunks') = 1 /\ chunks'[1] = ck
      BY <1>1, <1>3, <2>1
    <3> QED BY <1>2, <3>2, <3>3
  <2>2. CASE Len(chunks) # 0
    <3>1. chunks # <<>>
      BY <2>2
    <3>2. /\ chunks[1].lo = 0 /\ chunks[Len(chunks)].hi = pos - Carry
          /\ \A i \in 1 .. Len(chunks) - 1 : chunks[i].hi = chunks[i + 1].lo
      BY <3>1 DEF Contiguous
    <3>3. chunks'[1] = chunks[1] /\ chunks'[Len(chunks')] = ck
      BY <1>1, <1>3, <2>2
    <3>4. ASSUME NEW i \in 1 .. Len(chunks') - 1
          PROVE  chunks'[i].hi = chunks'[i + 1].lo
      <4>1. i \in 1 .. Len(chunks)
        BY <1>1, <1>3
      <4>2. CASE i = Len(chunks)
        BY <1>1, <1>2, <1>3, <3>2, <4>1, <4>2
      <4>3. CASE i # Len(chunks)
        <5>1. i \in 1 .. Len(chunks) - 1 /\ i + 1 \in 1 .. Len(chunks)
          BY <1>1, <4>1, <4>3
        <5> QED BY <1>1, <1>3, <3>2, <4>1, <5>1
      <4> QED BY <4>2, <4>3
    <3> QED BY <1>2, <3>2, <3>3, <3>4
  <2> QED BY <2>1, <2>2
<1> QED BY <1>1, <1>2, <1>3 DEF Contiguous, ok

\* An accepted part leaves the other parts what is left of the object; the last
\* one leaves nothing.
LEMMA ReadLeavesTheRest ==
  ASSUME ReaderTypeOK, Contiguous, Remaining, ~stop, part_number = Len(chunks) + 1,
         NEW n \in 0 .. Demand, read_part_data(n), ReadOk(n)
  PROVE  /\ Remaining'
         /\ part_count' = 1 /\ part_count # 1 => stop' /\ Len(chunks) = 0
         /\ part_count = 1 /\ Len(chunks) = 0 => stop'
<1>1. /\ n \in Nat /\ pos \in Nat /\ pos' = pos + n /\ Len(chunks) \in Nat /\ part_size \in Nat
      /\ chunks' # <<>> /\ Len(chunks') = Len(chunks) + 1
      /\ UNCHANGED <<object_size, part_number>>
      /\ uploaded_size' = uploaded_size + part_size'
      /\ (part_count = None) <=> (object_size = None)
  BY ReadKeepsTypes, EmptyFacts DEF ReaderTypeOK, read_part_data, Remaining
<1>2. CASE part_count # None
  <2>1. /\ object_size \in Nat /\ part_count \in Nat
        /\ uploaded_size = pos /\ one_byte' = FALSE
        /\ (part_count - Len(chunks) - 1) * part_size <= object_size - uploaded_size
        /\ object_size - uploaded_size <= (part_count - Len(chunks)) * part_size
        /\ part_size' = (IF part_number = part_count THEN object_size - uploaded_size
                                                     ELSE part_size)
        /\ stop' = (part_number = part_count) /\ part_count' = part_count
        /\ n = part_size'
    BY <1>2, KnownRead
  <2>2. object_size # None /\ object_size' # None
    BY <1>1, <1>2
  <2>3. CASE part_number = part_count
    <3>1. pos' = object_size /\ stop' = TRUE
      <4>1. n = object_size - pos /\ object_size \in Nat
        BY <2>1, <2>3
      <4>2. stop' = TRUE
        BY <2>1, <2>3
      <4> QED BY <1>1, <4>1, <4>2
    <3>2. pos' = Total'
      BY <1>1, <2>2, <3>1 DEF Total
    <3> QED BY <1>1, <1>2, <2>1, <2>2, <2>3, <3>1, <3>2 DEF Remaining
  <2>4. CASE part_number # part_count
    <3> DEFINE a == part_count - Len(chunks) - 1
    <3>1. /\ part_size' = part_size /\ uploaded_size' = uploaded_size + part_size
          /\ stop' = FALSE /\ uploaded_size' = pos'
      BY <1>1, <2>1, <2>4
    <3>2. a \in Int
      BY <1>1, <2>1
    <3>3. /\ part_count - Len(chunks) = a + 1
          /\ part_count' - Len(chunks') - 1 = a - 1
          /\ part_count' - Len(chunks') = a
      BY <1>1, <2>1
    <3>4. /\ a * part_size <= object_size - uploaded_size
          /\ object_size - uploaded_size <= (a + 1) * part_size
      BY <2>1, <3>3
    <3> HIDE DEF a
    <3>5. /\ (a + 1) * part_size = a * part_size + part_size
          /\ (a - 1) * part_size = a * part_size - part_size
          /\ a * part_size \in Int
      BY <1>1, <3>2
    <3>6. /\ (a - 1) * part_size <= object_size - uploaded_size'
          /\ object_size - uploaded_size' <= a * part_size
      <4>1. object_size - uploaded_size' = object_size - uploaded_size - part_size
        BY <1>1, <2>1, <3>1
      <4> QED BY <1>1, <2>1, <3>4, <3>5, <4>1
    <3>7. Remaining'
      BY <1>1, <1>2, <2>1, <2>2, <3>1, <3>3, <3>6 DEF Remaining
    <3> QED BY <1>1, <2>1, <2>4, <3>7
  <2> QED BY <2>3, <2>4
<1>3. CASE part_count = None
  <2>1. /\ object_size = None
        /\ \/ part_count' = part_number /\ stop' = TRUE /\ one_byte' = FALSE
           \/ part_count' = None /\ stop' = FALSE /\ one_byte' = TRUE
    BY <1>3, UnknownRead
  <2>2. None # 1
    BY LimitsAssumption
  <2>3. Remaining'
    BY <1>1, <2>1 DEF Remaining, Total
  <2> QED BY <1>1, <2>1, <2>2, <2>3, <1>3
<1> QED BY <1>2, <1>3
=============================================================================
