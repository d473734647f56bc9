-------------------------- MODULE ComposeObjectProofs -------------------------
(***************************************************************************)
(* ComposeObject, CopyObject and CalculatePartCount, for sources of any    *)
(* number and size and any limits: an object that is composed consists of  *)
(* one version of each source, in order and without a gap; it is cut into  *)
(* as many parts as were counted; and a failure leaves no upload behind.   *)
(*                                                                         *)
(* Behind it, the other operation that puts an object together piece by    *)
(* piece while other clients replace it, DownloadObject.  It comes in by   *)
(* INSTANCE: variables of one name there and here are one symbol, and each *)
(* theorem speaks of the behaviours of its own specification alone.        *)
(***************************************************************************)
EXTENDS ComposeObject, SequenceTheorems, TLAPS

CONSTANTS Threads, Size, DiskFull, MaxCalls, MaxChanges      \* of DownloadObject

VARIABLES
  changes, calls, dir, inode, overwrite, etag, fout, bad, holed, body, pos, seen

Download == INSTANCE DownloadObject

----------------------------------------------------------------------------
(* How CalculatePartCount cuts a source into pieces.                        *)

LEMMA TimesNext ==
  ASSUME NEW q \in Nat
  PROVE  /\ q * kMaxPartSize \in Nat
         /\ (q + 1) * kMaxPartSize = q * kMaxPartSize + kMaxPartSize
BY LimitsAssumption

LEMMA TimesKeepsOrder ==
  ASSUME NEW x \in Nat, NEW y \in Nat, x <= y
  PROVE  x * kMaxPartSize <= y * kMaxPartSize
BY LimitsAssumption

LEMMA RestOfDivision ==
  ASSUME NEW a \in Nat, NEW b \in Nat \ {0}
  PROVE  /\ a \div b \in Nat /\ a % b \in Nat /\ a % b < b
         /\ a = (a \div b) * b + (a % b)
<1>1. a \div b \in Nat /\ a % b \in Nat /\ a % b < b
  OBVIOUS
<1>2. a = b * (a \div b) + (a % b)
  OBVIOUS
<1>3. b * (a \div b) = (a \div b) * b
  BY <1>1
<1> QED BY <1>1, <1>2, <1>3

LEMMA QuotientBounds ==
  ASSUME NEW a \in Nat, NEW b \in Nat \ {0}
  PROVE  /\ a \div b \in Nat
         /\ (a \div b) * b <= a
         /\ a < (a \div b) * b + b
OBVIOUS

\* The quotient of a division is determined by its bounds.
LEMMA DivUnique ==
  ASSUME NEW a \in Nat, NEW b \in Nat \ {0}, NEW d \in Nat, d * b <= a, a < d * b + b
  PROVE  a \div b = d
<1> DEFINE c == a \div b
           cb == c * b
           db == d * b
<1>1. c \in Nat /\ cb \in Nat /\ db \in Nat /\ cb <= a /\ a < cb + b
  <2>1. c \in Nat /\ cb <= a /\ a < cb + b
    BY QuotientBounds
  <2>2. db \in Nat /\ cb \in Nat
    BY <2>1
  <2> QED BY <2>1, <2>2
<1>2. \A x, y \in Nat : x < y => x * b + b <= y * b
  <2> TAKE x \in Nat, y \in Nat
  <2> HAVE x < y
  <2>1. x + 1 <= y /\ x + 1 \in Nat
    OBVIOUS
  <2>2. \A s, t, u \in Nat : s <= t => s * u <= t * u
    OBVIOUS
  <2>3. (x + 1) * b <= y * b
    BY <2>1, <2>2
  <2>4. (x + 1) * b = x * b + b
    OBVIOUS
  <2> QED BY <2>3, <2>4
<1> HIDE DEF c
<1>3. (c < d => cb + b <= db) /\ (d < c => db + b <= cb)
  BY <1>1, <1>2
<1> HIDE DEF cb, db
<1>4. ~(c < d) /\ ~(d < c)
  <2>1. db <= a /\ a < db + b
    BY DEF db
  <2> QED BY <1>1, <1>3, <2>1
<1> QED BY <1>1, <1>4 DEF c

\* A number lies between the last whole multiple below it and the next.
LEMMA CeilFacts ==
  ASSUME NEW s \in Nat, s > kMaxPartSize
  PROVE  LET c == CeilDiv(s, kMaxPartSize)
         IN  /\ c \in Nat /\ c >= 1
             /\ (c - 1) * kMaxPartSize \in Nat
             /\ LastPiece(s) = s - (c - 1) * kMaxPartSize
             /\ LastPiece(s) \in 1 .. kMaxPartSize
<1> DEFINE M == kMaxPartSize
           c == CeilDiv(s, M)
           d == s \div M
           r == s % M
           a == s + M - 1
           dM == d * M
<1>1. M \in Nat \ {0}
  BY LimitsAssumption
<1>2. d \in Nat /\ r \in Nat /\ r < M /\ dM \in Nat /\ s = dM + r
  <2>1. d \in Nat /\ r \in Nat /\ r < M /\ s = dM + r
    BY <1>1, RestOfDivision
  <2>2. dM \in Nat
    BY <2>1, TimesNext
  <2> QED BY <2>1, <2>2
<1>3. c = a \div M /\ a \in Nat
  BY <1>1 DEF CeilDiv
<1>4. LastPiece(s) = IF r = 0 THEN M ELSE r
  BY DEF LastPiece
<1>5. (d + 1) * M = dM + M
  BY <1>2, TimesNext
<1> HIDE DEF c, d, r, dM
<1>6. CASE r = 0
  <2>1. dM <= a /\ a < dM + M
    BY <1>1, <1>2, <1>6
  <2>2. c = d
    BY <1>1, <1>2, <1>3, <2>1, DivUnique DEF dM
  <2>3. d # 0
    <3>1. d = 0 => dM = 0
      BY <1>1 DEF dM
    <3> QED BY <1>1, <1>2, <1>6, <3>1
  <2>4. PICK e \in Nat : d = e + 1
    <3>1. d - 1 \in Nat /\ d = (d - 1) + 1
      BY <1>2, <2>3
    <3> QED BY <3>1
  <2>5. e * M \in Nat /\ dM = e * M + M /\ d - 1 = e
    BY <2>4, TimesNext DEF dM
  <2>6. (c - 1) * M = e * M
    BY <2>2, <2>5
  <2> DEFINE eM == e * M
  <2>7. eM \in Nat /\ dM = eM + M /\ (c - 1) * M = eM
    BY <2>5, <2>6
  <2> HIDE DEF eM
  <2>8. c \in Nat /\ c >= 1
    BY <1>2, <2>2, <2>3
  <2> QED BY <1>1, <1>2, <1>4, <1>6, <2>7, <2>8 DEF c
<1>7. CASE r # 0
  <2>1. dM + M <= a /\ a < dM + M + M
    BY <1>1, <1>2, <1>7
  <2>2. c = d + 1
    BY <1>1, <1>2, <1>3, <1>5, <2>1, DivUnique
  <2>3. c - 1 = d /\ c \in Nat /\ c >= 1
    BY <1>2, <2>2
  <2>4. (c - 1) * M = dM
    BY <2>3 DEF dM
  <2> QED BY <1>1, <1>2, <1>4, <1>7, <2>3, <2>4 DEF c
<1> QED BY <1>6, <1>7

\* The number of pieces and the last one, as the loop that cuts a source meets
\* them: q whole pieces leave more than a piece unless q is the last but one.
LEMMA PieceFacts ==
  ASSUME NEW s \in Nat
  PROVE  /\ PieceCount(s) \in Nat /\ PieceCount(s) >= 1
         /\ s <= kMaxPartSize => PieceCount(s) = 1
         /\ \A q \in Nat : q + 1 < PieceCount(s) => s - q * kMaxPartSize > kMaxPartSize
         /\ \A q \in Nat : q + 1 = PieceCount(s) =>
              /\ s - q * kMaxPartSize \in 0 .. kMaxPartSize
              /\ s > kMaxPartSize => s - q * kMaxPartSize = LastPiece(s)
<1> DEFINE M == kMaxPartSize
           c == PieceCount(s)
<1>1. M \in Nat \ {0}
  BY LimitsAssumption
<1>2. CASE s <= M
  <2>1. c = 1
    BY <1>1, <1>2 DEF PieceCount
  <2>2. \A q \in Nat : q + 1 = 1 => q * M = 0
    BY <1>1
  <2>3. \A q \in Nat : ~(q + 1 < 1)
    OBVIOUS
  <2> HIDE DEF c
  <2>4. \A q \in Nat : q + 1 = c => s - q * M = s
    BY <2>1, <2>2
  <2>5. ~(s > M) /\ s \in 0 .. M
    BY <1>1, <1>2
  <2> QED BY <2>1, <2>3, <2>4, <2>5 DEF c
<1>3. CASE s > M
  <2>1. c = CeilDiv(s, M)
    BY <1>3 DEF PieceCount
  <2>2. /\ c \in Nat /\ c >= 1 /\ (c - 1) * M \in Nat
        /\ LastPiece(s) = s - (c - 1) * M /\ LastPiece(s) \in 1 .. M
    BY <1>3, <2>1, CeilFacts
  <2> HIDE DEF c
  <2>3. ASSUME NEW q \in Nat, q + 1 < c PROVE s - q * M > M
    <3>1. q + 1 \in Nat /\ c - 1 \in Nat /\ q + 1 <= c - 1
      BY <2>2, <2>3
    <3>2. q * M \in Nat /\ (q + 1) * M = q * M + M /\ (q + 1) * M <= (c - 1) * M
      BY <3>1, TimesNext, TimesKeepsOrder
    <3> DEFINE qM == q * M
               cM == (c - 1) * M
    <3>3. qM \in Nat /\ cM \in Nat /\ qM + M <= cM /\ s - cM \in 1 .. M
      BY <2>2, <3>2
    <3> HIDE DEF qM, cM
    <3>4. s - qM > M
      BY <1>1, <3>3
    <3> QED BY <3>4 DEF qM
  <2>4. \A q \in Nat : q + 1 = c => s - q * M = LastPiece(s)
    <3> TAKE q \in Nat
    <3> HAVE q + 1 = c
    <3>1. q = c - 1
      BY <2>2
    <3> QED BY <2>2, <3>1
  <2>5. \A x \in 1 .. M : x \in 0 .. M
    BY <1>1
  <2>6. ~(s <= M)
    BY <1>1, <1>3
  <2> QED BY <2>2, <2>3, <2>4, <2>5, <2>6 DEF c
<1> QED BY <1>1, <1>2, <1>3

(***************************************************************************)
(* The inductive invariant.                                                *)
(***************************************************************************)
Version == [size : Nat, etag : Nat]
SourceSet == [key : Keys, offset : Nat \cup {None}, length : Nat \cup {None},
              built : Version \cup {None}]
CopySet == [key : Keys, etag : Nat, lo : Nat, hi : Nat]
PartSet == [number : Nat, etag : CopySet \cup {NoChunk}]

Early == {"stat", "choose", "copyStat", "copy", "create"}
Copying == {"source", "part", "complete"}

ComposeTypeOK ==
  /\ src \in [Keys -> Version]
  /\ pc \in Early \cup Copying \cup {"abort", "done"}
  /\ sources \in Seq(SourceSet) /\ sources # <<>>
  /\ i \in 1 .. Len(sources)
  /\ part_count \in Nat /\ part_count <= kMaxMultipartCount
  /\ offset \in Nat /\ size \in Nat
  /\ part_number \in Nat
  /\ parts \in Seq(PartSet)
  /\ DOMAIN stored = PartNumbers
  /\ upload_id \in BOOLEAN /\ abort_failed \in BOOLEAN

Built(n) == sources[n].built # None

\* What BuildHeaders left in a source is of a version that is no newer than the
\* object.
BuiltInv ==
  \A n \in 1 .. Len(sources) : Built(n) =>
    LET s == sources[n]
    IN  /\ ~BuildError(s, s.built.size)
        /\ s.built.etag <= src[s.key].etag
        /\ s.built.etag = src[s.key].etag => s.built = src[s.key]

\* Until parts are copied there is no upload and nothing is stored.
PhaseInv ==
  /\ pc \in Early => upload = "none" /\ ~upload_id /\ parts = <<>> /\ part_number = 0
  /\ pc \in Early \cup Copying => object = <<>> /\ late = <<>>
  /\ pc \in {"choose", "create"} => i = 1
  /\ upload = "open" => upload_id
  /\ result # "pending" <=> pc = "done"
  /\ result = "err" /\ upload = "open" => abort_failed
  /\ result = "ok" => object # <<>>

\* The sources counted so far, and those copied.
counted == IF pc = "stat" THEN i - 1 ELSE Len(sources)
copied == IF pc \in {"source", "part"} THEN i - 1
          ELSE IF pc = "complete" THEN Len(sources) ELSE 0

Current(n) == Built(n) /\ src[sources[n].key].etag = sources[n].built.etag

\* All pieces of a source are large enough for a part that is not the last one.
Roomy(n) ==
  /\ SizeOf(sources[n], sources[n].built.size) >= kMinPartSize
  /\ SizeOf(sources[n], sources[n].built.size) > kMaxPartSize
       => LastPiece(SizeOf(sources[n], sources[n].built.size)) >= kMinPartSize

Fits(before, n) ==
  /\ before[n + 1] = before[n] + Pieces(sources[n])
  /\ n # Len(sources) => Roomy(n)

\* before[n] parts are counted for the sources before n.  A source that is not
\* current any more is never copied, so that its count does not matter.
CountInv(before) ==
  pc \in {"stat", "choose", "create"} \cup Copying =>
    /\ before[1] = 0
    /\ part_count = before[counted + 1]
    /\ \A n \in 1 .. counted : Current(n) => Fits(before, n)

\* The pieces of source n are the parts after the first before[n].
CopiedAt(before, n, q) ==
  \A p \in 1 .. q : stored[before[n] + p] = Piece(sources[n], p)

CopiedInv(before) ==
  \A n \in 1 .. copied :
    /\ Built(n) /\ Fits(before, n)
    /\ before[n + 1] <= Len(parts)
    /\ CopiedAt(before, n, Pieces(sources[n]))

\* q pieces of the source under way are copied.
UnderWay(before, q) ==
  /\ q < Pieces(sources[i])
  /\ Len(parts) = before[i] + q
  /\ offset = OffsetOf(sources[i]) + q * kMaxPartSize
  /\ size = SizeOf(sources[i], sources[i].built.size) - q * kMaxPartSize
  /\ CopiedAt(before, i, q)

PlaceInv(before) ==
  /\ pc = "source" => Len(parts) = before[i]
  /\ pc = "part" => Built(i) /\ \E q \in Nat : UnderWay(before, q)
  /\ pc = "complete" => Len(parts) = before[Len(sources) + 1]

LargeEnough(k) == stored[k].hi - stored[k].lo >= kMinPartSize

PartsInv ==
  pc \in Copying =>
    /\ part_number = Len(parts) /\ Len(parts) <= kMaxPartNumber
    /\ \A k \in 1 .. Len(parts) : parts[k].number = k
    /\ \A k \in 1 .. Len(parts) : pc # "complete" \/ k < Len(parts) => LargeEnough(k)

Matching == \E before \in [1 .. Len(sources) + 1 -> Nat] :
              CountInv(before) /\ CopiedInv(before) /\ PlaceInv(before)

WholeInv ==
  /\ object # <<>> /\ parts # <<>> => Composed(object)
  /\ late # <<>> => Composed(late)

ComposeInv ==
  ComposeTypeOK /\ BuiltInv /\ PhaseInv /\ PartsInv /\ Matching /\ WholeInv

(***************************************************************************)
(* Facts about sources.                                                    *)
(***************************************************************************)
LEMMA SourceFacts ==
  ASSUME ComposeTypeOK, NEW n \in 1 .. Len(sources)
  PROVE  /\ sources[n] \in SourceSet /\ sources[n].key \in Keys
         /\ src[sources[n].key] \in Version
         /\ src[sources[n].key].size \in Nat /\ src[sources[n].key].etag \in Nat
         /\ OffsetOf(sources[n]) \in Nat
         /\ Built(n) => sources[n].built \in Version
                        /\ sources[n].built.size \in Nat /\ sources[n].built.etag \in Nat
<1>1. sources[n] \in SourceSet
  BY ElementOfSeq DEF ComposeTypeOK
<1>2. sources[n].key \in Keys /\ sources[n].offset \in Nat \cup {None}
      /\ sources[n].built \in Version \cup {None}
  BY <1>1 DEF SourceSet
<1>3. src[sources[n].key] \in Version
  BY <1>2 DEF ComposeTypeOK
<1>4. \A v \in Version : v.size \in Nat /\ v.etag \in Nat
  BY DEF Version
<1>5. OffsetOf(sources[n]) \in Nat
  BY <1>2 DEF OffsetOf
<1> QED BY <1>1, <1>2, <1>3, <1>4, <1>5 DEF Built

LEMMA SizeFacts ==
  ASSUME NEW s \in SourceSet, NEW objsize \in Nat, ~BuildError(s, objsize)
  PROVE  SizeOf(s, objsize) \in Nat
<1>1. s.offset \in Nat \cup {None} /\ s.length \in Nat \cup {None}
  BY DEF SourceSet
<1>2. OffsetOf(s) \in Nat /\ OffsetOf(s) <= objsize
  BY <1>1 DEF OffsetOf, BuildError
<1> QED BY <1>1, <1>2 DEF SizeOf

\* Every built source has a size and a number of pieces.
LEMMA BuiltFacts ==
  ASSUME ComposeTypeOK, BuiltInv, NEW n \in 1 .. Len(sources), Built(n)
  PROVE  /\ SizeOf(sources[n], sources[n].built.size) \in Nat
         /\ Pieces(sources[n]) \in Nat /\ Pieces(sources[n]) >= 1
<1>1. SizeOf(sources[n], sources[n].built.size) \in Nat
  BY SourceFacts, SizeFacts DEF BuiltInv
<1> QED BY <1>1, PieceFacts DEF Pieces

LEMMA ComposeInit ==
  ASSUME Init PROVE ComposeInv
<1>1. PICK r \in Requests, built \in BOOLEAN :
        /\ built => \A n \in DOMAIN r : ~BuildError(r[n], src[r[n].key].size)
        /\ sources = Passed(r, built)
        /\ pc \in IF Len(r) = 1 THEN {"stat", "copyStat"} ELSE {"stat"}
  BY DEF Init
<1>2. /\ r \in Seq([key : Keys, offset : Nat \cup {None}, length : Nat \cup {None}])
      /\ r # <<>> /\ Len(r) \in Nat /\ Len(r) >= 1 /\ DOMAIN r = 1 .. Len(r)
  <2> DEFINE T == [key : Keys, offset : Nat \cup {None}, length : Nat \cup {None}]
  <2>1. r \in Seq(T) /\ r # <<>>
    BY ComposeAssumption
  <2> HIDE DEF T
  <2>2. Len(r) \in Nat /\ DOMAIN r = 1 .. Len(r)
    BY <2>1, LenProperties
  <2>3. Len(r) # 0
    BY <2>1, EmptySeq
  <2> QED BY <2>1, <2>2, <2>3 DEF T
<1>3. src \in [Keys -> Version] /\ \A k \in Keys : src[k] \in Version
  <2>1. src \in [Keys -> [size : Sizes, etag : {1}]] /\ Sizes \subseteq Nat
    BY ComposeAssumption DEF Init
  <2>2. \A k \in Keys : src[k] \in Version
    <3> TAKE k \in Keys
    <3>1. src[k] \in [size : Sizes, etag : {1}]
      BY <2>1
    <3>2. src[k].size \in Nat /\ src[k].etag = 1 /\ src[k] = [size |-> src[k].size, etag |-> src[k].etag]
      BY <2>1, <3>1
    <3> QED BY <3>2 DEF Version
  <2> QED BY <2>1, <2>2
<1>4. \A n \in 1 .. Len(r) :
        /\ r[n].key \in Keys /\ r[n].offset \in Nat \cup {None} /\ r[n].length \in Nat \cup {None}
  <2> TAKE n \in 1 .. Len(r)
  <2>1. r[n] \in [key : Keys, offset : Nat \cup {None}, length : Nat \cup {None}]
    BY <1>2, ElementOfSeq
  <2> QED BY <2>1
<1>5. /\ DOMAIN sources = 1 .. Len(r)
      /\ \A n \in 1 .. Len(r) :
           sources[n] = [key |-> r[n].key, offset |-> r[n].offset, length |-> r[n].length,
                         built |-> IF built THEN src[r[n].key] ELSE None]
      /\ sources = [n \in 1 .. Len(r) |->
                      [key |-> r[n].key, offset |-> r[n].offset, length |-> r[n].length,
                       built |-> IF built THEN src[r[n].key] ELSE None]]
  BY <1>1, <1>2 DEF Passed
<1>6. \A n \in 1 .. Len(r) : sources[n] \in SourceSet
  <2> TAKE n \in 1 .. Len(r)
  <2>1. (IF built THEN src[r[n].key] ELSE None) \in Version \cup {None}
    BY <1>3, <1>4
  <2> QED BY <1>4, <1>5, <2>1 DEF SourceSet
<1>7. sources \in Seq(SourceSet) /\ Len(sources) = Len(r) /\ sources # <<>>
  <2>1. sources \in [1 .. Len(r) -> SourceSet]
    BY <1>5, <1>6
  <2>2. sources \in Seq(SourceSet)
    BY <1>2, <2>1, SeqDef
  <2>3. Len(sources) = Len(r)
    BY <1>2, <1>5, <2>2, LenProperties
  <2> QED BY <1>2, <2>2, <2>3, EmptySeq
<1>8. pc \in {"stat", "copyStat"} /\ i = 1 /\ i \in 1 .. Len(sources)
  BY <1>1, <1>2, <1>7 DEF Init
<1>9. DOMAIN stored = PartNumbers /\ upload = "none" /\ object = <<>> /\ late = <<>>
  BY DEF Init, StoreInit
<1>10. ComposeTypeOK
  <2>1. parts \in Seq(PartSet)
    BY DEF Init
  <2>2. part_count \in Nat /\ part_count <= kMaxMultipartCount
    BY LimitsAssumption DEF Init
  <2>3. pc \in Early
    BY <1>8 DEF Early
  <2> QED BY <1>3, <1>7, <1>8, <1>9, <2>1, <2>2, <2>3 DEF Init, ComposeTypeOK
<1>11. BuiltInv
  <2> SUFFICES ASSUME NEW n \in 1 .. Len(sources), Built(n)
               PROVE  /\ ~BuildError(sources[n], sources[n].built.size)
                      /\ sources[n].built.etag <= src[sources[n].key].etag
                      /\ sources[n].built = src[sources[n].key]
    BY DEF BuiltInv
  <2>1. n \in 1 .. Len(r) /\ built /\ sources[n].built = src[r[n].key] /\ sources[n].key = r[n].key
        /\ sources[n].offset = r[n].offset /\ sources[n].length = r[n].length
    BY <1>5, <1>7 DEF Built
  <2>2. ~BuildError(r[n], src[r[n].key].size)
    BY <1>1, <1>2, <2>1
  <2>3. ~BuildError(sources[n], sources[n].built.size)
    BY <2>1, <2>2 DEF BuildError, OffsetOf
  <2>4. src[r[n].key].etag \in Nat
    BY <1>3, <1>4, <2>1 DEF Version
  <2> QED BY <2>1, <2>3, <2>4
<1>12. PhaseInv
  BY <1>8, <1>9 DEF Init, PhaseInv, Early, Copying
<1>13. PartsInv /\ WholeInv
  BY <1>8, <1>9 DEF PartsInv, WholeInv, Copying
<1>14. Matching
  <2> DEFINE before == [n \in 1 .. Len(sources) + 1 |-> 0]
  <2>1. Len(sources) \in Nat /\ 1 \in 1 .. Len(sources) + 1
    BY <1>2, <1>7
  <2>2. before \in [1 .. Len(sources) + 1 -> Nat] /\ before[1] = 0
    BY <2>1
  <2> HIDE DEF before
  <2>3. CountInv(before)
    BY <1>8, <2>2 DEF CountInv, counted, Init, Copying
  <2>4. CopiedInv(before) /\ PlaceInv(before)
    BY <1>8 DEF CopiedInv, PlaceInv, copied
  <2> QED BY <2>2, <2>3, <2>4 DEF Matching
<1> QED BY <1>10, <1>11, <1>12, <1>13, <1>14 DEF ComposeInv

(***************************************************************************)
(* Steps that end the call or go to the request that aborts the upload.    *)
(***************************************************************************)
LEMMA BuiltKept ==
  ASSUME BuiltInv, UNCHANGED <<src, sources>>
  PROVE  BuiltInv'
BY DEF BuiltInv, Built

LEMMA WholeKept ==
  ASSUME WholeInv, UNCHANGED <<sources, parts, object, late>>
  PROVE  WholeInv'
BY DEF WholeInv, Composed

LEMMA Ends ==
  ASSUME ComposeInv, pc' \in {"abort", "done"},
         UNCHANGED <<src, sources, i, part_count, parts, offset, size>>,
         DOMAIN stored' = PartNumbers, part_number' \in Nat,
         upload_id' \in BOOLEAN, abort_failed' \in BOOLEAN, PhaseInv', WholeInv'
  PROVE  ComposeInv'
<1>1. ComposeTypeOK'
  BY DEF ComposeInv, ComposeTypeOK
<1>2. BuiltInv'
  BY BuiltKept DEF ComposeInv
<1>3. PartsInv'
  BY DEF PartsInv, Copying
<1>4. Matching'
  <2>1. PICK before \in [1 .. Len(sources) + 1 -> Nat] : TRUE
    BY DEF ComposeInv, Matching
  <2>2. CountInv(before)' /\ CopiedInv(before)' /\ PlaceInv(before)'
    BY DEF CountInv, CopiedInv, PlaceInv, copied, Copying
  <2> QED BY <2>1, <2>2 DEF Matching
<1> QED BY <1>1, <1>2, <1>3, <1>4 DEF ComposeInv

\* The call returns an error before there is an upload.
LEMMA EarlyReturn ==
  ASSUME ComposeInv, pc \in Early, Return("err"), upload' \in {"none", "aborted"},
         UNCHANGED <<src, sources, i, part_count, partVars, upload_id, abort_failed,
                     stored, object, late>>
  PROVE  ComposeInv'
<1>1. WholeInv'
  BY WholeKept DEF ComposeInv, partVars
<1>2. PhaseInv'
  BY DEF ComposeInv, PhaseInv, Return, Early, Copying
<1>3. ComposeTypeOK
  BY DEF ComposeInv
<1> QED BY <1>1, <1>2, <1>3, Ends DEF Return, partVars, ComposeTypeOK

(***************************************************************************)
(* CalculatePartCount.                                                     *)
(***************************************************************************)
LEMMA StatPreserves ==
  ASSUME ComposeInv, Stat
  PROVE  ComposeInv'
<1> DEFINE s == sources[i]
           n == SizeOf(s, src[s.key].size)
<1>1. CASE Return("err") /\ UNCHANGED countVars
  BY <1>1, EarlyReturn DEF Stat, storeVars, countVars, partVars, Early, ComposeInv, PhaseInv
<1>2. ASSUME ~BuildError(s, src[s.key].size), ~CountError(n),
             part_count' = part_count + PieceCount(n),
             i' = IF i = Len(sources) THEN 1 ELSE i + 1,
             Goto(IF i = Len(sources) THEN "choose" ELSE "stat")
      PROVE  ComposeInv'
  <2>1. /\ pc = "stat" /\ pc' = IF i = Len(sources) THEN "choose" ELSE "stat"
        /\ UNCHANGED <<src, upload, stored, object, late, leaked, sources, offset, size,
                       part_number, parts, upload_id, abort_failed, result>>
    BY <1>2 DEF Stat, Goto, storeVars, partVars
  <2>2. i \in 1 .. Len(sources) /\ Len(sources) \in Nat /\ part_count \in Nat
    BY DEF ComposeInv, ComposeTypeOK
  <2>3. n \in Nat /\ PieceCount(n) \in Nat
    BY <1>2, <2>2, SourceFacts, SizeFacts, PieceFacts DEF ComposeInv
  <2>4. /\ n < kMinPartSize => i = Len(sources)
        /\ n > kMaxPartSize /\ LastPiece(n) < kMinPartSize => i = Len(sources)
        /\ part_count + PieceCount(n) <= kMaxMultipartCount
    <3>1. ~(part_count + PieceCount(n) > kMaxMultipartCount)
      BY <1>2 DEF CountError
    <3>2. part_count + PieceCount(n) <= kMaxMultipartCount
      BY <2>2, <2>3, <3>1, LimitsAssumption
    <3> QED BY <1>2, <3>2 DEF CountError
  <2>5. part_count' \in Nat /\ part_count' <= kMaxMultipartCount
    BY <1>2, <2>2, <2>3, <2>4
  <2>6. ComposeTypeOK'
    <3>1. i' \in 1 .. Len(sources')
      BY <1>2, <2>1, <2>2
    <3>2. pc' \in Early
      BY <2>1 DEF Early
    <3> QED BY <2>1, <2>5, <3>1, <3>2 DEF ComposeInv, ComposeTypeOK
  <2>7. BuiltInv' /\ WholeInv'
    BY <2>1, BuiltKept, WholeKept DEF ComposeInv
  <2>8. PhaseInv'
    BY <1>2, <2>1 DEF ComposeInv, PhaseInv, Early, Copying
  <2>9. PartsInv'
    BY <2>1 DEF PartsInv, Copying
  <2>10. Matching'
    <3>1. PICK before \in [1 .. Len(sources) + 1 -> Nat] : CountInv(before)
      BY DEF ComposeInv, Matching
    <3>2. /\ before[1] = 0 /\ part_count = before[i]
          /\ \A m \in 1 .. i - 1 : Current(m) => Fits(before, m)
      BY <2>1, <2>2, <3>1 DEF CountInv, counted
    <3>3. PICK next \in [1 .. Len(sources) + 1 -> Nat] :
            /\ next[i + 1] = part_count'
            /\ \A m \in 1 .. Len(sources) + 1 : m # i + 1 => next[m] = before[m]
      <4> DEFINE f == [before EXCEPT ![i + 1] = part_count']
      <4>1. f \in [1 .. Len(sources) + 1 -> Nat] /\ f[i + 1] = part_count'
        BY <2>2, <2>5
      <4>2. \A m \in 1 .. Len(sources) + 1 : m # i + 1 => f[m] = before[m]
        OBVIOUS
      <4> QED BY <4>1, <4>2
    <3>4. ASSUME NEW m \in 1 .. i, Current(m) PROVE Fits(next, m)
      <4>1. CASE m \in 1 .. i - 1
        <5>1. next[m] = before[m] /\ next[m + 1] = before[m + 1]
          BY <2>2, <3>3, <4>1
        <5> QED BY <3>2, <3>4, <4>1, <5>1 DEF Fits
      <4>2. CASE m = i
        <5>1. sources[m].built = src[sources[m].key]
          BY <2>2, <3>4, <4>2 DEF Current, ComposeInv, BuiltInv
        <5>2. SizeOf(sources[m], sources[m].built.size) = n
          BY <4>2, <5>1
        <5>3. Pieces(sources[m]) = PieceCount(n)
          BY <5>2 DEF Pieces
        <5>4. next[i] = before[i]
          BY <2>2, <3>3
        <5>5. next[m + 1] = next[m] + Pieces(sources[m])
          BY <1>2, <3>2, <3>3, <4>2, <5>3, <5>4
        <5>6. m # Len(sources) => n >= kMinPartSize /\ (n > kMaxPartSize => LastPiece(n) >= kMinPartSize)
          <6>1. n > kMaxPartSize => LastPiece(n) \in Nat
            BY <2>3, CeilFacts
          <6> QED BY <2>3, <2>4, <4>2, <6>1, LimitsAssumption
        <5> QED BY <5>2, <5>5, <5>6 DEF Fits, Roomy
      <4> QED BY <2>2, <4>1, <4>2
    <3>5. next[1] = 0 /\ counted' = i
      BY <1>2, <2>1, <2>2, <3>2, <3>3 DEF counted
    <3>6. \A m \in 1 .. i : Current(m)' = Current(m) /\ Fits(next, m)' = Fits(next, m)
      BY <2>1 DEF Current, Built, Fits, Roomy
    <3>7. CountInv(next)'
      BY <3>3, <3>4, <3>5, <3>6 DEF CountInv
    <3>8. CopiedInv(next)' /\ PlaceInv(next)'
      BY <2>1 DEF CopiedInv, PlaceInv, copied
    <3> QED BY <2>1, <3>3, <3>7, <3>8 DEF Matching
  <2> QED BY <2>6, <2>7, <2>8, <2>9, <2>10 DEF ComposeInv
<1> QED BY <1>1, <1>2 DEF Stat

LEMMA ChoosePreserves ==
  ASSUME ComposeInv, Choose
  PROVE  ComposeInv'
<1>1. /\ pc = "choose" /\ pc' \in {"copyStat", "create"}
      /\ UNCHANGED <<src, upload, stored, object, late, leaked, sources, i, part_count, offset, size,
                     part_number, parts, upload_id, abort_failed, result>>
  BY DEF Choose, Goto, storeVars, partVars, countVars
<1>2. ComposeTypeOK'
  BY <1>1 DEF ComposeInv, ComposeTypeOK, Early
<1>3. BuiltInv' /\ WholeInv'
  BY <1>1, BuiltKept, WholeKept DEF ComposeInv
<1>4. PhaseInv'
  BY <1>1 DEF ComposeInv, PhaseInv, Early, Copying
<1>5. PartsInv'
  BY <1>1 DEF PartsInv, Copying
<1>6. Matching'
  <2>1. PICK before \in [1 .. Len(sources) + 1 -> Nat] : CountInv(before)
    BY DEF ComposeInv, Matching
  <2>2. counted = Len(sources) /\ counted' = Len(sources)
    BY <1>1 DEF counted
  <2>3. CountInv(before)'
    BY <1>1, <2>1, <2>2 DEF CountInv, Current, Built, Fits, Roomy
  <2>4. CopiedInv(before)' /\ PlaceInv(before)'
    BY <1>1 DEF CopiedInv, PlaceInv, copied
  <2> QED BY <1>1, <2>1, <2>3, <2>4 DEF Matching
<1> QED BY <1>2, <1>3, <1>4, <1>5, <1>6 DEF ComposeInv

(***************************************************************************)
(* CopyObject.                                                             *)
(***************************************************************************)
LEMMA CopyStatPreserves ==
  ASSUME ComposeInv, CopyStat
  PROVE  ComposeInv'
<1> DEFINE s == sources[1]
<1>0. /\ pc = "copyStat"
      /\ UNCHANGED <<src, upload, stored, object, late, leaked, offset, size,
                     part_number, parts, upload_id, abort_failed>>
  BY DEF CopyStat, storeVars, partVars
<1>1. CASE Return("err") /\ UNCHANGED <<sources, countVars>>
  BY <1>0, <1>1, EarlyReturn DEF countVars, partVars, Early, ComposeInv, PhaseInv
<1>2. CASE /\ sources' = <<[s EXCEPT !.built = None]>> /\ i' = 1 /\ part_count' = 0
           /\ Goto("stat")
  <2>1. s \in SourceSet
    <3>1. 1 \in 1 .. Len(sources)
      BY DEF ComposeInv, ComposeTypeOK
    <3> QED BY <3>1, SourceFacts DEF ComposeInv
  <2>2. [s EXCEPT !.built = None] \in SourceSet /\ [s EXCEPT !.built = None].built = None
    BY <2>1 DEF SourceSet
  <2>3. sources' \in Seq(SourceSet) /\ Len(sources') = 1 /\ sources' # <<>> /\ sources'[1].built = None
    <3> DEFINE fresh == [s EXCEPT !.built = None]
    <3>1. fresh \in SourceSet /\ fresh.built = None /\ sources' = <<fresh>>
      BY <1>2, <2>2
    <3> HIDE DEF fresh
    <3> QED BY <3>1
  <2>4. pc' = "stat" /\ result' = result
    BY <1>2 DEF Goto
  <2>5. ComposeTypeOK'
    <3>1. i' \in 1 .. Len(sources') /\ part_count' \in Nat /\ part_count' <= kMaxMultipartCount
      BY <1>2, <2>3, LimitsAssumption
    <3> QED BY <1>0, <2>3, <2>4, <3>1 DEF ComposeInv, ComposeTypeOK, Early
  <2>6. BuiltInv'
    <3>1. \A n \in 1 .. Len(sources') : n = 1
      BY <2>3
    <3> QED BY <2>3, <3>1 DEF BuiltInv, Built
  <2>7. PhaseInv'
    BY <1>0, <2>4 DEF ComposeInv, PhaseInv, Early, Copying
  <2>8. PartsInv' /\ WholeInv'
    BY <1>0, <2>4, <2>7 DEF PartsInv, WholeInv, PhaseInv, Early, Copying
  <2>9. Matching'
    <3>1. PICK before \in [1 .. Len(sources') + 1 -> Nat] : before[1] = 0
      <4> WITNESS [n \in 1 .. Len(sources') + 1 |-> 0] \in [1 .. Len(sources') + 1 -> Nat]
      <4> QED BY <2>3
    <3>2. counted' = 0
      BY <1>2, <2>4 DEF counted
    <3>3. CountInv(before)'
      BY <1>2, <3>1, <3>2 DEF CountInv
    <3>4. CopiedInv(before)' /\ PlaceInv(before)'
      BY <2>4 DEF CopiedInv, PlaceInv, copied
    <3> QED BY <3>1, <3>3, <3>4 DEF Matching
  <2> QED BY <2>5, <2>6, <2>7, <2>8, <2>9 DEF ComposeInv
<1>3. CASE Goto("copy") /\ UNCHANGED <<sources, countVars>>
  <2>1. pc' = "copy" /\ UNCHANGED <<result, sources, i, part_count>>
    BY <1>3 DEF Goto, countVars
  <2>2. ComposeTypeOK'
    BY <1>0, <2>1 DEF ComposeInv, ComposeTypeOK, Early
  <2>3. BuiltInv' /\ WholeInv'
    BY <1>0, <2>1, BuiltKept, WholeKept DEF ComposeInv
  <2>4. PhaseInv'
    BY <1>0, <2>1 DEF ComposeInv, PhaseInv, Early, Copying
  <2>5. PartsInv'
    BY <2>1 DEF PartsInv, Copying
  <2>6. Matching'
    <3>1. PICK before \in [1 .. Len(sources) + 1 -> Nat] : TRUE
      BY DEF ComposeInv, Matching
    <3>2. CountInv(before)' /\ CopiedInv(before)' /\ PlaceInv(before)'
      BY <2>1 DEF CountInv, CopiedInv, PlaceInv, copied, Copying
    <3> QED BY <2>1, <3>1, <3>2 DEF Matching
  <2> QED BY <2>2, <2>3, <2>4, <2>5, <2>6 DEF ComposeInv
<1> QED BY <1>1, <1>2, <1>3 DEF CopyStat

LEMMA CopyPreserves ==
  ASSUME ComposeInv, NEW reply \in {"ok", "refused", "lost"}, Copy(reply)
  PROVE  ComposeInv'
<1> DEFINE data == Bytes(sources[1].key, src[sources[1].key].etag, 0, src[sources[1].key].size)
<1>1. /\ pc = "copy" /\ pc' = "done" /\ result' = IF reply = "ok" THEN "ok" ELSE "err"
      /\ object' = IF reply \in {"ok", "lost"} THEN <<data>> ELSE object
      /\ UNCHANGED <<upload, stored, late, leaked, src, sources, i, part_count, offset, size,
                     part_number, parts, upload_id, abort_failed>>
  BY DEF Copy, ServePut, Return, countVars, partVars
<1>2. parts = <<>> /\ late = <<>> /\ upload = "none"
  BY <1>1 DEF ComposeInv, PhaseInv, Early
<1>3. WholeInv'
  BY <1>1, <1>2 DEF WholeInv
<1> HIDE DEF data
<1>4. <<data>> # <<>>
  OBVIOUS
<1>5. PhaseInv'
  BY <1>1, <1>2, <1>4 DEF ComposeInv, PhaseInv, Early, Copying
<1>6. ComposeTypeOK
  BY DEF ComposeInv
<1> QED BY <1>1, <1>3, <1>5, <1>6, Ends DEF ComposeTypeOK

(***************************************************************************)
(* The multipart upload.                                                   *)
(***************************************************************************)
LEMMA CreatePreserves ==
  ASSUME ComposeInv, NEW reply \in {"ok", "refused", "lost", "noid"}, CreateMultipartUpload(reply)
  PROVE  ComposeInv'
<1>1. /\ pc = "create"
      /\ upload' = IF reply = "ok" THEN "open" ELSE upload
      /\ upload_id' = (reply = "ok")
      /\ IF reply \in {"ok", "noid"} THEN Goto("source") ELSE Return("err")
      /\ UNCHANGED <<stored, object, late, src, sources, i, part_count, offset, size,
                     part_number, parts, abort_failed>>
  BY DEF CreateMultipartUpload, ServeCreate, countVars, partVars
<1>2. upload = "none" /\ ~upload_id /\ parts = <<>> /\ part_number = 0 /\ object = <<>> /\ late = <<>>
      /\ i = 1 /\ result = "pending"
  BY <1>1 DEF ComposeInv, PhaseInv, Early
<1>3. WholeInv'
  BY <1>1, WholeKept DEF ComposeInv
<1>4. CASE reply \notin {"ok", "noid"}
  <2>1. upload_id' = upload_id
    BY <1>1, <1>2, <1>4 DEF ComposeInv, ComposeTypeOK
  <2> QED BY <1>1, <1>2, <1>4, <2>1, EarlyReturn DEF partVars, Early
<1>5. CASE reply \in {"ok", "noid"}
  <2>1. pc' = "source" /\ result' = result
    BY <1>1, <1>5 DEF Goto
  <2>2. ComposeTypeOK'
    BY <1>1, <2>1 DEF ComposeInv, ComposeTypeOK, Copying
  <2>3. BuiltInv'
    BY <1>1, BuiltKept DEF ComposeInv
  <2>4. PhaseInv'
    BY <1>1, <1>2, <2>1 DEF ComposeInv, PhaseInv, Early, Copying
  <2>5. Len(parts') = 0
    BY <1>1, <1>2
  <2>6. PartsInv'
    BY <1>1, <1>2, <2>5, PartNumberAssumption DEF PartsInv
  <2>7. Matching'
    <3>1. PICK before \in [1 .. Len(sources) + 1 -> Nat] : CountInv(before)
      BY DEF ComposeInv, Matching
    <3>2. counted = Len(sources) /\ counted' = Len(sources) /\ copied' = 0
      BY <1>1, <1>2, <2>1 DEF counted, copied
    <3>3. CountInv(before)'
      BY <1>1, <3>1, <3>2 DEF CountInv, Current, Built, Fits, Roomy
    <3>4. CopiedInv(before)'
      BY <3>2 DEF CopiedInv
    <3>5. before[1] = 0
      BY <1>1, <3>1 DEF CountInv
    <3>6. PlaceInv(before)'
      BY <1>1, <1>2, <2>1, <2>5, <3>5 DEF PlaceInv
    <3> QED BY <1>1, <3>1, <3>3, <3>4, <3>6 DEF Matching
  <2> QED BY <1>3, <2>2, <2>3, <2>4, <2>6, <2>7 DEF ComposeInv
<1> QED BY <1>4, <1>5

LEMMA NextSourcePreserves ==
  ASSUME ComposeInv, NextSource
  PROVE  ComposeInv'
<1> DEFINE s == sources[i]
<1>1. /\ pc = "source"
      /\ UNCHANGED <<src, upload, stored, object, late, leaked, sources, i, part_count,
                     part_number, parts, upload_id, abort_failed>>
  BY DEF NextSource, storeVars, countVars
<1>2. WholeInv' /\ BuiltInv'
  BY <1>1, WholeKept, BuiltKept DEF ComposeInv
<1>3. i \in 1 .. Len(sources) /\ ComposeTypeOK
  BY DEF ComposeInv, ComposeTypeOK
<1>4. CASE s.built = None
  <2>1. pc' = "done" /\ result' = "terminated" /\ UNCHANGED <<offset, size>>
    BY <1>4 DEF NextSource, Return
  <2>2. PhaseInv'
    BY <1>1, <2>1 DEF ComposeInv, PhaseInv, Early, Copying
  <2> QED BY <1>1, <1>2, <1>3, <2>1, <2>2, Ends DEF ComposeTypeOK
<1>5. CASE s.built # None
  <2>1. /\ size' = SizeOf(s, s.built.size) /\ offset' = OffsetOf(s)
        /\ pc' = "part" /\ result' = result
    BY <1>5 DEF NextSource, Goto
  <2>2. Built(i) /\ size' \in Nat /\ offset' \in Nat /\ Pieces(s) \in Nat /\ Pieces(s) >= 1
    BY <1>3, <1>5, <2>1, SourceFacts, BuiltFacts DEF Built, ComposeInv
  <2>3. ComposeTypeOK'
    BY <1>1, <1>3, <2>1, <2>2 DEF ComposeTypeOK, Copying
  <2>4. PhaseInv'
    BY <1>1, <2>1 DEF ComposeInv, PhaseInv, Early, Copying
  <2>5. PartsInv'
    BY <1>1, <2>1 DEF ComposeInv, PartsInv, Copying, LargeEnough
  <2>6. Matching'
    <3>1. PICK before \in [1 .. Len(sources) + 1 -> Nat] :
            CountInv(before) /\ CopiedInv(before) /\ PlaceInv(before)
      BY DEF ComposeInv, Matching
    <3>2. counted = Len(sources) /\ counted' = Len(sources) /\ copied = i - 1 /\ copied' = i - 1
      BY <1>1, <2>1 DEF counted, copied
    <3>3. CountInv(before)'
      BY <1>1, <2>1, <3>1, <3>2 DEF CountInv, Current, Built, Fits, Roomy, Copying
    <3>4. CopiedInv(before)'
      BY <1>1, <3>1, <3>2 DEF CopiedInv, Built, Fits, Roomy, CopiedAt
    <3>5. PlaceInv(before)'
      <4>1. Len(parts) = before[i] /\ before[i] \in Nat
        BY <1>1, <1>3, <3>1 DEF PlaceInv
      <4>2. 0 * kMaxPartSize = 0
        BY LimitsAssumption
      <4>3. /\ 0 < Pieces(s) /\ Len(parts) = before[i] + 0
            /\ offset' = OffsetOf(s) + 0 /\ size' = SizeOf(s, s.built.size) - 0
        BY <2>1, <2>2, <4>1
      <4>4. UnderWay(before, 0)'
        BY <1>1, <4>2, <4>3 DEF UnderWay, CopiedAt
      <4>5. Built(i)'
        BY <1>1, <2>2 DEF Built
      <4> QED BY <2>1, <4>4, <4>5 DEF PlaceInv
    <3> QED BY <1>1, <3>1, <3>3, <3>4, <3>5 DEF Matching
  <2> QED BY <1>2, <2>3, <2>4, <2>5, <2>6 DEF ComposeInv
<1> QED BY <1>4, <1>5

\* The arithmetic of a piece that is not the last one, and of the last one.
LEMMA InnerPiece ==
  ASSUME NEW S \in Nat, NEW O \in Nat, NEW M \in Nat, M > 0, NEW qM \in Nat, S - qM > M,
         NEW off, NEW left, off = O + qM, left = S - qM
  PROVE  /\ left > M /\ left - M > 0
         /\ left - M = S - (qM + M) /\ off + M = O + (qM + M)
         /\ O + (qM + M) < O + S
OBVIOUS

LEMMA OuterPiece ==
  ASSUME NEW S \in Nat, NEW O \in Nat, NEW M \in Nat, M > 0, NEW qM \in Nat, S - qM \in 0 .. M,
         NEW off, NEW left, off = O + qM, left = S - qM
  PROVE  /\ ~(left > M) /\ left \in Nat /\ left - left = 0
         /\ off + left = O + S
         /\ ~(O + (qM + M) < O + S)
OBVIOUS

\* What the loop takes after q pieces of a source is piece q + 1.
LEMMA NextPiece ==
  ASSUME ComposeTypeOK, BuiltInv, NEW m \in 1 .. Len(sources), Built(m),
         NEW q \in Nat, q < Pieces(sources[m]),
         offset = OffsetOf(sources[m]) + q * kMaxPartSize,
         size = SizeOf(sources[m], sources[m].built.size) - q * kMaxPartSize
  PROVE  LET s == sources[m]
             S == SizeOf(s, s.built.size)
             n == IF size > kMaxPartSize THEN kMaxPartSize ELSE size
         IN  /\ n \in Nat
             /\ Bytes(s.key, s.built.etag, offset, offset + n) = Piece(s, q + 1)
             /\ q + 1 < Pieces(s) =>
                  /\ n = kMaxPartSize /\ size - n > 0
                  /\ size - n = S - (q + 1) * kMaxPartSize
                  /\ offset + n = OffsetOf(s) + (q + 1) * kMaxPartSize
             /\ q + 1 = Pieces(s) =>
                  /\ size - n = 0
                  /\ n = IF S > kMaxPartSize THEN LastPiece(S) ELSE S
<1> DEFINE s == sources[m]
           S == SizeOf(s, s.built.size)
           M == kMaxPartSize
           n == IF size > M THEN M ELSE size
           c == Pieces(s)
           O == OffsetOf(s)
           qM == q * M
<1>1. O \in Nat /\ S \in Nat /\ c \in Nat /\ M \in Nat /\ M > 0
  BY SourceFacts, BuiltFacts, LimitsAssumption
<1>2. qM \in Nat /\ (q + 1) * M = qM + M
  BY TimesNext
<1>3. /\ q + 1 < c => S - qM > M
      /\ q + 1 = c => S - qM \in 0 .. M /\ (S > M => S - qM = LastPiece(S))
      /\ S <= M => c = 1
  BY <1>1, PieceFacts DEF Pieces
<1>4. c = 1 => qM = 0
  <2>1. c = 1 => q = 0
    OBVIOUS
  <2>2. 0 * M = 0
    BY <1>1
  <2> QED BY <2>1, <2>2
<1>5. Piece(s, q + 1) = Bytes(s.key, s.built.etag, O + qM,
                              IF O + (qM + M) < O + S THEN O + (qM + M) ELSE O + S)
  <2>1. ((q + 1) - 1) * M = qM
    <3>1. (q + 1) - 1 = q
      OBVIOUS
    <3> QED BY <3>1
  <2> QED BY <1>2, <2>1 DEF Piece
<1>6. offset = O + qM /\ size = S - qM
  OBVIOUS
<1>7. q + 1 < c \/ q + 1 = c
  BY <1>1
<1> HIDE DEF S, O, c, qM
<1>8. CASE q + 1 < c
  <2>1. /\ size > M /\ size - M > 0
        /\ size - M = S - (qM + M) /\ offset + M = O + (qM + M)
        /\ O + (qM + M) < O + S
    BY <1>1, <1>2, <1>3, <1>6, <1>8, InnerPiece
  <2>2. n = M
    BY <2>1
  <2>3. Bytes(s.key, s.built.etag, offset, offset + n) = Piece(s, q + 1)
    BY <1>5, <1>6, <2>1, <2>2
  <2>4. ~(q + 1 = c)
    BY <1>1, <1>8
  <2> QED BY <1>1, <1>2, <2>1, <2>2, <2>3, <2>4 DEF S, O, c
<1>9. CASE q + 1 = c
  <2>1. /\ ~(size > M) /\ size \in Nat /\ size - size = 0
        /\ offset + size = O + S
        /\ ~(O + (qM + M) < O + S)
    BY <1>1, <1>2, <1>3, <1>6, <1>9, OuterPiece
  <2>2. n = size
    BY <2>1
  <2>3. Bytes(s.key, s.built.etag, offset, offset + n) = Piece(s, q + 1)
    BY <1>5, <1>6, <2>1, <2>2
  <2>4. size = IF S > M THEN LastPiece(S) ELSE S
    <3>1. CASE S > M
      BY <1>3, <1>6, <1>9, <3>1
    <3>2. CASE ~(S > M)
      <4>1. S <= M
        BY <1>1, <3>2
      <4>2. qM = 0
        BY <1>3, <1>4, <4>1
      <4>3. size = S
        BY <1>1, <1>6, <4>2
      <4> QED BY <3>2, <4>3
    <3> QED BY <3>1, <3>2
  <2>5. ~(q + 1 < c)
    BY <1>1, <1>9
  <2> QED BY <2>1, <2>2, <2>3, <2>4, <2>5 DEF S, O, c
<1> QED BY <1>7, <1>8, <1>9

\* A failed request ends the call, or starts the one that aborts the upload.
LEMMA FailPreserves ==
  ASSUME ComposeInv, pc \in Copying, Fail,
         UNCHANGED <<src, upload, object, late, sources, i, part_count, parts, offset, size,
                     upload_id, abort_failed>>,
         DOMAIN stored' = PartNumbers, part_number' \in Nat
  PROVE  ComposeInv'
<1>1. WholeInv'
  BY WholeKept DEF ComposeInv
<1>2. pc' \in {"abort", "done"} /\ pc' = "abort" => result' = result /\ upload_id
  BY DEF Fail, Goto, Return
<1>3. PhaseInv'
  <2>1. CASE upload_id
    BY <2>1 DEF Fail, Goto, ComposeInv, PhaseInv, Early, Copying
  <2>2. CASE ~upload_id
    BY <2>2 DEF Fail, Return, ComposeInv, PhaseInv, Early, Copying
  <2> QED BY <2>1, <2>2
<1>4. ComposeTypeOK /\ pc' \in {"abort", "done"}
  BY DEF ComposeInv, Fail, Goto, Return
<1> QED BY <1>1, <1>3, <1>4, Ends DEF ComposeTypeOK

LEMMA NextPlace ==
  ASSUME NEW k \in Nat, NEW b \in Nat, NEW q \in Nat, k = b + q
  PROVE  b + (q + 1) = k + 1 /\ \A p \in 1 .. q : b + p \in 1 .. k
OBVIOUS

\* A part that was copied.
LEMMA PartCopied ==
  ASSUME ComposeInv, NEW reply \in {"ok", "noetag"}, UploadPartCopy(reply)
  PROVE  ComposeInv'
<1> DEFINE s == sources[i]
           S == SizeOf(s, s.built.size)
           n == IF size > kMaxPartSize THEN kMaxPartSize ELSE size
           data == Bytes(s.key, src[s.key].etag, offset, offset + n)
           N == Len(sources)
           last == size' = 0
<1>0. PICK K \in Nat : K = Len(parts)
  BY DEF ComposeInv, ComposeTypeOK
<1>1. /\ pc = "part" /\ part_number' = part_number + 1 /\ part_number' <= kMaxPartNumber
      /\ src[s.key].etag = s.built.etag
      /\ stored' = [stored EXCEPT ![part_number'] = data]
      /\ parts' = Append(parts, [number |-> part_number',
                                 etag |-> IF reply = "ok" THEN data ELSE NoChunk])
      /\ size' = size - n /\ offset' = offset + n
      /\ i' = IF last /\ i # N THEN i + 1 ELSE i
      /\ pc' = IF size' > 0 THEN "part" ELSE IF i # N THEN "source" ELSE "complete"
      /\ UNCHANGED <<upload, object, late, result, src, sources, part_count, upload_id, abort_failed>>
  BY DEF UploadPartCopy, ServePart, Copyable, Matches, Advance, Goto
<1>2. ComposeTypeOK /\ BuiltInv /\ i \in 1 .. N /\ N \in Nat /\ parts \in Seq(PartSet)
  BY DEF ComposeInv, ComposeTypeOK
<1>3. PICK before \in [1 .. N + 1 -> Nat] :
        CountInv(before) /\ CopiedInv(before) /\ PlaceInv(before)
  BY DEF ComposeInv, Matching
<1>4. PICK q \in Nat : UnderWay(before, q) /\ Built(i)
  BY <1>1, <1>3 DEF PlaceInv
<1>5. /\ q < Pieces(s) /\ K = before[i] + q
      /\ offset = OffsetOf(s) + q * kMaxPartSize
      /\ size = S - q * kMaxPartSize
      /\ CopiedAt(before, i, q)
  BY <1>0, <1>4 DEF UnderWay
<1>6. /\ n \in Nat
      /\ data = Piece(s, q + 1)
      /\ q + 1 < Pieces(s) =>
           /\ n = kMaxPartSize /\ size' > 0
           /\ size' = S - (q + 1) * kMaxPartSize
           /\ offset' = OffsetOf(s) + (q + 1) * kMaxPartSize
      /\ q + 1 = Pieces(s) =>
           /\ size' = 0
           /\ n = IF S > kMaxPartSize THEN LastPiece(S) ELSE S
  BY <1>1, <1>2, <1>4, <1>5, NextPiece
<1>7. Pieces(s) \in Nat /\ S \in Nat /\ before[i] \in Nat /\ before[i + 1] \in Nat
      /\ OffsetOf(s) \in Nat /\ s.key \in Keys /\ src[s.key].etag \in Nat
  <2>1. i + 1 \in 1 .. N + 1 /\ i \in 1 .. N + 1
    BY <1>2
  <2> QED BY <1>2, <1>4, <2>1, SourceFacts, BuiltFacts
<1>26. before[i] + (q + 1) = K + 1 /\ \A p \in 1 .. q : before[i] + p \in 1 .. K
  <2>1. K = before[i] + q /\ before[i] \in Nat
    BY <1>5, <1>7
  <2> QED BY <2>1, NextPlace
<1>8. q + 1 < Pieces(s) \/ q + 1 = Pieces(s)
  BY <1>5, <1>7
<1>9. /\ part_number = K /\ part_number' = K + 1 /\ K + 1 <= kMaxPartNumber
      /\ \A k \in 1 .. K : parts[k].number = k /\ LargeEnough(k)
  <2>1. part_number = K /\ \A k \in 1 .. K : parts[k].number = k /\ LargeEnough(k)
    BY <1>0, <1>1 DEF ComposeInv, PartsInv, Copying
  <2> QED BY <1>1, <2>1
<1>10. size \in Nat /\ offset \in Nat /\ size' \in Nat /\ offset' \in Nat
  <2>1. size \in Nat /\ offset \in Nat /\ n \in Nat /\ n <= size
    BY <1>2, <1>6, LimitsAssumption DEF ComposeTypeOK
  <2> HIDE DEF n
  <2> QED BY <1>1, <2>1
<1>11. data \in CopySet /\ data.hi - data.lo = n
  <2>1. data = [key |-> s.key, etag |-> src[s.key].etag, lo |-> offset, hi |-> offset + n]
    BY DEF Bytes
  <2>2. offset + n \in Nat /\ (offset + n) - offset = n
    BY <1>6, <1>10
  <2> HIDE DEF n
  <2>3. data.hi = offset + n /\ data.lo = offset
    BY <2>1
  <2> QED BY <1>7, <1>10, <2>1, <2>2, <2>3 DEF CopySet
<1> HIDE DEF n, data
<1>12. /\ DOMAIN stored' = PartNumbers /\ stored'[K + 1] = data
       /\ \A k \in 1 .. K : stored'[k] = stored[k]
  <2>1. DOMAIN stored = PartNumbers /\ PartNumbers = 1 .. kMaxPartNumber /\ kMaxPartNumber \in Nat
    BY <1>2, PartNumberAssumption DEF ComposeTypeOK, PartNumbers
  <2>2. K + 1 \in DOMAIN stored /\ \A k \in 1 .. K : k \in DOMAIN stored /\ k # K + 1
    BY <1>2, <1>9, <2>1
  <2>3. stored' = [stored EXCEPT ![K + 1] = data]
    BY <1>1, <1>9
  <2> QED BY <2>1, <2>2, <2>3
<1>13. /\ parts' \in Seq(PartSet) /\ Len(parts') = K + 1 /\ parts'[K + 1].number = K + 1
       /\ \A k \in 1 .. K : parts'[k] = parts[k]
  <2> DEFINE p == [number |-> part_number', etag |-> IF reply = "ok" THEN data ELSE NoChunk]
  <2>1. p \in PartSet /\ p.number = K + 1
    <3>1. K + 1 \in Nat /\ (IF reply = "ok" THEN data ELSE NoChunk) \in CopySet \cup {NoChunk}
      BY <1>2, <1>11
    <3> QED BY <1>9, <3>1 DEF PartSet
  <2>2. parts' = Append(parts, p)
    BY <1>1
  <2> HIDE DEF p
  <2> QED BY <1>0, <1>2, <2>1, <2>2, AppendProperties
<1>14. /\ q + 1 < Pieces(s) => pc' = "part" /\ i' = i
       /\ q + 1 = Pieces(s) => IF i # N THEN pc' = "source" /\ i' = i + 1
                                        ELSE pc' = "complete" /\ i' = i
  BY <1>1, <1>6
<1>15. ComposeTypeOK'
  <2>1. i' \in 1 .. Len(sources')
    BY <1>1, <1>2
  <2>2. pc' \in Copying /\ part_number' \in Nat
    BY <1>2, <1>8, <1>9, <1>14 DEF Copying
  <2> QED BY <1>1, <1>2, <1>10, <1>12, <1>13, <2>1, <2>2 DEF ComposeTypeOK
<1>16. BuiltInv'
  BY <1>1, BuiltKept DEF ComposeInv
<1>17. PhaseInv'
  <2>1. pc' \in Copying
    BY <1>8, <1>14 DEF Copying
  <2> QED BY <1>1, <2>1 DEF ComposeInv, PhaseInv, Early, Copying
<1>18. WholeInv'
  BY <1>1 DEF ComposeInv, PhaseInv, WholeInv, Copying
<1>19. Fits(before, i)
  <2>1. counted = N
    BY <1>1 DEF counted
  <2> QED BY <1>1, <1>2, <1>3, <1>4, <2>1 DEF CountInv, Current, Copying
<1>20. PartsInv'
  <2>1. \A k \in 1 .. K : LargeEnough(k)'
    BY <1>9, <1>12 DEF LargeEnough
  <2>2. pc' # "complete" => LargeEnough(K + 1)'
    <3> SUFFICES ASSUME pc' # "complete" PROVE n >= kMinPartSize
      BY <1>11, <1>12 DEF LargeEnough
    <3>1. CASE q + 1 < Pieces(s)
      BY <1>6, <3>1, LimitsAssumption
    <3>2. CASE q + 1 = Pieces(s)
      <4>1. i # N
        BY <1>14, <3>2
      <4> QED BY <1>6, <1>19, <3>2, <4>1 DEF Fits, Roomy
    <3> QED BY <1>8, <3>1, <3>2
  <2>3. \A k \in 1 .. Len(parts') : k \in 1 .. K \/ k = K + 1
    BY <1>2, <1>13
  <2>4. \A k \in 1 .. Len(parts') : parts'[k].number = k
    BY <1>9, <1>13, <2>3
  <2>5. ~(K + 1 < Len(parts'))
    BY <1>2, <1>13
  <2>6. \A k \in 1 .. Len(parts') : pc' # "complete" \/ k < Len(parts') => LargeEnough(k)'
    BY <2>1, <2>2, <2>3, <2>5
  <2> QED BY <1>9, <1>13, <2>4, <2>6 DEF PartsInv
<1>21. \A p \in 1 .. q + 1 : stored'[before[i] + p] = Piece(s, p)
  <2> TAKE p \in 1 .. q + 1
  <2>1. CASE p \in 1 .. q
    <3>1. before[i] + p \in 1 .. K
      BY <1>26, <2>1
    <3> QED BY <1>5, <1>12, <2>1, <3>1 DEF CopiedAt
  <2>2. CASE p = q + 1
    <3>1. before[i] + p = K + 1
      BY <1>26, <2>2
    <3> QED BY <1>6, <1>12, <2>2, <3>1
  <2> QED BY <2>1, <2>2
<1>22. ASSUME NEW m \in 1 .. i - 1
       PROVE  /\ Built(m)' /\ Fits(before, m)'
              /\ before[m + 1] <= Len(parts')
              /\ CopiedAt(before, m, Pieces(sources[m]))'
  <2>1. /\ Built(m) /\ Fits(before, m)
        /\ before[m + 1] <= K
        /\ CopiedAt(before, m, Pieces(sources[m]))
    <3>1. copied = i - 1
      BY <1>1 DEF copied
    <3> QED BY <1>0, <1>3, <3>1 DEF CopiedInv
  <2>2. m \in 1 .. N /\ m \in 1 .. N + 1 /\ m + 1 \in 1 .. N + 1
    BY <1>2
  <2>3. before[m] \in Nat /\ before[m + 1] \in Nat /\ Pieces(sources[m]) \in Nat
        /\ before[m + 1] = before[m] + Pieces(sources[m])
    BY <1>2, <2>1, <2>2, BuiltFacts DEF Fits
  <2>4. \A p \in 1 .. Pieces(sources[m]) : before[m] + p \in 1 .. K
    BY <1>2, <2>1, <2>3
  <2>5. CopiedAt(before, m, Pieces(sources[m]))'
    BY <1>1, <1>12, <2>1, <2>4 DEF CopiedAt
  <2>6. before[m + 1] <= Len(parts')
    BY <1>2, <1>13, <2>1, <2>3
  <2> QED BY <1>1, <2>1, <2>5, <2>6 DEF Built, Fits, Roomy
<1>23. CountInv(before)'
  <2>1. counted = N /\ counted' = N
    BY <1>1, <1>8, <1>14 DEF counted
  <2> QED BY <1>1, <1>3, <2>1 DEF CountInv, Current, Built, Fits, Roomy, Copying
<1>24. CopiedInv(before)' /\ PlaceInv(before)'
  <2>1. CASE q + 1 < Pieces(s)
    <3>1. copied' = i - 1
      BY <1>14, <2>1 DEF copied
    <3>2. CopiedInv(before)'
      BY <1>22, <3>1 DEF CopiedInv
    <3>3. UnderWay(before, q + 1)'
      <4>1. Len(parts') = before[i] + (q + 1)
        BY <1>13, <1>26
      <4> QED BY <1>1, <1>6, <1>14, <1>21, <2>1, <4>1 DEF UnderWay, CopiedAt
    <3>4. Built(i)'
      BY <1>1, <1>4, <1>14, <2>1 DEF Built
    <3>5. q + 1 \in Nat /\ pc' = "part"
      BY <1>14, <2>1
    <3>6. PlaceInv(before)'
      BY <3>3, <3>4, <3>5 DEF PlaceInv
    <3> QED BY <3>2, <3>6
  <2>2. CASE q + 1 = Pieces(s)
    <3>1. copied' = i
      <4>1. (i + 1) - 1 = i
        BY <1>2
      <4>2. CASE i # N
        BY <1>14, <2>2, <4>1, <4>2 DEF copied
      <4>3. CASE i = N
        BY <1>1, <1>14, <2>2, <4>3 DEF copied
      <4> QED BY <4>2, <4>3
    <3>2. Len(parts') = before[i + 1]
      BY <1>13, <1>19, <1>26, <2>2 DEF Fits
    <3>3. Built(i) /\ sources' = sources
      BY <1>1, <1>4
    <3>4. ASSUME NEW m \in 1 .. i
          PROVE  /\ Built(m)' /\ Fits(before, m)'
                 /\ before[m + 1] <= Len(parts')
                 /\ CopiedAt(before, m, Pieces(sources[m]))'
      <4>1. CASE m \in 1 .. i - 1
        BY <1>22, <4>1
      <4>2. CASE m = i
        <5>1. sources'[m].built # None /\ Fits(before, m)'
          BY <1>19, <3>3, <4>2 DEF Built, Fits, Roomy
        <5>2. before[m + 1] <= Len(parts')
          BY <1>7, <3>2, <4>2
        <5>3. CopiedAt(before, m, Pieces(sources[m]))'
          BY <1>21, <2>2, <3>3, <4>2 DEF CopiedAt
        <5> QED BY <5>1, <5>2, <5>3 DEF Built
      <4> QED BY <1>2, <4>1, <4>2
    <3>5. CopiedInv(before)'
      BY <3>1, <3>4 DEF CopiedInv
    <3>6. PlaceInv(before)'
      BY <1>1, <1>14, <2>2, <3>2 DEF PlaceInv
    <3> QED BY <3>5, <3>6
  <2> QED BY <1>8, <2>1, <2>2
<1>25. Matching'
  <2>1. before \in [1 .. Len(sources') + 1 -> Nat]
    BY <1>1
  <2> QED BY <1>23, <1>24, <2>1 DEF Matching
<1> QED BY <1>15, <1>16, <1>17, <1>18, <1>20, <1>25 DEF ComposeInv

LEMMA UploadPartCopyPreserves ==
  ASSUME ComposeInv, NEW reply \in {"ok", "noetag", "refused", "lost"}, UploadPartCopy(reply)
  PROVE  ComposeInv'
<1>1. CASE reply \in {"ok", "noetag"}
  BY <1>1, PartCopied
<1>2. CASE reply \notin {"ok", "noetag"}
  <2> DEFINE s == sources[i]
             n == IF size > kMaxPartSize THEN kMaxPartSize ELSE size
             data == Bytes(s.key, src[s.key].etag, offset, offset + n)
  <2>1. /\ pc = "part" /\ part_number' = part_number + 1 /\ Fail
        /\ stored' = IF reply = "lost" /\ upload = "open"
                       THEN [stored EXCEPT ![part_number'] = data] ELSE stored
        /\ UNCHANGED <<src, upload, object, late, sources, i, part_count, parts, offset, size,
                       upload_id, abort_failed>>
    BY <1>2 DEF UploadPartCopy, ServePart
  <2> HIDE DEF data
  <2>2. DOMAIN stored' = PartNumbers /\ part_number' \in Nat
    BY <2>1 DEF ComposeInv, ComposeTypeOK
  <2> QED BY <2>1, <2>2, FailPreserves DEF Copying
<1> QED BY <1>1, <1>2

LEMMA CompletePreserves ==
  ASSUME ComposeInv, NEW reply \in {"ok", "refused", "lost", "late"}, CompleteMultipartUpload(reply)
  PROVE  ComposeInv'
<1> DEFINE N == Len(sources)
<1>1. /\ pc = "complete"
      /\ reply # "refused" => Acceptable(parts)
      /\ upload' = IF reply \in {"ok", "lost"} THEN "completed" ELSE upload
      /\ object' = IF reply \in {"ok", "lost"} THEN Assembled(parts) ELSE object
      /\ late' = IF reply = "late" THEN Assembled(parts) ELSE late
      /\ IF reply = "ok" THEN Return("ok") ELSE Fail
      /\ UNCHANGED <<stored, src, sources, i, part_count, offset, size, part_number, parts,
                     upload_id, abort_failed>>
  BY DEF CompleteMultipartUpload, ServeComplete, countVars, partVars
<1>2. object = <<>> /\ late = <<>> /\ result = "pending"
  BY <1>1 DEF ComposeInv, PhaseInv, Copying
<1>3. ComposeTypeOK /\ BuiltInv /\ parts \in Seq(PartSet) /\ Len(parts) \in Nat /\ N \in Nat /\ N >= 1
  <2>1. sources \in Seq(SourceSet) /\ sources # <<>>
    BY DEF ComposeInv, ComposeTypeOK
  <2>2. N \in Nat /\ N # 0
    BY <2>1, EmptySeq
  <2> QED BY <2>2 DEF ComposeInv, ComposeTypeOK
<1>4. ASSUME Acceptable(parts)
      PROVE  Assembled(parts) # <<>> /\ Composed(Assembled(parts))
  <2> DEFINE data == Assembled(parts)
  <2>1. Len(parts) # 0
    BY <1>3, <1>4, EmptySeq DEF Acceptable
  <2>2. \A k \in 1 .. Len(parts) : data[k] = stored[k]
    BY <1>1, <1>4 DEF Acceptable, Assembled, ComposeInv, PartsInv, Copying
  <2>3. data \in Seq(CopySet \cup {NoChunk}) /\ Len(data) = Len(parts)
    <3>1. \A k \in 1 .. Len(parts) : parts[k].etag \in CopySet \cup {NoChunk}
      <4> TAKE k \in 1 .. Len(parts)
      <4>1. parts[k] \in PartSet
        BY <1>3, ElementOfSeq
      <4> QED BY <4>1 DEF PartSet
    <3>2. data \in [1 .. Len(parts) -> CopySet \cup {NoChunk}]
      BY <3>1 DEF Assembled
    <3>3. data \in Seq(CopySet \cup {NoChunk})
      BY <1>3, <3>2, SeqDef
    <3>4. DOMAIN data = 1 .. Len(parts)
      BY DEF Assembled
    <3> HIDE DEF data
    <3> QED BY <1>3, <3>3, <3>4, LenProperties
  <2> HIDE DEF data
  <2>4. data # <<>>
    BY <2>1, <2>3, EmptySeq
  <2>5. PICK before \in [1 .. N + 1 -> Nat] :
          CountInv(before) /\ CopiedInv(before) /\ PlaceInv(before)
    BY DEF ComposeInv, Matching
  <2>6. copied = N /\ before[1] = 0 /\ before[N + 1] = Len(data)
    BY <1>1, <2>3, <2>5 DEF copied, CountInv, PlaceInv, Copying
  <2>7. ASSUME NEW m \in 1 .. N
        PROVE  /\ before[m + 1] = before[m] + Pieces(sources[m])
               /\ before[m + 1] \in 0 .. Len(data)
               /\ \A p \in 1 .. Pieces(sources[m]) : data[before[m] + p] = Piece(sources[m], p)
    <3>1. /\ Built(m) /\ Fits(before, m) /\ before[m + 1] <= Len(parts)
          /\ CopiedAt(before, m, Pieces(sources[m]))
      BY <2>5, <2>6 DEF CopiedInv
    <3>2. m \in 1 .. N + 1 /\ m + 1 \in 1 .. N + 1
      BY <1>3
    <3>3. before[m] \in Nat /\ before[m + 1] \in Nat /\ Pieces(sources[m]) \in Nat
          /\ before[m + 1] = before[m] + Pieces(sources[m])
      BY <1>3, <3>1, <3>2, BuiltFacts DEF Fits
    <3>4. \A p \in 1 .. Pieces(sources[m]) : before[m] + p \in 1 .. Len(parts)
      BY <1>3, <3>1, <3>3
    <3>5. before[m + 1] \in 0 .. Len(data)
      BY <1>3, <2>3, <3>1, <3>3
    <3>6. \A p \in 1 .. Pieces(sources[m]) : data[before[m] + p] = Piece(sources[m], p)
      BY <2>2, <3>1, <3>4 DEF CopiedAt
    <3> QED BY <3>3, <3>5, <3>6
  <2>8. before \in [1 .. N + 1 -> 0 .. Len(data)]
    <3>1. ASSUME NEW m \in 1 .. N + 1 PROVE before[m] \in 0 .. Len(data)
      <4>1. CASE m = 1
        BY <1>3, <2>3, <2>6, <4>1
      <4>2. CASE m # 1
        <5>1. PICK k \in 1 .. N : m = k + 1
          <6>1. m - 1 \in 1 .. N /\ m = (m - 1) + 1
            BY <1>3, <4>2
          <6> QED BY <6>1
        <5> QED BY <2>7, <5>1
      <4> QED BY <4>1, <4>2
    <3> QED BY <2>5, <3>1
  <2>9. Composed(data)
    BY <2>6, <2>7, <2>8 DEF Composed
  <2> QED BY <2>4, <2>9 DEF data
<1>5. WholeInv'
  <2>1. ASSUME object' # <<>> PROVE Composed(object')
    BY <1>1, <1>2, <1>4, <2>1
  <2>2. ASSUME late' # <<>> PROVE Composed(late')
    BY <1>1, <1>2, <1>4, <2>2
  <2> QED BY <1>1, <2>1, <2>2 DEF WholeInv, Composed
<1>6. pc' \in {"abort", "done"} /\ DOMAIN stored' = PartNumbers
  BY <1>1, <1>3 DEF Return, Fail, Goto, ComposeTypeOK
<1>7. PhaseInv'
  <2>1. CASE reply = "ok"
    <3>1. object' # <<>> /\ upload' = "completed" /\ pc' = "done" /\ result' = "ok"
      BY <1>1, <1>4, <2>1 DEF Return
    <3> QED BY <3>1 DEF PhaseInv, Early, Copying
  <2>2. CASE reply # "ok" /\ upload_id
    <3>1. pc' = "abort" /\ result' = "pending" /\ upload_id'
      BY <1>1, <1>2, <2>2 DEF Fail, Goto
    <3> QED BY <3>1 DEF PhaseInv, Early, Copying
  <2>3. CASE reply # "ok" /\ ~upload_id
    <3>1. upload # "open"
      BY <2>3 DEF ComposeInv, PhaseInv
    <3>2. pc' = "done" /\ result' = "err" /\ upload' # "open"
      BY <1>1, <2>3, <3>1 DEF Fail, Return
    <3> QED BY <3>2 DEF PhaseInv, Early, Copying
  <2> QED BY <2>1, <2>2, <2>3
<1> QED BY <1>1, <1>3, <1>5, <1>6, <1>7, Ends DEF ComposeTypeOK

LEMMA AbortPreserves ==
  ASSUME ComposeInv, NEW reply \in {"ok", "refused", "lost"}, AbortMultipartUpload(reply)
  PROVE  ComposeInv'
<1>1. /\ pc = "abort" /\ pc' = "done" /\ result' = "err" /\ abort_failed' = (reply # "ok")
      /\ reply = "ok" => upload = "open"
      /\ upload' = IF reply \in {"ok", "lost"} /\ upload = "open" THEN "aborted" ELSE upload
      /\ UNCHANGED <<stored, object, late, src, sources, i, part_count, offset, size, part_number,
                     parts, upload_id>>
  BY DEF AbortMultipartUpload, ServeAbort, Return, countVars, partVars
<1>2. WholeInv'
  BY <1>1, WholeKept DEF ComposeInv
<1>3. PhaseInv'
  BY <1>1 DEF ComposeInv, PhaseInv, Early, Copying
<1>4. ComposeTypeOK
  BY DEF ComposeInv
<1>5. abort_failed' \in BOOLEAN
  BY <1>1
<1> QED BY <1>1, <1>2, <1>3, <1>4, <1>5, Ends DEF ComposeTypeOK

(***************************************************************************)
(* The other clients and the network.                                      *)
(***************************************************************************)
\* A source that is replaced is not current any more, whatever the new one is.
LEMMA ReplacePreserves ==
  ASSUME ComposeInv, NEW k \in Keys, NEW n \in Sizes, Replace(k, n)
  PROVE  ComposeInv'
<1>1. /\ src' = [src EXCEPT ![k] = [size |-> n, etag |-> src[k].etag + 1]]
      /\ UNCHANGED <<upload, stored, object, late, pc, sources, i, part_count, offset, size,
                     part_number, parts, upload_id, abort_failed, result>>
  BY DEF Replace, storeVars, callVars, countVars, partVars
<1>2. ComposeTypeOK /\ src \in [Keys -> Version] /\ n \in Nat /\ src[k].etag \in Nat
  <2>1. src \in [Keys -> Version]
    BY DEF ComposeInv, ComposeTypeOK
  <2> QED BY <2>1, ComposeAssumption DEF ComposeInv, Version
<1>3. src' \in [Keys -> Version] /\ src'[k].etag = src[k].etag + 1
      /\ \A j \in Keys : j # k => src'[j] = src[j]
  <2>1. [size |-> n, etag |-> src[k].etag + 1] \in Version
    BY <1>2 DEF Version
  <2> QED BY <1>1, <1>2, <2>1
<1>4. ComposeTypeOK'
  BY <1>1, <1>2, <1>3 DEF ComposeTypeOK
<1>5. ASSUME NEW m \in 1 .. Len(sources), Built(m)
      PROVE  /\ sources[m].built.etag <= src'[sources[m].key].etag
             /\ sources[m].built.etag = src'[sources[m].key].etag =>
                  /\ src'[sources[m].key] = src[sources[m].key]
                  /\ sources[m].built.etag = src[sources[m].key].etag
  <2>1. sources[m].built.etag \in Nat /\ sources[m].key \in Keys
        /\ sources[m].built.etag <= src[sources[m].key].etag
    BY <1>2, <1>5, SourceFacts DEF ComposeInv, BuiltInv
  <2>2. CASE sources[m].key = k
    <3>1. src'[sources[m].key].etag = src[k].etag + 1
      BY <1>3, <2>2
    <3> QED BY <1>2, <2>1, <2>2, <3>1
  <2>3. CASE sources[m].key # k
    BY <1>3, <2>1, <2>3
  <2> QED BY <2>2, <2>3
<1>6. BuiltInv'
  <2> SUFFICES ASSUME NEW m \in 1 .. Len(sources), Built(m)
               PROVE  /\ ~BuildError(sources[m], sources[m].built.size)
                      /\ sources[m].built.etag <= src'[sources[m].key].etag
                      /\ sources[m].built.etag = src'[sources[m].key].etag
                           => sources[m].built = src'[sources[m].key]
    BY <1>1 DEF BuiltInv, Built
  <2> QED BY <1>5 DEF ComposeInv, BuiltInv
<1>7. PhaseInv' /\ WholeInv'
  BY <1>1, WholeKept DEF ComposeInv, PhaseInv
<1>8. PartsInv'
  BY <1>1 DEF ComposeInv, PartsInv, LargeEnough
<1>9. Matching'
  <2>1. PICK before \in [1 .. Len(sources) + 1 -> Nat] :
          CountInv(before) /\ CopiedInv(before) /\ PlaceInv(before)
    BY DEF ComposeInv, Matching
  <2>2. counted' = counted /\ copied' = copied
    BY <1>1 DEF counted, copied
  <2>3. \A m \in 1 .. counted : m \in 1 .. Len(sources)
    BY DEF counted, ComposeInv, ComposeTypeOK
  <2>4. \A m \in 1 .. Len(sources) : Current(m)' => Current(m)
    BY <1>1, <1>5 DEF Current, Built
  <2>5. \A m \in 1 .. Len(sources) : Fits(before, m) => Fits(before, m)'
    BY <1>1 DEF Fits, Roomy
  <2>6. CountInv(before)'
    BY <1>1, <2>1, <2>2, <2>3, <2>4, <2>5 DEF CountInv
  <2>7. CopiedInv(before)'
    BY <1>1, <2>1, <2>2 DEF CopiedInv, Built, Fits, Roomy, CopiedAt
  <2>8. PlaceInv(before)'
    BY <1>1, <2>1 DEF PlaceInv, Built, UnderWay, CopiedAt
  <2> QED BY <1>1, <2>1, <2>6, <2>7, <2>8 DEF Matching
<1> QED BY <1>4, <1>6, <1>7, <1>8, <1>9 DEF ComposeInv

\* A delayed completion: until the call is over or aborts, there is none.
LEMMA LatePreserves ==
  ASSUME ComposeInv, Network
  PROVE  ComposeInv'
<1>1. /\ late # <<>> /\ late' = <<>>
      /\ object' = IF upload \in {"none", "open"} THEN late ELSE object
      /\ upload' = IF upload = "open" THEN "completed" ELSE upload
      /\ UNCHANGED <<stored, src, pc, sources, i, part_count, offset, size,
                     part_number, parts, upload_id, abort_failed, result>>
  BY DEF Network, ServeLate, callVars, countVars, partVars
<1>2. pc \in {"abort", "done"}
  BY <1>1 DEF ComposeInv, PhaseInv, ComposeTypeOK
<1>3. WholeInv'
  BY <1>1 DEF ComposeInv, WholeInv, Composed
<1>4. PhaseInv'
  BY <1>1, <1>2 DEF ComposeInv, PhaseInv, Early, Copying
<1>5. ComposeTypeOK
  BY DEF ComposeInv
<1> QED BY <1>1, <1>2, <1>3, <1>4, <1>5, Ends DEF ComposeTypeOK

LEMMA ComposeStutters ==
  ASSUME ComposeInv, UNCHANGED vars
  PROVE  ComposeInv'
<1>1. UNCHANGED <<src, upload, stored, object, late, pc, sources, i, part_count, offset, size,
                  part_number, parts, upload_id, abort_failed, result>>
  BY DEF vars, storeVars, callVars, countVars, partVars
<1>2. ComposeTypeOK'
  BY <1>1 DEF ComposeInv, ComposeTypeOK
<1>3. BuiltInv' /\ WholeInv'
  BY <1>1, BuiltKept, WholeKept DEF ComposeInv
<1>4. PhaseInv'
  BY <1>1 DEF ComposeInv, PhaseInv
<1>5. PartsInv'
  BY <1>1 DEF ComposeInv, PartsInv, LargeEnough
<1>6. Matching'
  <2>1. PICK before \in [1 .. Len(sources) + 1 -> Nat] :
          CountInv(before) /\ CopiedInv(before) /\ PlaceInv(before)
    BY DEF ComposeInv, Matching
  <2>2. CountInv(before)'
    BY <1>1, <2>1 DEF CountInv, counted, Current, Built, Fits, Roomy
  <2>3. CopiedInv(before)'
    BY <1>1, <2>1 DEF CopiedInv, copied, Built, Fits, Roomy, CopiedAt
  <2>4. PlaceInv(before)'
    BY <1>1, <2>1 DEF PlaceInv, Built, UnderWay, CopiedAt
  <2> QED BY <1>1, <2>1, <2>2, <2>3, <2>4 DEF Matching
<1> QED BY <1>2, <1>3, <1>4, <1>5, <1>6 DEF ComposeInv

LEMMA ComposeNext ==
  ASSUME ComposeInv, [Next]_vars
  PROVE  ComposeInv'
<1>1. CASE UploadPartCopyInvalid
  <2>1. /\ pc = "part" /\ Fail /\ part_number' = part_number + 1
        /\ UNCHANGED <<src, upload, stored, object, late, sources, i, part_count, parts, offset, size,
                       upload_id, abort_failed>>
    BY <1>1 DEF UploadPartCopyInvalid, storeVars, countVars
  <2>2. DOMAIN stored' = PartNumbers /\ part_number' \in Nat
    BY <2>1 DEF ComposeInv, ComposeTypeOK
  <2> QED BY <2>1, <2>2, FailPreserves DEF Copying
<1>2. CASE Ended
  BY <1>2, ComposeStutters DEF Ended
<1> QED
  BY <1>1, <1>2, StatPreserves, ChoosePreserves, CopyStatPreserves, CopyPreserves,
     CreatePreserves,
     NextSourcePreserves, UploadPartCopyPreserves, CompletePreserves, AbortPreserves,
     ReplacePreserves, LatePreserves, ComposeStutters
  DEF Next, Caller

(***************************************************************************)
(* The theorems.                                                           *)
(***************************************************************************)
\* Client::ComposeObject: what a multipart copy puts in place is the ranges asked
\* for, in order, without a gap, each source in the one version it was asked for;
\* and success means that there is such an object.
THEOREM ComposedAsAsked == Spec => []WholeComposition
<1>1. ComposeInv => WholeComposition
  BY DEF ComposeInv, WholeInv, PhaseInv, WholeComposition
<1> QED BY <1>1, ComposeInit, ComposeNext, PTL DEF Spec

\* Client::CalculatePartCount and the part loop of ComposeObject agree: as many
\* parts as counted, and all but the last large enough for S3, although the count
\* is taken from sizes that may be those of other versions.
THEOREM CutAsCounted == Spec => []PartsAsCounted
<1>1. ComposeInv => PartsAsCounted
  <2> SUFFICES ASSUME ComposeInv, pc = "complete"
               PROVE  /\ Len(parts) = part_count
                      /\ part_count <= kMaxMultipartCount
                      /\ \A n \in 1 .. Len(parts) - 1 : LargeEnough(parts[n].number)
    BY DEF PartsAsCounted, LargeEnough
  <2>1. PICK before \in [1 .. Len(sources) + 1 -> Nat] : CountInv(before) /\ PlaceInv(before)
    BY DEF ComposeInv, Matching
  <2>2. Len(parts) = part_count
    BY <2>1 DEF CountInv, PlaceInv, counted, Copying
  <2>3. Len(parts) \in Nat /\ part_count <= kMaxMultipartCount
    BY DEF ComposeInv, ComposeTypeOK
  <2>4. \A n \in 1 .. Len(parts) - 1 : n \in 1 .. Len(parts) /\ n < Len(parts)
    BY <2>3
  <2>5. \A n \in 1 .. Len(parts) - 1 : parts[n].number = n /\ LargeEnough(n)
    BY <2>4 DEF ComposeInv, PartsInv, Copying
  <2> QED BY <2>2, <2>3, <2>5
<1> QED BY <1>1, ComposeInit, ComposeNext, PTL DEF Spec

\* The outer ComposeObject aborts the upload the inner one left: an error leaves
\* no open upload unless the request to abort it failed.
THEOREM NoUploadIsLeft == Spec => []NoUploadLeftBehind
<1>1. ComposeInv => NoUploadLeftBehind
  BY DEF ComposeInv, PhaseInv, NoUploadLeftBehind
<1> QED BY <1>1, ComposeInit, ComposeNext, PTL DEF Spec

----------------------------------------------------------------------------
(* DownloadObject: the file is never but the old one or one whole version,  *)
(* a success is a version of the time of the call, and a failure leaves the *)
(* file alone.                                                              *)

\* The assumptions of DownloadObject, and one thread.
OneDownload ==
  /\ Size \in Seq(Nat) /\ None \notin Int
  /\ \A t, u \in Threads : t = u

Versions == Download!Versions
Blocks == Seq(Nat \X Nat)

FileTypes ==
  /\ inode \in Seq(Blocks)
  /\ dir \in [Download!Names -> (1 .. Len(inode)) \cup {None}]
  /\ holed \subseteq 1 .. Len(inode)

ThreadTypes ==
  /\ object \in Versions \cup {None}
  /\ pc \in [Threads -> {"idle", "validate", "stat", "open", "get", "write"}]
  /\ etag \in [Threads -> Versions \cup {None}]
  /\ DOMAIN fout = Threads
  /\ bad \in [Threads -> BOOLEAN]
  /\ body \in [Threads -> Blocks]
  /\ pos \in [Threads -> Nat]
  /\ DOMAIN result = Threads
  /\ seen \in [Threads -> SUBSET (Versions \cup {None})]

IsVersion(file) == file = Download!OldData \/ \E v \in Versions : file = Download!Data(v)

\* Two names are never one file, and the file that the download is about is whole.
FilesInv ==
  /\ \A n, m \in Download!Names : n # m /\ dir[n] = dir[m] => dir[n] = None
  /\ dir[0] \notin holed \cup {None} => IsVersion(inode[dir[0]])

\* What t has received of version v is in its file, and the rest is to come.
Received(t, v) ==
  /\ pos[t] <= Size[v]
  /\ Len(inode[fout[t]]) = pos[t]
  /\ \A k \in 1 .. pos[t] : inode[fout[t]][k] = <<v, k>>
  /\ Len(body[t]) = Size[v] - pos[t]
  /\ \A k \in 1 .. Len(body[t]) : body[t][k] = <<v, pos[t] + k>>

CallInv(t) ==
  /\ pc[t] # "idle" => object \in seen[t]
  /\ pc[t] \in {"open", "get", "write"} => etag[t] \in Versions
  /\ pc[t] \in {"validate", "stat", "open"} => ~bad[t] /\ pos[t] = 0
  /\ pc[t] \in {"get", "write"} => fout[t] = dir[etag[t]] /\ fout[t] # None
  /\ pc[t] = "get" => ~bad[t] /\ pos[t] = 0 /\ inode[fout[t]] = <<>>
  /\ pc[t] = "write" =>
       IF bad[t] THEN fout[t] \in holed
                 ELSE \E v \in seen[t] \ {None} : Received(t, v)

\* A call that is over has closed its stream.
IdleInv(t) == pc[t] = "idle" => ~bad[t] /\ pos[t] = 0

DownloadInv ==
  FileTypes /\ ThreadTypes /\ FilesInv /\ \A t \in Threads : CallInv(t) /\ IdleInv(t)

LEMMA VersionFacts ==
  ASSUME OneDownload
  PROVE  /\ Versions = 1 .. Len(Size) /\ Len(Size) \in Nat
         /\ None \notin Versions /\ 0 \notin Versions
         /\ Download!Names = {0} \cup Versions
         /\ \A v \in Versions : v \in Nat /\ Size[v] \in Nat /\ Download!Data(v) \in Blocks
                                /\ Len(Download!Data(v)) = Size[v]
                                /\ \A k \in 1 .. Size[v] : Download!Data(v)[k] = <<v, k>>
<1>1. Versions = 1 .. Len(Size) /\ Len(Size) \in Nat
  BY LenProperties DEF OneDownload, Versions, Download!Versions
<1>2. None \notin Versions /\ 0 \notin Versions
  BY <1>1 DEF OneDownload
<1>3. Download!Names = {0} \cup Versions
  BY DEF Download!Names, Download!filename, Versions
<1>4. ASSUME NEW v \in Versions
      PROVE  /\ v \in Nat /\ Size[v] \in Nat /\ Download!Data(v) \in Blocks
             /\ Len(Download!Data(v)) = Size[v]
             /\ \A k \in 1 .. Size[v] : Download!Data(v)[k] = <<v, k>>
  <2>1. v \in Nat /\ Size[v] \in Nat
    BY <1>1, ElementOfSeq DEF OneDownload
  <2> DEFINE d == Download!Data(v)
  <2>2. DOMAIN d = 1 .. Size[v] /\ \A k \in 1 .. Size[v] : d[k] = <<v, k>>
    BY DEF Download!Data
  <2>3. d \in [1 .. Size[v] -> Nat \X Nat]
    <3>1. \A k \in 1 .. Size[v] : <<v, k>> \in Nat \X Nat
      BY <2>1
    <3> QED BY <3>1 DEF Download!Data
  <2> HIDE DEF d
  <2>4. d \in Blocks
    BY <2>1, <2>3, SeqDef DEF Blocks
  <2>5. Len(d) = Size[v]
    BY <2>1, <2>2, <2>4, LenProperties DEF Blocks
  <2> QED BY <2>1, <2>2, <2>4, <2>5 DEF d
<1> QED BY <1>1, <1>2, <1>3, <1>4

LEMMA DownloadInit ==
  ASSUME OneDownload, Download!Init
  PROVE  DownloadInv
<1>1. FileTypes /\ FilesInv
  <2>1. CASE inode = <<>> /\ dir = [n \in Download!Names |-> None]
    <3>1. inode \in Seq(Blocks) /\ holed = {}
      BY <2>1 DEF Download!Init
    <3>2. dir \in [Download!Names -> (1 .. Len(inode)) \cup {None}]
      BY <2>1
    <3>3. \A n \in Download!Names : dir[n] = None
      BY <2>1
    <3>4. dir[0] = None
      BY <3>3, VersionFacts
    <3> QED BY <3>1, <3>2, <3>3, <3>4 DEF FileTypes, FilesInv
  <2>2. CASE inode = <<Download!OldData>>
             /\ dir = [n \in Download!Names |-> IF n = Download!filename THEN 1 ELSE None]
    <3>1. Download!OldData \in Blocks
      BY DEF Download!OldData, Blocks
    <3> DEFINE old == Download!OldData
    <3>2. inode = <<old>>
      BY <2>2
    <3> HIDE DEF old
    <3>3. old \in Blocks
      BY <3>1 DEF old
    <3>4. inode \in Seq(Blocks) /\ Len(inode) = 1 /\ inode[1] = old /\ holed = {}
      BY <3>2, <3>3 DEF Download!Init
    <3>5. dir \in [Download!Names -> (1 .. Len(inode)) \cup {None}]
      BY <2>2, <3>4
    <3>6. \A n \in Download!Names : dir[n] = IF n = 0 THEN 1 ELSE None
      BY <2>2 DEF Download!filename
    <3>7. dir[0] = 1
      BY <3>6, VersionFacts
    <3>8. IsVersion(inode[dir[0]])
      BY <3>4, <3>7 DEF IsVersion, old
    <3>9. \A n, m \in Download!Names : n # m /\ dir[n] = dir[m] => dir[n] = None
      BY <3>6 DEF OneDownload
    <3> QED BY <3>4, <3>5, <3>8, <3>9 DEF FileTypes, FilesInv
  <2> QED BY <2>1, <2>2 DEF Download!Init
<1>2. ThreadTypes
  <2>1. <<>> \in Blocks
    BY DEF Blocks
  <2> QED BY <2>1 DEF Download!Init, ThreadTypes, Versions
<1>3. \A t \in Threads : CallInv(t) /\ IdleInv(t)
  BY DEF Download!Init, CallInv, IdleInv
<1> QED BY <1>1, <1>2, <1>3 DEF DownloadInv

\* Steps that write no file and move none.
LEMMA FilesKept ==
  ASSUME FileTypes, FilesInv, UNCHANGED <<dir, inode, holed>>
  PROVE  FileTypes' /\ FilesInv'
BY DEF FileTypes, FilesInv, IsVersion

\* The end of a call.
LEMMA Returns ==
  ASSUME ThreadTypes, NEW t \in Threads, NEW r, Download!Return(t, r), UNCHANGED <<object, seen>>
  PROVE  /\ ThreadTypes'
         /\ CallInv(t)' /\ IdleInv(t)'
<1>1. /\ pc' = [pc EXCEPT ![t] = "idle"] /\ etag' = [etag EXCEPT ![t] = None]
      /\ DOMAIN fout' = DOMAIN fout /\ DOMAIN result' = DOMAIN result
      /\ bad' = [bad EXCEPT ![t] = FALSE]
      /\ body' = [body EXCEPT ![t] = <<>>] /\ pos' = [pos EXCEPT ![t] = 0]
  BY DEF Download!Return, Download!Goto
<1>2. <<>> \in Blocks
  BY DEF Blocks
<1>3. ThreadTypes'
  BY <1>1, <1>2 DEF ThreadTypes
<1>4. pc'[t] = "idle" /\ ~bad'[t] /\ pos'[t] = 0
  BY <1>1 DEF ThreadTypes
<1> QED BY <1>3, <1>4 DEF CallInv, IdleInv

LEMMA CallPreserves ==
  ASSUME OneDownload, DownloadInv, NEW t \in Threads, Download!Call(t)
  PROVE  DownloadInv'
<1>1. /\ pc[t] = "idle"
      /\ DOMAIN result' = DOMAIN result
      /\ seen' = [seen EXCEPT ![t] = {object}]
      /\ pc' = [pc EXCEPT ![t] = "validate"]
      /\ UNCHANGED <<object, dir, inode, holed, etag, fout, bad, body, pos>>
  BY DEF Download!Call, Download!Goto, Download!serverVars, Download!fileVars
<1>2. ThreadTypes'
  BY <1>1 DEF DownloadInv, ThreadTypes
<1>3. FileTypes' /\ FilesInv'
  BY <1>1, FilesKept DEF DownloadInv
<1>4. CallInv(t)' /\ IdleInv(t)'
  <2>1. pc'[t] = "validate" /\ object \in seen'[t] /\ ~bad[t] /\ pos[t] = 0
    BY <1>1 DEF DownloadInv, ThreadTypes, IdleInv
  <2> QED BY <1>1, <2>1 DEF CallInv, IdleInv
<1> QED BY <1>2, <1>3, <1>4 DEF DownloadInv, OneDownload

LEMMA ValidatePreserves ==
  ASSUME OneDownload, DownloadInv, NEW t \in Threads, Download!Validate(t)
  PROVE  DownloadInv'
<1>1. pc[t] = "validate" /\ UNCHANGED <<object, dir, inode, holed, seen>>
  BY DEF Download!Validate, Download!serverVars, Download!fileVars
<1>2. FileTypes' /\ FilesInv'
  BY <1>1, FilesKept DEF DownloadInv
<1>3. CASE Download!Return(t, "error")
  BY <1>1, <1>2, <1>3, Returns DEF DownloadInv, OneDownload
<1>4. CASE Download!Goto(t, "stat") /\ UNCHANGED <<result, etag, fout, bad, body, pos>>
  <2>1. pc' = [pc EXCEPT ![t] = "stat"]
    BY <1>4 DEF Download!Goto
  <2>2. ThreadTypes'
    BY <1>1, <1>4, <2>1 DEF DownloadInv, ThreadTypes
  <2>3. CallInv(t)' /\ IdleInv(t)'
    <3>1. pc'[t] = "stat" /\ object \in seen[t] /\ ~bad[t] /\ pos[t] = 0
      BY <1>1, <2>1 DEF DownloadInv, ThreadTypes, CallInv
    <3> QED BY <1>1, <1>4, <3>1 DEF CallInv, IdleInv
  <2> QED BY <1>2, <2>2, <2>3 DEF DownloadInv, OneDownload
<1> QED BY <1>3, <1>4 DEF Download!Validate

LEMMA StatObjectPreserves ==
  ASSUME OneDownload, DownloadInv, NEW t \in Threads, Download!StatObject(t)
  PROVE  DownloadInv'
<1>1. /\ pc[t] = "stat" /\ object # None
      /\ etag' = [etag EXCEPT ![t] = object] /\ pc' = [pc EXCEPT ![t] = "open"]
      /\ UNCHANGED <<object, dir, inode, holed, fout, bad, body, pos, result, seen>>
  BY DEF Download!StatObject, Download!Goto, Download!serverVars, Download!fileVars
<1>2. ThreadTypes'
  BY <1>1 DEF DownloadInv, ThreadTypes
<1>3. FileTypes' /\ FilesInv'
  BY <1>1, FilesKept DEF DownloadInv
<1>4. CallInv(t)' /\ IdleInv(t)'
  <2>1. pc'[t] = "open" /\ etag'[t] = object /\ object \in Versions /\ object \in seen[t]
        /\ ~bad[t] /\ pos[t] = 0
    BY <1>1 DEF DownloadInv, ThreadTypes, CallInv
  <2> QED BY <1>1, <2>1 DEF CallInv, IdleInv
<1> QED BY <1>2, <1>3, <1>4 DEF DownloadInv, OneDownload

\* Making or emptying the temporary file leaves the other one alone.
LEMMA OpenPreserves ==
  ASSUME OneDownload, DownloadInv, NEW t \in Threads, Download!Open(t)
  PROVE  DownloadInv'
<1> DEFINE name == etag[t]
<1>1. /\ pc[t] = "open"
      /\ IF dir[name] = None THEN Download!Create(t, name) ELSE Download!Truncate(t, name)
      /\ pc' = [pc EXCEPT ![t] = "get"]
      /\ UNCHANGED <<object, etag, bad, body, pos, result, seen>>
  BY DEF Download!Open, Download!Goto, Download!temp_filename, Download!serverVars
<1>2. /\ name \in Versions /\ name \in Download!Names /\ name # 0 /\ 0 \in Download!Names
      /\ ~bad[t] /\ pos[t] = 0 /\ object \in seen[t] /\ FileTypes /\ FilesInv /\ ThreadTypes
  <2>1. name \in Versions /\ ~bad[t] /\ pos[t] = 0 /\ object \in seen[t]
    BY <1>1 DEF DownloadInv, CallInv
  <2> QED BY <2>1, VersionFacts DEF DownloadInv
<1> HIDE DEF name
<1>3. Len(inode) \in Nat /\ inode \in Seq(Blocks) /\ <<>> \in Blocks
      /\ dir \in [Download!Names -> (1 .. Len(inode)) \cup {None}] /\ holed \subseteq 1 .. Len(inode)
  BY <1>2 DEF FileTypes, Blocks
<1>4. pc'[t] = "get" /\ (\A u \in Threads : u = t)
      /\ pc' \in [Threads -> {"idle", "validate", "stat", "open", "get", "write"}]
  BY <1>1, <1>2 DEF ThreadTypes, OneDownload
<1>5. CASE dir[name] = None
  <2>1. /\ inode' = Append(inode, <<>>) /\ dir' = [dir EXCEPT ![name] = Len(inode) + 1]
        /\ fout' = [fout EXCEPT ![t] = Len(inode) + 1] /\ holed' = holed
    BY <1>1, <1>5 DEF Download!Create
  <2>2. /\ inode' \in Seq(Blocks) /\ Len(inode') = Len(inode) + 1 /\ inode'[Len(inode) + 1] = <<>>
        /\ \A k \in 1 .. Len(inode) : inode'[k] = inode[k]
    BY <1>3, <2>1, AppendProperties
  <2>3. \A k \in 1 .. Len(inode) : k \in 1 .. Len(inode') /\ k # Len(inode) + 1
    BY <1>3, <2>2
  <2>4. Len(inode) + 1 \in 1 .. Len(inode') /\ Len(inode) + 1 # None
    BY <1>3, <2>2 DEF OneDownload
  <2>5. dir'[name] = Len(inode) + 1 /\ \A n \in Download!Names : n # name => dir'[n] = dir[n]
    BY <1>2, <1>3, <2>1
  <2>6. FileTypes'
    <3>1. dir' \in [Download!Names -> (1 .. Len(inode')) \cup {None}]
      BY <1>3, <2>1, <2>3, <2>4
    <3>2. holed' \subseteq 1 .. Len(inode')
      BY <1>3, <2>1, <2>3
    <3> QED BY <2>2, <3>1, <3>2 DEF FileTypes
  <2>7. FilesInv'
    <3>1. \A n \in Download!Names : dir[n] # Len(inode) + 1
      BY <1>3, <2>3, <2>4
    <3>2. \A n, m \in Download!Names : n # m /\ dir'[n] = dir'[m] => dir'[n] = None
      BY <1>2, <2>5, <3>1 DEF FilesInv
    <3>3. dir'[0] \notin holed' \cup {None} => IsVersion(inode'[dir'[0]])
      <4> SUFFICES ASSUME dir'[0] \notin holed' \cup {None} PROVE IsVersion(inode'[dir'[0]])
        OBVIOUS
      <4>1. dir'[0] = dir[0] /\ dir[0] \in 1 .. Len(inode)
        BY <1>2, <1>3, <2>5
      <4>2. IsVersion(inode[dir[0]])
        BY <1>2, <2>1, <4>1 DEF FilesInv
      <4>3. inode'[dir[0]] = inode[dir[0]]
        BY <2>2, <4>1
      <4> QED BY <4>1, <4>2, <4>3
    <3> QED BY <3>2, <3>3 DEF FilesInv, IsVersion
  <2>8. ThreadTypes'
    BY <1>1, <1>2, <1>4, <2>1 DEF ThreadTypes
  <2>9. fout'[t] = Len(inode) + 1
    BY <1>2, <2>1 DEF ThreadTypes
  <2>10. CallInv(t)' /\ IdleInv(t)'
    BY <1>1, <1>2, <1>4, <2>2, <2>4, <2>5, <2>9 DEF CallInv, IdleInv, name
  <2> QED BY <1>4, <2>6, <2>7, <2>8, <2>10 DEF DownloadInv
<1>6. CASE dir[name] # None
  <2> DEFINE f == dir[name]
  <2>1. /\ inode' = [inode EXCEPT ![f] = <<>>] /\ holed' = holed \ {f}
        /\ fout' = [fout EXCEPT ![t] = f] /\ dir' = dir
    BY <1>1, <1>6 DEF Download!Truncate
  <2>2. f \in 1 .. Len(inode)
    BY <1>2, <1>3, <1>6
  <2>3. dir[0] # f
    BY <1>2, <1>6 DEF FilesInv
  <2> HIDE DEF f
  <2>4. /\ inode' \in Seq(Blocks) /\ Len(inode') = Len(inode) /\ inode'[f] = <<>>
        /\ \A k \in 1 .. Len(inode) : k # f => inode'[k] = inode[k]
    BY <1>3, <2>1, <2>2, ExceptSeq
  <2>5. FileTypes'
    BY <1>3, <2>1, <2>4 DEF FileTypes
  <2>6. FilesInv'
    <3>1. dir'[0] \notin holed' \cup {None} => IsVersion(inode'[dir'[0]])
      BY <1>2, <1>3, <2>1, <2>3, <2>4 DEF FilesInv
    <3> QED BY <1>2, <2>1, <3>1 DEF FilesInv, IsVersion
  <2>7. ThreadTypes'
    BY <1>1, <1>2, <1>4, <2>1 DEF ThreadTypes
  <2>8. fout'[t] = f /\ dir'[name] = f /\ f # None
    BY <1>2, <1>6, <2>1 DEF ThreadTypes, f
  <2>9. CallInv(t)' /\ IdleInv(t)'
    BY <1>1, <1>2, <1>4, <2>4, <2>8 DEF CallInv, IdleInv, name
  <2> QED BY <1>4, <2>5, <2>6, <2>7, <2>9 DEF DownloadInv
<1> QED BY <1>5, <1>6

LEMMA GetPreserves ==
  ASSUME OneDownload, DownloadInv, NEW t \in Threads, Download!Get(t)
  PROVE  DownloadInv'
<1>1. /\ pc[t] = "get" /\ object # None
      /\ body' = [body EXCEPT ![t] = Download!Data(object)]
      /\ pc' = [pc EXCEPT ![t] = "write"]
      /\ UNCHANGED <<object, dir, inode, holed, etag, fout, bad, pos, result, seen>>
  BY DEF Download!Get, Download!Goto, Download!serverVars, Download!fileVars
<1>2. FileTypes' /\ FilesInv'
  BY <1>1, FilesKept DEF DownloadInv
<1>3. /\ object \in Versions /\ object \in seen[t] /\ etag[t] \in Versions
      /\ ~bad[t] /\ pos[t] = 0 /\ inode[fout[t]] = <<>> /\ fout[t] = dir[etag[t]] /\ fout[t] # None
  BY <1>1 DEF DownloadInv, ThreadTypes, CallInv
<1>4. /\ Download!Data(object) \in Blocks /\ Len(Download!Data(object)) = Size[object]
      /\ Size[object] \in Nat
      /\ \A k \in 1 .. Size[object] : Download!Data(object)[k] = <<object, k>>
  BY <1>3, VersionFacts
<1> DEFINE data == Download!Data(object)
<1>5. data \in Blocks /\ body' = [body EXCEPT ![t] = data] /\ Len(data) = Size[object]
      /\ \A k \in 1 .. Size[object] : data[k] = <<object, k>>
  BY <1>1, <1>4
<1> HIDE DEF data
<1>6. ThreadTypes'
  BY <1>1, <1>5 DEF DownloadInv, ThreadTypes
<1>7. body'[t] = data /\ pc'[t] = "write"
  BY <1>1, <1>5 DEF DownloadInv, ThreadTypes
<1>8. Received(t, object)'
  <2>1. Len(<<>>) = 0
    OBVIOUS
  <2>2. Len(inode'[fout'[t]]) = 0 /\ pos'[t] = 0
    BY <1>1, <1>3, <2>1
  <2>3. \A k \in 1 .. Len(body'[t]) : body'[t][k] = <<object, pos'[t] + k>>
    BY <1>4, <1>5, <1>7, <2>2
  <2> QED BY <1>1, <1>4, <1>5, <1>7, <2>2, <2>3 DEF Received
<1>9. CallInv(t)' /\ IdleInv(t)'
  <2>1. object' = object /\ object \in seen'[t] \ {None} /\ ~bad'[t]
    BY <1>1, <1>3
  <2>2. \E v \in seen'[t] \ {None} : Received(t, v)'
    BY <1>8, <2>1, <1>1 DEF Received
  <2> QED BY <1>1, <1>3, <1>7, <2>1, <2>2 DEF CallInv, IdleInv
<1> QED BY <1>2, <1>6, <1>9 DEF DownloadInv, OneDownload

\* A piece written behind the last one makes the file longer by that piece.
LEMMA WrittenBehind ==
  ASSUME NEW file \in Blocks, NEW p \in Nat \X Nat
  PROVE  /\ Download!Written(file, Len(file), p) \in Blocks
         /\ Len(Download!Written(file, Len(file), p)) = Len(file) + 1
         /\ Download!Written(file, Len(file), p)[Len(file) + 1] = p
         /\ \A k \in 1 .. Len(file) : Download!Written(file, Len(file), p)[k] = file[k]
<1> DEFINE w == Download!Written(file, Len(file), p)
<1>1. Len(file) \in Nat /\ \A k \in 1 .. Len(file) : file[k] \in Nat \X Nat
  BY ElementOfSeq, LenProperties DEF Blocks
<1>2. w = [k \in 1 .. (Len(file) + 1) |->
             IF k = Len(file) + 1 THEN p ELSE IF k <= Len(file) THEN file[k] ELSE Download!Hole]
  BY <1>1 DEF Download!Written
<1> HIDE DEF w
<1>3. w \in [1 .. (Len(file) + 1) -> Nat \X Nat]
  <2>1. ASSUME NEW k \in 1 .. (Len(file) + 1), k # Len(file) + 1 PROVE k \in 1 .. Len(file)
    BY <1>1, <2>1
  <2>2. \A k \in 1 .. (Len(file) + 1) :
           (IF k = Len(file) + 1 THEN p ELSE IF k <= Len(file) THEN file[k] ELSE Download!Hole)
             \in Nat \X Nat
    <3> SUFFICES ASSUME NEW k \in 1 .. (Len(file) + 1)
                 PROVE (IF k = Len(file) + 1 THEN p
                          ELSE IF k <= Len(file) THEN file[k] ELSE Download!Hole) \in Nat \X Nat
      OBVIOUS
    <3>1. CASE k = Len(file) + 1
      BY <3>1
    <3>2. CASE k # Len(file) + 1
      <4>1. k \in 1 .. Len(file) /\ k <= Len(file)
        BY <1>1, <3>2
      <4> QED BY <1>1, <3>2, <4>1
    <3> QED BY <3>1, <3>2
  <2> QED BY <1>2, <2>2
<1>4. Len(file) + 1 \in Nat /\ w \in Blocks
  <2>1. Len(file) + 1 \in Nat
    BY <1>1
  <2> QED BY <1>3, <2>1, SeqDef DEF Blocks
<1>5. Len(w) = Len(file) + 1
  BY <1>3, <1>4, LenProperties DEF Blocks
<1>6. w[Len(file) + 1] = p
  BY <1>1, <1>2
<1>7. ASSUME NEW k \in 1 .. Len(file) PROVE w[k] = file[k]
  <2>1. k \in 1 .. (Len(file) + 1) /\ k # Len(file) + 1 /\ k <= Len(file)
    BY <1>1
  <2> QED BY <1>2, <2>1
<1> QED BY <1>4, <1>5, <1>6, <1>7 DEF w

\* The next piece of version v reaches the end of the file.
LEMMA ReceivesNext ==
  ASSUME OneDownload, FileTypes, ThreadTypes, NEW t \in Threads, NEW v \in Versions,
         fout[t] \in 1 .. Len(inode), body[t] # <<>>, Received(t, v),
         body' = [body EXCEPT ![t] = Tail(@)],
         inode' = [inode EXCEPT ![fout[t]] = Download!Written(@, pos[t], Head(body[t]))],
         pos' = [pos EXCEPT ![t] = @ + 1], fout' = fout
  PROVE  /\ Received(t, v)'
         /\ inode' \in Seq(Blocks) /\ Len(inode') = Len(inode)
         /\ body' \in [Threads -> Blocks] /\ pos' \in [Threads -> Nat]
         /\ \A k \in 1 .. Len(inode) : k # fout[t] => inode'[k] = inode[k]
<1> DEFINE f == fout[t]  file == inode[f]  p == Head(body[t])  rest == Tail(body[t])
           w == Download!Written(file, Len(file), p)
<1>1. /\ inode \in Seq(Blocks) /\ f \in 1 .. Len(inode) /\ file \in Blocks
      /\ body[t] \in Blocks /\ pos[t] \in Nat /\ pos[t] = Len(file)
      /\ Size[v] \in Nat /\ v \in Nat
  BY VersionFacts, ElementOfSeq DEF FileTypes, ThreadTypes, Received
<1>2. /\ p \in Nat \X Nat /\ rest \in Blocks /\ Len(rest) = Len(body[t]) - 1 /\ Len(body[t]) \in Nat
      /\ Len(body[t]) >= 1 /\ p = body[t][1]
      /\ \A k \in 1 .. Len(rest) : rest[k] = body[t][k + 1]
  <2>1. p \in Nat \X Nat /\ rest \in Blocks /\ Len(rest) = Len(body[t]) - 1
        /\ \A k \in 1 .. Len(rest) : rest[k] = body[t][k + 1]
    BY <1>1, HeadTailProperties DEF Blocks
  <2>2. Len(body[t]) \in Nat /\ Len(body[t]) >= 1 /\ p = body[t][1]
    BY <1>1, EmptySeq, LenProperties DEF Blocks
  <2> QED BY <2>1, <2>2
<1>3. body' = [body EXCEPT ![t] = rest] /\ inode' = [inode EXCEPT ![f] = w]
  BY <1>1 
<1>4. w \in Blocks /\ Len(w) = Len(file) + 1 /\ w[Len(file) + 1] = p
      /\ \A k \in 1 .. Len(file) : w[k] = file[k]
  BY <1>1, <1>2, WrittenBehind
<1> HIDE DEF f, file, p, rest, w
<1>5. /\ inode' \in Seq(Blocks) /\ Len(inode') = Len(inode) /\ inode'[f] = w
      /\ \A k \in 1 .. Len(inode) : k # f => inode'[k] = inode[k]
  BY <1>1, <1>3, <1>4, ExceptSeq
<1>6. /\ body' \in [Threads -> Blocks] /\ body'[t] = rest
      /\ pos' \in [Threads -> Nat] /\ pos'[t] = pos[t] + 1 /\ fout'[t] = f
  <2>1. body' \in [Threads -> Blocks] /\ body'[t] = rest
    <3>1. rest \in Blocks /\ body' = [body EXCEPT ![t] = rest] /\ body \in [Threads -> Blocks]
      BY <1>2, <1>3 DEF ThreadTypes
    <3> QED BY <3>1
  <2>2. pos[t] + 1 \in Nat
    BY <1>1
  <2>3. pos' \in [Threads -> Nat] /\ pos'[t] = pos[t] + 1
    BY <2>2 DEF ThreadTypes
  <2> QED BY <2>1, <2>3 DEF f
<1>7. /\ pos[t] <= Size[v] /\ Len(body[t]) = Size[v] - pos[t]
      /\ (\A k \in 1 .. pos[t] : file[k] = <<v, k>>)
      /\ (\A k \in 1 .. Len(body[t]) : body[t][k] = <<v, pos[t] + k>>)
  BY DEF Received, file, f
<1>8. pos[t] + 1 <= Size[v] /\ Len(rest) = Size[v] - (pos[t] + 1)
  <2>1. \A at, all, left, l \in Nat :
           left >= 1 /\ left = all - at /\ l = left - 1 => at + 1 <= all /\ l = all - (at + 1)
    OBVIOUS
  <2>2. Len(rest) \in Nat
    BY <1>2, LenProperties DEF Blocks
  <2>3. /\ pos[t] \in Nat /\ Size[v] \in Nat /\ Len(body[t]) \in Nat
        /\ Len(body[t]) >= 1 /\ Len(body[t]) = Size[v] - pos[t] /\ Len(rest) = Len(body[t]) - 1
    BY <1>1, <1>2, <1>7
  <2> QED BY <2>1, <2>2, <2>3
<1>9. p = <<v, pos[t] + 1>>
  <2>1. 1 \in 1 .. Len(body[t])
    BY <1>2
  <2>2. body[t][1] = <<v, pos[t] + 1>>
    BY <1>7, <2>1
  <2> QED BY <1>2, <2>2
<1>10. ASSUME NEW k \in 1 .. (pos[t] + 1) PROVE w[k] = <<v, k>>
  <2>1. CASE k = pos[t] + 1
    BY <1>1, <1>4, <1>9, <2>1
  <2>2. CASE k # pos[t] + 1
    <3>1. k \in 1 .. pos[t]
      BY <1>1, <2>2
    <3> QED BY <1>1, <1>4, <1>7, <3>1
  <2> QED BY <2>1, <2>2
<1>11. ASSUME NEW k \in 1 .. Len(rest) PROVE rest[k] = <<v, (pos[t] + 1) + k>>
  <2>1. k + 1 \in 1 .. Len(body[t]) /\ pos[t] + (k + 1) = (pos[t] + 1) + k
    BY <1>1, <1>2
  <2>2. body[t][k + 1] = <<v, pos[t] + (k + 1)>>
    BY <1>7, <2>1
  <2> QED BY <1>2, <2>1, <2>2
<1>12. Received(t, v)'
  BY <1>1, <1>4, <1>5, <1>6, <1>8, <1>10, <1>11 DEF Received
<1> QED BY <1>5, <1>6, <1>12 DEF f

LEMMA ChunkPreserves ==
  ASSUME OneDownload, DownloadInv, NEW t \in Threads, Download!Chunk(t)
  PROVE  DownloadInv'
<1>1. /\ pc[t] = "write" /\ body[t] # <<>>
      /\ body' = [body EXCEPT ![t] = Tail(@)]
      /\ UNCHANGED <<object, dir, pc, etag, fout, result, seen>>
  BY DEF Download!Chunk, Download!serverVars
<1>2. /\ FileTypes /\ ThreadTypes /\ FilesInv /\ CallInv(t) /\ object \in seen[t] /\ etag[t] \in Versions
      /\ etag[t] # 0 /\ 0 \in Download!Names /\ etag[t] \in Download!Names
      /\ fout[t] = dir[etag[t]] /\ fout[t] # None
  <2>1. etag[t] \in Versions /\ fout[t] = dir[etag[t]] /\ fout[t] # None /\ object \in seen[t]
    BY <1>1 DEF DownloadInv, CallInv
  <2> QED BY <2>1, VersionFacts DEF DownloadInv
<1>3. fout[t] \in 1 .. Len(inode) /\ fout[t] # dir[0] /\ dir[0] \in (1 .. Len(inode)) \cup {None}
  BY <1>2 DEF FileTypes, FilesInv
<1>4. CASE /\ ~bad[t]
           /\ inode' = [inode EXCEPT ![fout[t]] = Download!Written(@, pos[t], Head(body[t]))]
           /\ pos' = [pos EXCEPT ![t] = @ + 1]
           /\ UNCHANGED <<bad, holed>>
  <2>1. PICK v \in seen[t] \ {None} : Received(t, v)
    BY <1>1, <1>2, <1>4 DEF CallInv
  <2>2. v \in Versions
    BY <1>2, <2>1 DEF ThreadTypes
  <2>3. /\ Received(t, v)'
        /\ inode' \in Seq(Blocks) /\ Len(inode') = Len(inode)
        /\ body' \in [Threads -> Blocks] /\ pos' \in [Threads -> Nat]
        /\ \A k \in 1 .. Len(inode) : k # fout[t] => inode'[k] = inode[k]
    BY <1>1, <1>2, <1>3, <1>4, <2>1, <2>2, ReceivesNext
  <2>4. FileTypes'
    BY <1>1, <1>2, <1>4, <2>3 DEF FileTypes
  <2>5. FilesInv'
    BY <1>1, <1>2, <1>3, <1>4, <2>3 DEF FilesInv, IsVersion
  <2>6. ThreadTypes'
    BY <1>1, <1>2, <1>4, <2>3 DEF ThreadTypes
  <2>7. CallInv(t)' /\ IdleInv(t)'
    BY <1>1, <1>2, <1>4, <2>1, <2>3 DEF CallInv, IdleInv
  <2> QED BY <2>4, <2>5, <2>6, <2>7 DEF DownloadInv, OneDownload
<1>5. CASE /\ bad' = [bad EXCEPT ![t] = TRUE]
           /\ holed' = holed \cup {fout[t]}
           /\ UNCHANGED <<inode, pos>>
  <2>1. Tail(body[t]) \in Blocks
    BY <1>1, <1>2, HeadTailProperties DEF ThreadTypes, Blocks
  <2>2. ThreadTypes'
    BY <1>1, <1>2, <1>5, <2>1 DEF ThreadTypes
  <2>3. FileTypes' /\ FilesInv'
    BY <1>1, <1>2, <1>3, <1>5 DEF FileTypes, FilesInv, IsVersion
  <2>4. CallInv(t)' /\ IdleInv(t)'
    <3>1. bad'[t] /\ fout'[t] \in holed'
      BY <1>1, <1>2, <1>5 DEF ThreadTypes
    <3> QED BY <1>1, <1>2, <3>1 DEF CallInv, IdleInv
  <2> QED BY <2>2, <2>3, <2>4 DEF DownloadInv, OneDownload
<1> QED BY <1>4, <1>5 DEF Download!Chunk

LEMMA DownloadFails ==
  ASSUME OneDownload, DownloadInv, NEW t \in Threads,
         Download!Fail(t) \/ Download!RenameThrows(t)
  PROVE  DownloadInv'
<1>1. UNCHANGED <<object, dir, inode, holed, seen>>
  BY DEF Download!Fail, Download!Failing, Download!RenameThrows, Download!serverVars,
     Download!fileVars
<1>2. \E r \in {"error", "threw"} : Download!Return(t, r)
  BY DEF Download!Fail, Download!Failing, Download!RenameThrows
<1>3. ThreadTypes' /\ CallInv(t)' /\ IdleInv(t)'
  BY <1>1, <1>2, Returns DEF DownloadInv
<1> QED BY <1>1, <1>3, FilesKept DEF DownloadInv, OneDownload

\* The whole of version v is in the file.
LEMMA AllReceived ==
  ASSUME OneDownload, FileTypes, NEW t \in Threads, NEW v \in Versions,
         fout[t] \in 1 .. Len(inode), body[t] = <<>>, pos[t] \in Nat, Received(t, v)
  PROVE  inode[fout[t]] = Download!Data(v)
<1> DEFINE file == inode[fout[t]]  data == Download!Data(v)
<1>1. file \in Blocks /\ data \in Blocks /\ Len(data) = Size[v] /\ Size[v] \in Nat
      /\ \A k \in 1 .. Size[v] : data[k] = <<v, k>>
  BY VersionFacts, ElementOfSeq DEF FileTypes
<1>2. Len(body[t]) = 0
  BY EmptySeq
<1>3. Len(file) = Size[v] /\ \A k \in 1 .. Len(file) : file[k] = <<v, k>>
  BY <1>1, <1>2 DEF Received
<1> HIDE DEF file, data
<1>4. Len(file) = Len(data) /\ \A k \in 1 .. Len(file) : file[k] = data[k]
  BY <1>1, <1>3
<1>5. file = data
  BY <1>1, <1>4, SeqEqual DEF Blocks
<1> QED BY <1>5 DEF file, data

LEMMA RenamePreserves ==
  ASSUME OneDownload, DownloadInv, NEW t \in Threads, Download!Rename(t)
  PROVE  /\ DownloadInv'
         /\ ~bad[t] => \E v \in seen[t] \ {None} : inode'[dir'[0]] = Download!Data(v)
<1> DEFINE tmp == etag[t]
<1>1. /\ pc[t] = "write" /\ body[t] = <<>> /\ dir[tmp] # None
      /\ dir' = [dir EXCEPT ![0] = dir[tmp], ![tmp] = None]
      /\ Download!Return(t, "success")
      /\ UNCHANGED <<object, inode, holed, seen>>
  BY DEF Download!Rename, Download!temp_filename, Download!filename, Download!serverVars
<1>2. /\ FileTypes /\ ThreadTypes /\ FilesInv /\ CallInv(t) /\ tmp \in Versions
      /\ tmp # 0 /\ 0 \in Download!Names /\ tmp \in Download!Names
      /\ fout[t] = dir[tmp]
  <2>1. tmp \in Versions /\ fout[t] = dir[tmp]
    BY <1>1 DEF DownloadInv, CallInv
  <2> QED BY <2>1, VersionFacts DEF DownloadInv
<1> HIDE DEF tmp
<1>3. fout[t] \in 1 .. Len(inode)
  BY <1>1, <1>2 DEF FileTypes
<1>4. dir'[0] = fout[t] /\ dir'[tmp] = None
      /\ \A n \in Download!Names : n # 0 /\ n # tmp => dir'[n] = dir[n]
  BY <1>1, <1>2 DEF FileTypes
<1>5. ThreadTypes' /\ CallInv(t)' /\ IdleInv(t)'
  BY <1>1, <1>2, Returns
<1>6. FileTypes'
  BY <1>1, <1>2, <1>3 DEF FileTypes
<1>7. ~bad[t] => \E v \in seen[t] \ {None} : inode[fout[t]] = Download!Data(v)
  <2> SUFFICES ASSUME ~bad[t] PROVE \E v \in seen[t] \ {None} : inode[fout[t]] = Download!Data(v)
    OBVIOUS
  <2>1. PICK v \in seen[t] \ {None} : Received(t, v)
    BY <1>1, <1>2 DEF CallInv
  <2>2. v \in Versions /\ pos[t] \in Nat
    BY <1>2, <2>1 DEF ThreadTypes
  <2> QED BY <1>1, <1>2, <1>3, <2>1, <2>2, AllReceived
<1>8. FilesInv'
  <2>1. \A n, m \in Download!Names : n # m /\ dir'[n] = dir'[m] => dir'[n] = None
    <3> SUFFICES ASSUME NEW n \in Download!Names, NEW m \in Download!Names,
                        n # m, dir'[n] = dir'[m], dir'[n] # None
                 PROVE FALSE
      OBVIOUS
    <3>1. n # tmp /\ m # tmp
      BY <1>4
    <3>2. CASE n = 0
      <4>1. dir[m] = dir[tmp]
        BY <1>2, <1>4, <3>1, <3>2
      <4> QED BY <1>1, <1>2, <3>1, <4>1 DEF FilesInv
    <3>3. CASE m = 0
      <4>1. dir[n] = dir[tmp]
        BY <1>2, <1>4, <3>1, <3>3
      <4> QED BY <1>1, <1>2, <3>1, <4>1 DEF FilesInv
    <3>4. CASE n # 0 /\ m # 0
      BY <1>2, <1>4, <3>1, <3>4 DEF FilesInv
    <3> QED BY <3>2, <3>3, <3>4
  <2>2. dir'[0] \notin holed' \cup {None} => IsVersion(inode'[dir'[0]])
    <3> SUFFICES ASSUME dir'[0] \notin holed' \cup {None} PROVE IsVersion(inode'[dir'[0]])
      OBVIOUS
    <3>1. ~bad[t]
      BY <1>1, <1>2, <1>4 DEF CallInv
    <3>2. PICK v \in seen[t] \ {None} : inode[fout[t]] = Download!Data(v)
      BY <1>7, <3>1
    <3>3. v \in Versions
      BY <1>2, <3>2 DEF ThreadTypes
    <3> QED BY <1>1, <1>4, <3>2, <3>3 DEF IsVersion
  <2> QED BY <2>1, <2>2 DEF FilesInv, IsVersion
<1> QED BY <1>1, <1>4, <1>5, <1>6, <1>7, <1>8 DEF DownloadInv, OneDownload

\* Another client's version joins those of every call that runs.
LEMMA ChangePreserves ==
  ASSUME OneDownload, DownloadInv, NEW v \in Versions \cup {None}, Download!Change(v)
  PROVE  DownloadInv'
<1>1. /\ object' = v /\ seen' = [t \in Threads |-> seen[t] \cup {v}]
      /\ UNCHANGED <<dir, inode, holed, pc, etag, fout, bad, body, pos, result>>
  BY DEF Download!Change, Download!fileVars
<1>2. FileTypes' /\ FilesInv'
  BY <1>1, FilesKept DEF DownloadInv
<1>3. ThreadTypes'
  BY <1>1 DEF DownloadInv, ThreadTypes
<1>4. ASSUME NEW t \in Threads PROVE CallInv(t)' /\ IdleInv(t)'
  <2>1. CallInv(t) /\ IdleInv(t) /\ seen'[t] = seen[t] \cup {v} /\ object' \in seen'[t]
    BY <1>1 DEF DownloadInv
  <2>2. \A w : Received(t, w) => Received(t, w)'
    BY <1>1 DEF Received
  <2>3. CallInv(t)'
    BY <1>1, <2>1, <2>2 DEF CallInv
  <2> QED BY <1>1, <2>1, <2>3 DEF IdleInv
<1> QED BY <1>2, <1>3, <1>4 DEF DownloadInv

LEMMA DownloadStutters ==
  ASSUME DownloadInv, UNCHANGED Download!vars
  PROVE  DownloadInv'
<1>1. UNCHANGED <<object, dir, inode, holed, pc, etag, fout, bad, body, pos, result, seen>>
  BY DEF Download!vars, Download!serverVars, Download!fileVars, Download!threadVars
<1>2. FileTypes' /\ FilesInv'
  BY <1>1, FilesKept DEF DownloadInv
<1>3. ThreadTypes'
  BY <1>1 DEF DownloadInv, ThreadTypes
<1>4. ASSUME NEW t \in Threads PROVE CallInv(t)' /\ IdleInv(t)'
  <2>1. \A w : Received(t, w) => Received(t, w)'
    BY <1>1 DEF Received
  <2> QED BY <1>1, <2>1 DEF DownloadInv, CallInv, IdleInv
<1> QED BY <1>2, <1>3, <1>4 DEF DownloadInv

LEMMA DownloadNext ==
  ASSUME OneDownload, DownloadInv, [Download!Next]_Download!vars
  PROVE  DownloadInv'
<1>1. CASE \E t \in Threads : Download!Call(t) \/ Download!Step(t)
  <2>1. PICK t \in Threads : Download!Call(t) \/ Download!Step(t)
    BY <1>1
  <2> QED BY <2>1, CallPreserves, ValidatePreserves, StatObjectPreserves, OpenPreserves,
             GetPreserves,
             ChunkPreserves, DownloadFails, RenamePreserves DEF Download!Step
<1>2. CASE \E v \in Versions \cup {None} : Download!Change(v)
  BY <1>2, ChangePreserves
<1>3. CASE UNCHANGED Download!vars
  BY <1>3, DownloadStutters
<1> QED BY <1>1, <1>2, <1>3 DEF Download!Next, Versions

\* At every moment of a download, and after every one that broke off, the file is
\* absent, the old one or the whole of one version of the object, unless a write to it
\* has failed: what arrives is in the temporary file, which is emptied before the GET,
\* and the whole of a body is there before it is renamed.  Two downloads that run at
\* the same time share the temporary file, hence OneDownload.
THEOREM FileIsWhole ==
  ASSUME OneDownload
  PROVE  Download!Spec => []Download!FileIsVersion
<1>1. Download!Init => DownloadInv
  BY DownloadInit
<1>2. DownloadInv /\ [Download!Next]_Download!vars => DownloadInv'
  BY DownloadNext
<1>3. DownloadInv => Download!FileIsVersion
  BY DEF DownloadInv, FilesInv, IsVersion, Download!FileIsVersion, Download!File,
     Download!filename, Versions
<1> QED BY <1>1, <1>2, <1>3, PTL DEF Download!Spec

\* Only a rename ends a download with success.
LEMMA SuccessRenames ==
  ASSUME DownloadInv, [Download!Next]_Download!vars, NEW t \in Threads, Download!Succeeds(t)
  PROVE  \E u \in Threads : Download!Rename(u)
<1>1. result[t] = "none" /\ result'[t] = "success" /\ DOMAIN result = Threads
  BY DEF Download!Succeeds, DownloadInv, ThreadTypes
<1>2. ASSUME NEW u \in Threads, NEW r, Download!Return(u, r), r # "success" PROVE FALSE
  BY <1>1, <1>2 DEF Download!Return
<1>3. ASSUME NEW u \in Threads, Download!Call(u) \/ Download!Step(u) PROVE Download!Rename(u)
  <2>1. CASE Download!Call(u)
    BY <1>1, <2>1 DEF Download!Call
  <2>2. CASE Download!Validate(u)
    BY <1>1, <1>2, <2>2 DEF Download!Validate
  <2>3. CASE Download!StatObject(u) \/ Download!Open(u) \/ Download!Get(u) \/ Download!Chunk(u)
    BY <1>1, <2>3 DEF Download!StatObject, Download!Open, Download!Get, Download!Chunk
  <2>4. CASE Download!Fail(u) \/ Download!RenameThrows(u)
    BY <1>2, <2>4 DEF Download!Fail, Download!Failing, Download!RenameThrows
  <2> QED BY <1>3, <2>1, <2>2, <2>3, <2>4 DEF Download!Step
<1>4. ASSUME NEW v, Download!Change(v) PROVE FALSE
  BY <1>1, <1>4 DEF Download!Change
<1>5. CASE UNCHANGED Download!vars
  BY <1>1, <1>5 DEF Download!vars, Download!threadVars
<1> QED BY <1>3, <1>4, <1>5 DEF Download!Next

\* A download that reports success, and no write of which has failed, has left in the
\* file a version the object had during that call, although the object may have been
\* replaced between StatObject and the GET, or during the transfer.
THEOREM SuccessIsAVersion ==
  ASSUME OneDownload
  PROVE  Download!Spec => Download!SuccessIsCurrent
<1>1. Download!Init => DownloadInv
  BY DownloadInit
<1>2. DownloadInv /\ [Download!Next]_Download!vars => DownloadInv'
  BY DownloadNext
<1>3. DownloadInv /\ [Download!Next]_Download!vars
        => [\A t \in Threads :
              Download!Succeeds(t) /\ ~bad[t]
                => \E v \in seen[t] \ {None} : Download!File' = Download!Data(v)]_Download!vars
  <2> SUFFICES ASSUME DownloadInv, [Download!Next]_Download!vars,
                      NEW t \in Threads, Download!Succeeds(t), ~bad[t]
               PROVE  \E v \in seen[t] \ {None} : Download!File' = Download!Data(v)
    OBVIOUS
  <2>1. PICK u \in Threads : Download!Rename(u)
    BY SuccessRenames
  <2>2. Download!Rename(t)
    BY <2>1 DEF OneDownload
  <2> QED BY <2>2, RenamePreserves DEF Download!File, Download!filename
<1> QED BY <1>1, <1>2, <1>3, PTL DEF Download!Spec, Download!SuccessIsCurrent

\* A download that fails, whatever other threads do, moves no file: the step in which it
\* fails is one of its own, and changes no name.
LEMMA ResultsStay ==
  ASSUME DOMAIN result = Threads, [Download!Next]_Download!vars
  PROVE  /\ DOMAIN result' = Threads
         /\ \A t \in Threads : result[t] = "none" /\ result'[t] \in {"error", "threw"}
                                 => dir'[Download!filename] = dir[Download!filename]
<1> DEFINE Good == /\ DOMAIN result' = Threads
                   /\ \A t \in Threads : result[t] = "none" /\ result'[t] \in {"error", "threw"}
                                           => dir'[Download!filename] = dir[Download!filename]
<1>1. ASSUME NEW u \in Threads, NEW r, Download!Return(u, r), UNCHANGED dir PROVE Good
  BY <1>1 DEF Download!Return
<1>2. ASSUME UNCHANGED result PROVE Good
  BY <1>2
<1>3. ASSUME NEW u \in Threads, Download!Call(u) \/ Download!Step(u) PROVE Good
  <2>1. CASE Download!Call(u)
    BY <2>1 DEF Download!Call
  <2>2. CASE Download!Validate(u)
    BY <1>1, <1>2, <2>2 DEF Download!Validate, Download!fileVars
  <2>3. CASE Download!StatObject(u) \/ Download!Open(u) \/ Download!Get(u) \/ Download!Chunk(u)
    BY <1>2, <2>3 DEF Download!StatObject, Download!Open, Download!Get, Download!Chunk
  <2>4. CASE Download!Fail(u) \/ Download!RenameThrows(u)
    BY <1>1, <2>4 DEF Download!Fail, Download!Failing, Download!RenameThrows, Download!fileVars
  <2>5. CASE Download!Rename(u)
    BY <2>5 DEF Download!Rename, Download!Return
  <2> QED BY <1>3, <2>1, <2>2, <2>3, <2>4, <2>5 DEF Download!Step
<1>4. ASSUME NEW v, Download!Change(v) PROVE Good
  BY <1>2, <1>4 DEF Download!Change
<1>5. CASE UNCHANGED Download!vars
  BY <1>2, <1>5 DEF Download!vars, Download!threadVars
<1> QED BY <1>3, <1>4, <1>5 DEF Download!Next

\* A failing download leaves the file of an earlier one in place: the rename is the only
\* step that gives filename another file, and it ends in success.
THEOREM FailuresKeepFile == Download!Spec => Download!FailureKeepsFile
<1>1. Download!Init => DOMAIN result = Threads
  BY DEF Download!Init
<1>2. DOMAIN result = Threads /\ [Download!Next]_Download!vars
        => (DOMAIN result = Threads)'
           /\ [\A t \in Threads :
                 result[t] = "none" /\ result'[t] \in {"error", "threw"}
                   => dir'[Download!filename] = dir[Download!filename]]_Download!vars
  BY ResultsStay
<1> QED BY <1>1, <1>2, PTL DEF Download!Spec, Download!FailureKeepsFile
=============================================================================
