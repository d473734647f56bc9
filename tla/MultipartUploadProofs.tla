------------------------ MODULE MultipartUploadProofs ------------------------
(***************************************************************************)
(* Proofs, for every number of buffers, part size, object size and stream  *)
(* length, of the safety properties of MultipartUpload.                    *)
(*                                                                         *)
(* TypeOK /\ IInv is inductive.  RingInv says where the uploads in flight  *)
(* sit in the ring of buffers, hence that the buffer about to be filled is *)
(* read by nobody; DataInv and OrderInv follow the bytes from the stream   *)
(* to buffers, etags and the list of parts; CutInv and SizeInv say that    *)
(* the chunks cut so far are the consumed prefix and how much is left.     *)
(* There is one lemma per action, with one step per conjunct.              *)
(***************************************************************************)
EXTENDS MultipartUpload, PartReaderProofs

USE DEF vars, storeVars, readerVars, inputVars, cutVars, callVars, poolVars,
        errVars, Goto, Return

\* The step round the ring: (x + 1) % M without the division.
LEMMA ModSucc ==
  ASSUME NEW M \in Nat \ {0}, NEW x \in 0 .. M - 1
  PROVE  (x + 1) % M = IF x + 1 = M THEN 0 ELSE x + 1
<1>1. CASE x + 1 = M
  BY <1>1
<1>2. CASE x + 1 < M
  BY <1>2
<1> QED BY <1>1, <1>2

\* What Head and Tail return, element by element.
LEMMA TailFacts ==
  ASSUME NEW S, NEW q \in Seq(S), q # <<>>
  PROVE  /\ Len(q) \in Nat /\ Len(q) >= 1
         /\ Head(q) = q[1] /\ Head(q) \in S
         /\ Tail(q) \in Seq(S)
         /\ Len(Tail(q)) = Len(q) - 1
         /\ \A i \in 1 .. Len(q) - 1 : Tail(q)[i] = q[i + 1]
OBVIOUS

\* Replacing one element of a sequence.
LEMMA ExceptFacts ==
  ASSUME NEW S, NEW q \in Seq(S), NEW k \in 1 .. Len(q), NEW e \in S
  PROVE  /\ [q EXCEPT ![k] = e] \in Seq(S)
         /\ Len([q EXCEPT ![k] = e]) = Len(q)
         /\ [q EXCEPT ![k] = e][k] = e
         /\ \A j \in 1 .. Len(q) : j # k => [q EXCEPT ![k] = e][j] = q[j]
OBVIOUS

\* Taking the oldest upload off the deque leaves the ring in order: the others
\* stay where they are relative to buf_idx.
LEMMA PopKeepsRing ==
  ASSUME TypeOK, RingInv, inflight # <<>>, inflight' = Tail(inflight),
         UNCHANGED <<max_inflight, buf_idx>>
  PROVE  RingInv'
<1>1. /\ Len(inflight) \in Nat /\ Len(inflight') = Len(inflight) - 1
      /\ \A i \in 1 .. Len(inflight') : inflight'[i] = inflight[i + 1]
  BY TailFacts DEF TypeOK, ReaderTypeOK
<1>2. Len(inflight') < max_inflight'
  BY <1>1 DEF RingInv, TypeOK, ReaderTypeOK
<1>3. ASSUME NEW i \in 1 .. Len(inflight')
      PROVE  inflight'[i].buf = Behind(Len(inflight) - i + 1)'
  <2>1. i + 1 \in 1 .. Len(inflight) /\ inflight'[i] = inflight[i + 1]
    BY <1>1
  <2>2. inflight[i + 1].buf = Behind(Len(inflight) - (i + 1) + 1)
    BY <2>1 DEF RingInv
  <2>3. Len(inflight) - (i + 1) + 1 = Len(inflight') - i + 1
    BY <1>1
  <2> QED BY <2>1, <2>2, <2>3 DEF Behind
<1>4. Len(inflight') <= max_inflight'
  BY <1>1, <1>2 DEF TypeOK, ReaderTypeOK
<1> QED BY <1>2, <1>3, <1>4 DEF RingInv

\* Nor does it touch what the remaining uploads read or have stored.
LEMMA PopKeepsData ==
  ASSUME TypeOK, DataInv, inflight # <<>>, inflight' = Tail(inflight),
         UNCHANGED <<chunks, buf_pool>>, pc' \notin {"single", "create", "dispatch"}
  PROVE  DataInv'
<1>1. /\ Len(inflight) \in Nat /\ Len(inflight') = Len(inflight) - 1
      /\ \A i \in 1 .. Len(inflight') : inflight'[i] = inflight[i + 1]
  BY TailFacts DEF TypeOK, ReaderTypeOK
<1>2. ASSUME NEW i \in 1 .. Len(inflight')
      PROVE  /\ inflight'[i].part_number \in 1 .. Len(chunks')
             /\ inflight'[i].future = "running" =>
                  buf_pool'[inflight'[i].buf] = chunks'[inflight'[i].part_number]
             /\ inflight'[i].future = "ok" =>
                  /\ inflight'[i].part_number <= kMaxPartNumber
                  /\ inflight'[i].etag = chunks'[inflight'[i].part_number]
  <2>1. i + 1 \in 1 .. Len(inflight) /\ inflight'[i] = inflight[i + 1]
    BY <1>1
  <2> QED BY <2>1 DEF DataInv
<1> QED BY <1>2 DEF DataInv

\* Validation and the allocation of the buffers: CalcPartInfo gives the part
\* count and size that SizeInv starts from.
LEMMA StartPreserves ==
  ASSUME TypeOK, IInv, Start
  PROVE  TypeOK' /\ IInv'
<1> USE DEF IInv
<1> DEFINE info == CalcPartInfo(object_size, PartSizeArg)
<1>a. /\ info.part_size \in Nat
      /\ info.part_count \in (Nat \ {0}) \cup {None}
      /\ (info.part_count = None) <=> (object_size = None)
      /\ object_size # None =>
           /\ (info.part_count - 1) * info.part_size <= object_size
           /\ object_size <= info.part_count * info.part_size
  BY InfoFacts, UploadAssumption DEF TypeOK, ReaderTypeOK
<1>b. Clamped(info.part_count) \in Nat \ {0}
  BY <1>a, UploadAssumption, LimitsAssumption DEF Clamped, Least
<1>c. /\ pc = "start" /\ part_size' = info.part_size /\ part_count' = info.part_count
      /\ \/ Return("err") /\ UNCHANGED poolVars
         \/ /\ max_inflight' = Clamped(info.part_count)
            /\ buf_pool' = [b \in 0 .. max_inflight' - 1 |-> NoChunk]
            /\ UNCHANGED buf_idx /\ Goto("loop")
      /\ UNCHANGED <<storeVars, inputVars, pos, bad, uploaded_size, one_byte,
                     stop, chunks, part_number, inflight, parts, upload_id, errVars>>
  BY DEF Start
<1>d. info.part_count # 1
  BY <1>c DEF StartInv
<1> HIDE DEF info
<1>1. TypeOK'
  <2>1. max_inflight' \in Nat \ {0} /\ buf_pool' \in [0 .. max_inflight' - 1 -> Chunk]
        /\ buf_idx' \in 0 .. max_inflight' - 1
    BY <1>b, <1>c DEF TypeOK, ReaderTypeOK, StartInv, NoChunk, Chunk
  <2>2. part_size' \in Nat /\ part_count' \in Nat \cup {None}
    BY <1>a, <1>c
  <2>3. pc' \in Labels /\ result' \in {"pending", "ok", "err", "threw"}
    BY <1>c DEF TypeOK, ReaderTypeOK, Labels
  <2>4. StoreTypeOK'
    BY <1>c DEF TypeOK, StoreTypeOK
  <2>5. ReaderTypeOK'
    BY <1>c, <2>2 DEF TypeOK, ReaderTypeOK
  <2>6. UNCHANGED <<inflight, parts, upload_id, first_err, cancelled, abort_failed>>
    BY <1>c DEF errVars
  <2> HIDE DEF IInv
  <2> QED BY <2>1, <2>3, <2>4, <2>5, <2>6 DEF TypeOK
<1>2. StartInv'
  BY <1>c, <1>d DEF StartInv, PhaseInv, TypeOK, Upload
<1>3. RingInv'
  <2>1. inflight' = <<>> /\ Len(inflight') = 0
    BY <1>c, EmptyFacts DEF StartInv
  <2>2. max_inflight' \in Nat \ {0} => Len(inflight') <= max_inflight'
    BY <2>1
  <2> QED BY <1>b, <1>c, <2>1, <2>2 DEF RingInv, StartInv
<1>4. DataInv'
  BY <1>a, <1>b, <1>c, <1>d DEF DataInv, StartInv, PhaseInv, TypeOK, ReaderTypeOK, StoreTypeOK, Upload, Chunk
<1>5. OrderInv'
  <2>1. part_number = 0 /\ chunks = <<>> /\ inflight = <<>> /\ parts = <<>>
    BY <1>c DEF StartInv
  <2>2. Len(chunks) = 0 /\ Len(inflight) = 0 /\ Len(parts) = 0
    BY <2>1
  <2>3. pc' \in {"loop", "done"} /\ UNCHANGED <<part_number, chunks, inflight, parts>>
    BY <1>c
  <2> QED BY <2>1, <2>2, <2>3 DEF OrderInv
<1>6. CutInv'
  BY <1>a, <1>b, <1>c, <1>d DEF CutInv, Contiguous, Carry, StartInv, PhaseInv, TypeOK, ReaderTypeOK, StoreTypeOK, Upload, Chunk
<1>7. SizeInv'
  <2>1. /\ uploaded_size = 0 /\ pos = 0 /\ ~one_byte /\ ~stop /\ chunks = <<>>
        /\ first_err = FALSE
    BY <1>c DEF StartInv, CutInv, Contiguous, PhaseInv, TypeOK, ReaderTypeOK
  <2>2. Len(chunks) = 0
    BY <2>1
  <2>3. /\ UNCHANGED <<uploaded_size, pos, one_byte, stop, chunks, first_err, object_size>>
        /\ part_size' = info.part_size /\ part_count' = info.part_count
        /\ pc' \in {"loop", "done"}
    BY <1>c
  <2>4. object_size # None =>
          /\ (part_count' - Len(chunks) - 1) * part_size' <= object_size - uploaded_size
          /\ object_size - uploaded_size <= (part_count' - Len(chunks)) * part_size'
    <3>1. SUFFICES ASSUME object_size # None
                   PROVE  /\ (part_count' - Len(chunks) - 1) * part_size' <= object_size - uploaded_size
                          /\ object_size - uploaded_size <= (part_count' - Len(chunks)) * part_size'
      OBVIOUS
    <3>2. info.part_count \in Nat /\ object_size \in Nat
      BY <1>a, <3>1 DEF TypeOK, ReaderTypeOK
    <3>3. /\ part_count' - Len(chunks) - 1 = info.part_count - 1
          /\ part_count' - Len(chunks) = info.part_count
          /\ object_size - uploaded_size = object_size
      BY <2>1, <2>2, <2>3, <3>2
    <3> QED BY <1>a, <1>d, <2>3, <3>1, <3>3
  <2> QED BY <1>a, <1>d, <2>1, <2>3, <2>4 DEF SizeInv
<1>8. PhaseInv'
  BY <1>a, <1>b, <1>c, <1>d DEF PhaseInv, StartInv, TypeOK, ReaderTypeOK, StoreTypeOK, Upload, Chunk
<1>9. ObjectIntegrity'
  BY <1>a, <1>b, <1>c, <1>d DEF ObjectIntegrity, Covers, Total, StartInv, PhaseInv, TypeOK, ReaderTypeOK, StoreTypeOK, Upload, Chunk
<1>10. NoUploadLeftBehind'
  BY <1>a, <1>b, <1>c, <1>d DEF NoUploadLeftBehind, StartInv, PhaseInv, TypeOK, ReaderTypeOK, StoreTypeOK, Upload, Chunk
<1> QED BY <1>1, <1>2, <1>3, <1>4, <1>5, <1>6, <1>7, <1>8, <1>9, <1>10

\* The head of the loop moves part_number on and decides whether to wait.
LEMMA LoopHeadPreserves ==
  ASSUME TypeOK, IInv, LoopHead
  PROVE  TypeOK' /\ IInv'
<1> USE DEF IInv
<1>1. TypeOK'
  BY DEF LoopHead, SlotsTaken, TypeOK, ReaderTypeOK, StoreTypeOK, Upload, Labels, PartNumbers, Chunk, NoChunk
<1>2. StartInv'
  BY DEF LoopHead, SlotsTaken, StartInv, TypeOK, ReaderTypeOK, StoreTypeOK, Upload, Chunk
<1>3. RingInv'
  BY DEF LoopHead, SlotsTaken, RingInv, Behind, TypeOK, ReaderTypeOK, StoreTypeOK, Upload, Chunk
<1>4. DataInv'
  BY DEF LoopHead, SlotsTaken, DataInv, TypeOK, ReaderTypeOK, StoreTypeOK, Upload, Chunk
<1>5. OrderInv'
  BY DEF LoopHead, SlotsTaken, OrderInv, TypeOK, ReaderTypeOK, StoreTypeOK, Upload, Chunk
<1>6. CutInv'
  BY DEF LoopHead, SlotsTaken, CutInv, Contiguous, Carry, TypeOK, ReaderTypeOK, StoreTypeOK, Upload, Chunk
<1>7. SizeInv'
  BY DEF LoopHead, SlotsTaken, SizeInv, Total, TypeOK, ReaderTypeOK, StoreTypeOK, Upload, Chunk
<1>8. PhaseInv'
  BY DEF LoopHead, SlotsTaken, PhaseInv, TypeOK, ReaderTypeOK, StoreTypeOK, Upload, Chunk
<1>9. ObjectIntegrity'
  BY DEF LoopHead, SlotsTaken, ObjectIntegrity, Covers, Total, TypeOK, ReaderTypeOK, StoreTypeOK, Upload, Chunk
<1>10. NoUploadLeftBehind'
  BY DEF LoopHead, SlotsTaken, NoUploadLeftBehind, TypeOK, ReaderTypeOK, StoreTypeOK, Upload, Chunk
<1> QED BY <1>1, <1>2, <1>3, <1>4, <1>5, <1>6, <1>7, <1>8, <1>9, <1>10

\* Waiting for a slot meets a failed upload: the loop ends with an error.
LEMMA WaitFailedPreserves ==
  ASSUME TypeOK, IInv, WaitFailed
  PROVE  TypeOK' /\ IInv'
<1> USE DEF IInv
<1>a. inflight # <<>> /\ inflight' = Tail(inflight) /\ inflight \in Seq(Upload)
  BY DEF WaitFailed, FrontEnded, PopFront, TypeOK, ReaderTypeOK
<1>b. /\ Len(inflight) \in Nat /\ Len(inflight) >= 1
      /\ Head(inflight) = inflight[1] /\ inflight[1] \in Upload
      /\ inflight' \in Seq(Upload)
      /\ Len(inflight') = Len(inflight) - 1
      /\ \A i \in 1 .. Len(inflight') : inflight'[i] = inflight[i + 1]
  BY <1>a, TailFacts
<1>z. /\ pc = "wait" /\ inflight[1].future = "err" /\ pc' = "drain" /\ first_err' = TRUE
      /\ UNCHANGED <<storeVars, readerVars, poolVars, parts, upload_id, cancelled,
                     abort_failed, result>>
  BY <1>b DEF WaitFailed, FrontEnded, PopFront
<1>1. TypeOK'
  BY <1>b, <1>z DEF TypeOK, ReaderTypeOK, StoreTypeOK, Labels
<1>2. StartInv'
  BY <1>b, <1>z DEF StartInv
<1>3. RingInv'
  BY <1>a, <1>z, PopKeepsRing
<1>4. DataInv'
  BY <1>a, <1>z, PopKeepsData
<1>5. OrderInv'
  BY <1>b, <1>z DEF OrderInv, TypeOK, ReaderTypeOK
<1>6. CutInv'
  BY <1>b, <1>z DEF CutInv, Contiguous, Carry, TypeOK, ReaderTypeOK
<1>7. SizeInv'
  BY <1>b, <1>z DEF SizeInv, Total
<1>8. PhaseInv'
  BY <1>b, <1>z DEF PhaseInv
<1>9. ObjectIntegrity'
  BY <1>b, <1>z DEF ObjectIntegrity, Total, Covers
<1>10. NoUploadLeftBehind'
  BY <1>b, <1>z DEF NoUploadLeftBehind
<1> QED BY <1>1, <1>2, <1>3, <1>4, <1>5, <1>6, <1>7, <1>8, <1>9, <1>10

\* Waiting for a slot takes an acknowledged part over to parts.
LEMMA WaitDonePreserves ==
  ASSUME TypeOK, IInv, NEW p \in Progress, WaitDone(p)
  PROVE  TypeOK' /\ IInv'
<1> USE DEF IInv
<1>a. inflight # <<>> /\ inflight' = Tail(inflight) /\ inflight \in Seq(Upload)
  BY DEF WaitDone, FrontEnded, PopFront, TypeOK, ReaderTypeOK
<1>b. /\ Len(inflight) \in Nat /\ Len(inflight) >= 1
      /\ Head(inflight) = inflight[1] /\ inflight[1] \in Upload
      /\ inflight' \in Seq(Upload)
      /\ Len(inflight') = Len(inflight) - 1
      /\ \A i \in 1 .. Len(inflight') : inflight'[i] = inflight[i + 1]
  BY <1>a, TailFacts
<1>c0. inflight[1].future = "ok" /\ 1 \in 1 .. Len(inflight)
  BY <1>b DEF WaitDone, FrontEnded
<1>c. inflight[1].part_number \in PartNumbers /\ inflight[1].etag \in Chunk
  <2>1. inflight[1].part_number \in 1 .. Len(chunks) /\ inflight[1].part_number <= kMaxPartNumber
    BY <1>c0 DEF DataInv
  <2>2. inflight[1].etag \in Chunk /\ inflight[1].part_number \in Nat
    BY <1>b DEF Upload
  <2> QED BY <2>1, <2>2, PartNumberAssumption DEF PartNumbers
<1>d. /\ parts' = Append(parts, [number |-> inflight[1].part_number, etag |-> inflight[1].etag])
      /\ parts \in Seq([number : PartNumbers, etag : Chunk])
  BY <1>b DEF WaitDone, PushPart, TypeOK, ReaderTypeOK
<1>e. /\ parts' \in Seq([number : PartNumbers, etag : Chunk])
      /\ Len(parts) \in Nat
      /\ Len(parts') = Len(parts) + 1
      /\ \A i \in 1 .. Len(parts) : parts'[i] = parts[i]
      /\ parts'[Len(parts) + 1].number = inflight[1].part_number
      /\ parts'[Len(parts) + 1].etag = inflight[1].etag
  BY <1>c, <1>d, AppendFacts
<1>z. /\ pc = "wait" /\ inflight[1].future = "ok"
      /\ pc' = (IF p = "go" THEN "read" ELSE IF p = "stop" THEN "drain" ELSE "unwind")
      /\ first_err' = (first_err \/ p = "stop") /\ cancelled' = (cancelled \/ p = "stop")
      /\ UNCHANGED <<storeVars, readerVars, poolVars, upload_id, abort_failed, result>>
  BY <1>b DEF WaitDone, FrontEnded, PopFront, PushPart, report_progress, Progress
<1>1. TypeOK'
  BY <1>b, <1>e, <1>z DEF TypeOK, ReaderTypeOK, StoreTypeOK, Labels
<1>2. StartInv'
  BY <1>b, <1>e, <1>z DEF StartInv
<1>3. RingInv'
  BY <1>a, <1>z, PopKeepsRing
<1>4. DataInv'
  BY <1>a, <1>z, PopKeepsData
<1>5. OrderInv'
  <2>1. CASE first_err'
    BY <1>b, <1>z, <2>1 DEF OrderInv, PhaseInv
  <2>2. CASE ~first_err' /\ pc' # "unwind"
    <3>1. /\ ~first_err
          /\ Len(parts) + Len(inflight) = Len(chunks)
          /\ \A i \in 1 .. Len(parts) : parts[i].number = i /\ parts[i].etag = chunks[i]
          /\ \A i \in 1 .. Len(inflight) : inflight[i].part_number = Len(parts) + i
          /\ pc \in {"wait", "read"} => part_number = Len(chunks) + 1
      BY <1>z, <2>2 DEF OrderInv, TypeOK, ReaderTypeOK
    <3>2. Len(parts') + Len(inflight') = Len(chunks')
      <4>1. chunks' = chunks
        BY <1>z
      <4>2. Len(parts') = Len(parts) + 1 /\ Len(parts) \in Nat
        BY <1>e
      <4>3. Len(inflight') = Len(inflight) - 1 /\ Len(inflight) \in Nat
        BY <1>b
      <4>4. Len(parts) + Len(inflight) = Len(chunks)
        BY <3>1
      <4> QED BY <4>1, <4>2, <4>3, <4>4
    <3>3. ASSUME NEW i \in 1 .. Len(parts')
          PROVE  parts'[i].number = i /\ parts'[i].etag = chunks'[i]
      <4>1. CASE i \in 1 .. Len(parts)
        BY <1>e, <1>z, <3>1, <4>1
      <4>2. CASE i = Len(parts) + 1
        <5>1. inflight[1].part_number = i /\ inflight[1].etag = chunks[i]
          BY <1>b, <1>e, <1>z, <3>1, <4>2 DEF DataInv
        <5> QED BY <1>e, <1>z, <4>2, <5>1
      <4> QED BY <1>e, <4>1, <4>2
    <3>4. ASSUME NEW i \in 1 .. Len(inflight')
          PROVE  inflight'[i].part_number = Len(parts') + i
      <4>1. i + 1 \in 1 .. Len(inflight) /\ inflight'[i] = inflight[i + 1]
        BY <1>b
      <4>2. inflight[i + 1].part_number = Len(parts) + (i + 1)
        BY <3>1, <4>1
      <4> QED BY <1>e, <4>1, <4>2
    <3> QED BY <1>z, <3>1, <3>2, <3>3, <3>4 DEF OrderInv
  <2>3. CASE pc' = "unwind"
    BY <2>3 DEF OrderInv
  <2> QED BY <2>1, <2>2, <2>3 DEF TypeOK, ReaderTypeOK
<1>6. CutInv'
  BY <1>b, <1>e, <1>z DEF CutInv, Contiguous, Carry, TypeOK, ReaderTypeOK
<1>7. SizeInv'
  BY <1>b, <1>e, <1>z DEF SizeInv, Total
<1>8. PhaseInv'
  BY <1>b, <1>e, <1>z DEF PhaseInv
<1>9. ObjectIntegrity'
  BY <1>b, <1>e, <1>z DEF ObjectIntegrity, Total, Covers
<1>10. NoUploadLeftBehind'
  BY <1>b, <1>e, <1>z DEF NoUploadLeftBehind
<1> QED BY <1>1, <1>2, <1>3, <1>4, <1>5, <1>6, <1>7, <1>8, <1>9, <1>10

\* The single PUT stores the only chunk, which covers the whole object.
LEMMA PutSinglePreserves ==
  ASSUME TypeOK, IInv, NEW reply \in {"ok", "refused", "lost", "late", "noid"}, PutSingle(reply)
  PROVE  TypeOK' /\ IInv'
<1> USE DEF IInv
<1> DEFINE data == buf_pool[buf_idx]
<1>a. pc = "single"
  BY DEF PutSingle
<1>b. /\ Len(chunks) = 1 /\ stop /\ first_err = FALSE /\ cancelled = FALSE
      /\ upload = "none" /\ upload_id = FALSE /\ object = <<>> /\ late = <<>> /\ chunks # <<>>
  BY <1>a DEF PhaseInv, DataInv, TypeOK, ReaderTypeOK
<1>c. data = chunks[1] /\ data \in Chunk /\ chunks \in Seq(Chunk)
  BY <1>a, <1>b DEF DataInv, TypeOK, ReaderTypeOK
<1>d. inflight = <<>>
  <2>1. Len(parts) + Len(inflight) = 0 /\ Len(parts) \in Nat /\ Len(inflight) \in Nat
    BY <1>a, <1>b, EmptyFacts DEF OrderInv, TypeOK, ReaderTypeOK
  <2>2. Len(inflight) = 0
    BY <2>1
  <2> QED BY <2>2, EmptyFacts DEF TypeOK, ReaderTypeOK
<1>e. /\ <<data>> \in Seq(Chunk) /\ <<data>> # <<>> /\ Covers(<<data>>, Total)
  <2>1. data.lo = 0 /\ data.hi = pos /\ pos = Total
    BY <1>b, <1>c DEF CutInv, Contiguous, SizeInv, Carry, TypeOK, ReaderTypeOK
  <2>2. <<data>> \in Seq(Chunk) /\ <<data>> # <<>> /\ Len(<<data>>) = 1 /\ <<data>>[1] = data
    BY <1>c
  <2> QED BY <2>1, <2>2 DEF Covers
<1> HIDE DEF data
<1>z. /\ pc' = "done" /\ result' = (IF reply = "ok" THEN "ok" ELSE "err")
      /\ object' = (IF reply \in {"ok", "lost"} THEN <<data>> ELSE object)
      /\ late' = (IF reply = "late" THEN <<data>> ELSE late)
      /\ UNCHANGED <<upload, stored, leaked, readerVars, poolVars, inflight, parts, upload_id, errVars>>
  BY DEF PutSingle, ServePut, data
<1>1. TypeOK'
  BY <1>a, <1>b, <1>d, <1>e, <1>z DEF TypeOK, ReaderTypeOK, StoreTypeOK, Labels
<1>2. StartInv'
  BY <1>a, <1>b, <1>d, <1>e, <1>z DEF StartInv
<1>3. RingInv'
  BY <1>a, <1>b, <1>d, <1>e, <1>z DEF RingInv, Behind, TypeOK, ReaderTypeOK
<1>4. DataInv'
  BY <1>a, <1>b, <1>d, <1>e, <1>z DEF DataInv, TypeOK, ReaderTypeOK
<1>5. OrderInv'
  BY <1>a, <1>b, <1>d, <1>e, <1>z DEF OrderInv, TypeOK, ReaderTypeOK
<1>6. CutInv'
  BY <1>a, <1>b, <1>d, <1>e, <1>z DEF CutInv, Contiguous, Carry, TypeOK, ReaderTypeOK
<1>7. SizeInv'
  BY <1>a, <1>b, <1>d, <1>e, <1>z DEF SizeInv, Total
<1>8. PhaseInv'
  BY <1>a, <1>b, <1>d, <1>e, <1>z DEF PhaseInv
<1>9. ObjectIntegrity'
  BY <1>a, <1>b, <1>d, <1>e, <1>z DEF ObjectIntegrity, Total, Covers
<1>10. NoUploadLeftBehind'
  BY <1>a, <1>b, <1>d, <1>e, <1>z DEF NoUploadLeftBehind
<1> QED BY <1>1, <1>2, <1>3, <1>4, <1>5, <1>6, <1>7, <1>8, <1>9, <1>10

\* An upload is created before the first part is handed to a thread.
LEMMA CreateMultipartUploadPreserves ==
  ASSUME TypeOK, IInv, NEW reply \in {"ok", "refused", "lost", "late", "noid"}, CreateMultipartUpload(reply)
  PROVE  TypeOK' /\ IInv'
<1> USE DEF IInv
<1>a. pc = "create" /\ upload # "open" /\ ~upload_id /\ first_err = FALSE /\ cancelled = FALSE
      /\ chunks # <<>> /\ object = <<>> /\ late = <<>> /\ result = "pending"
  BY DEF CreateMultipartUpload, PhaseInv, DataInv, TypeOK, ReaderTypeOK
<1>z. /\ pc' = (IF reply \in {"refused", "lost"} THEN "drain" ELSE "dispatch")
      /\ upload' = (IF reply = "ok" THEN "open" ELSE upload)
      /\ leaked' = (IF reply \in {"lost", "noid"} THEN leaked + 1 ELSE leaked)
      /\ upload_id' = (reply = "ok")
      /\ first_err' = (reply \in {"refused", "lost"})
      /\ UNCHANGED <<stored, object, late, readerVars, poolVars, inflight, parts, cancelled,
                     abort_failed, result>>
  BY DEF CreateMultipartUpload, ServeCreate
<1>1. TypeOK'
  BY <1>a, <1>z DEF TypeOK, ReaderTypeOK, PhaseInv, DataInv, StoreTypeOK, Labels
<1>2. StartInv'
  BY <1>a, <1>z DEF StartInv, PhaseInv, DataInv
<1>3. RingInv'
  BY <1>a, <1>z DEF RingInv, PhaseInv, DataInv, Behind, TypeOK, ReaderTypeOK
<1>4. DataInv'
  BY <1>a, <1>z DEF DataInv, PhaseInv, TypeOK, ReaderTypeOK
<1>5. OrderInv'
  BY <1>a, <1>z DEF OrderInv, PhaseInv, DataInv, TypeOK, ReaderTypeOK
<1>6. CutInv'
  BY <1>a, <1>z DEF CutInv, Contiguous, PhaseInv, DataInv, Carry, TypeOK, ReaderTypeOK
<1>7. SizeInv'
  BY <1>a, <1>z DEF SizeInv, PhaseInv, DataInv, Total
<1>8. PhaseInv'
  BY <1>a, <1>z DEF PhaseInv, DataInv
<1>9. ObjectIntegrity'
  BY <1>a, <1>z DEF ObjectIntegrity, PhaseInv, DataInv, Total, Covers
<1>10. NoUploadLeftBehind'
  BY <1>a, <1>z DEF NoUploadLeftBehind, PhaseInv, DataInv
<1> QED BY <1>1, <1>2, <1>3, <1>4, <1>5, <1>6, <1>7, <1>8, <1>9, <1>10

\* A part goes to a thread: it takes the buffer at buf_idx, the next in the ring.
LEMMA DispatchPreserves ==
  ASSUME TypeOK, IInv, Dispatch
  PROVE  TypeOK' /\ IInv'
<1> USE DEF IInv
<1> DEFINE u == [part_number |-> part_number, buf |-> buf_idx, id |-> upload_id,
                 future |-> "running", etag |-> NoChunk]
<1>a. u \in Upload /\ inflight' = Append(inflight, u) /\ inflight \in Seq(Upload)
  BY DEF Dispatch, TypeOK, ReaderTypeOK, Upload, NoChunk, Chunk
<1>b. /\ inflight' \in Seq(Upload)
      /\ Len(inflight) \in Nat
      /\ Len(inflight') = Len(inflight) + 1
      /\ \A i \in 1 .. Len(inflight) : inflight'[i] = inflight[i]
      /\ inflight'[Len(inflight) + 1] = u
  BY <1>a, AppendFacts
<1>c. buf_idx' = IF buf_idx + 1 = max_inflight THEN 0 ELSE buf_idx + 1
  BY ModSucc DEF Dispatch, TypeOK, ReaderTypeOK
<1>z. /\ pc = "dispatch" /\ pc' = "loop"
      /\ UNCHANGED <<storeVars, readerVars, max_inflight, buf_pool, parts, upload_id, errVars, result>>
  BY DEF Dispatch
<1>1. TypeOK'
  <2>1. buf_idx' \in 0 .. max_inflight' - 1
    BY <1>c, <1>z DEF TypeOK, ReaderTypeOK
  <2> QED BY <1>b, <1>z, <2>1 DEF TypeOK, ReaderTypeOK, StoreTypeOK, Labels
<1>2. StartInv'
  BY <1>a, <1>b, <1>c, <1>z DEF StartInv, RingInv, DataInv, OrderInv, PhaseInv
<1>3. RingInv'
  <2>1. Len(inflight) < max_inflight /\ max_inflight \in Nat \ {0}
        /\ buf_idx \in 0 .. max_inflight - 1 /\ max_inflight' = max_inflight
    BY <1>z DEF RingInv, TypeOK, ReaderTypeOK
  <2>2. ASSUME NEW i \in 1 .. Len(inflight')
        PROVE  inflight'[i].buf = Behind(Len(inflight) - i + 1)'
    <3> DEFINE d == Len(inflight) - i + 1
    <3>1. d \in 0 .. max_inflight - 1 /\ Len(inflight') - i + 1 = d + 1
      BY <1>b, <2>1
    <3>2. inflight'[i].buf = Behind(d)
      <4>1. CASE i \in 1 .. Len(inflight)
        BY <1>b, <4>1 DEF RingInv
      <4>2. CASE i = Len(inflight) + 1
        <5>1. inflight'[i].buf = buf_idx
          BY <1>b, <4>2
        <5>2. d = 0
          BY <1>b, <4>2
        <5> QED BY <2>1, <5>1, <5>2 DEF Behind
      <4> QED BY <1>b, <4>1, <4>2
    <3>3. Behind(Len(inflight) - i + 1)' =
            IF d + 1 <= buf_idx' THEN buf_idx' - (d + 1) ELSE buf_idx' - (d + 1) + max_inflight
      BY <2>1, <3>1 DEF Behind
    <3> HIDE DEF d
    <3> QED BY <1>c, <2>1, <3>1, <3>2, <3>3 DEF Behind
  <2> QED BY <1>b, <1>z, <2>1, <2>2 DEF RingInv
<1>4. DataInv'
  <2>1. part_number = Len(chunks) /\ Len(chunks) \in Nat /\ chunks # <<>>
        /\ buf_pool[buf_idx] = chunks[part_number]
    BY <1>z, EmptyFacts DEF OrderInv, DataInv, TypeOK, ReaderTypeOK
  <2>2. Len(chunks) \in Nat \ {0}
    BY <2>1, EmptyFacts DEF TypeOK, ReaderTypeOK
  <2>3. ASSUME NEW i \in 1 .. Len(inflight')
        PROVE  /\ inflight'[i].part_number \in 1 .. Len(chunks)
               /\ inflight'[i].future = "running" =>
                    buf_pool[inflight'[i].buf] = chunks[inflight'[i].part_number]
               /\ inflight'[i].future = "ok" =>
                    /\ inflight'[i].part_number <= kMaxPartNumber
                    /\ inflight'[i].etag = chunks[inflight'[i].part_number]
    <3>1. CASE i \in 1 .. Len(inflight)
      BY <1>b, <3>1 DEF DataInv
    <3>2. CASE i = Len(inflight) + 1
      <4>1. /\ inflight'[i].part_number = part_number /\ inflight'[i].buf = buf_idx
            /\ inflight'[i].future = "running"
        BY <1>b, <3>2
      <4> QED BY <2>1, <2>2, <4>1
    <3> QED BY <1>b, <3>1, <3>2
  <2>4. pc' = "loop" /\ chunks' = chunks /\ buf_pool' = buf_pool
    BY <1>z
  <2> QED BY <2>3, <2>4 DEF DataInv
<1>5. OrderInv'
  <2>1. /\ ~first_err /\ part_number = Len(chunks)
        /\ Len(parts) + Len(inflight) = Len(chunks) - 1
        /\ \A i \in 1 .. Len(parts) : parts[i].number = i /\ parts[i].etag = chunks[i]
        /\ \A i \in 1 .. Len(inflight) : inflight[i].part_number = Len(parts) + i
        /\ Len(chunks) \in Nat /\ Len(parts) \in Nat
    BY <1>z, EmptyFacts DEF OrderInv, PhaseInv, TypeOK, ReaderTypeOK
  <2>2. ASSUME NEW i \in 1 .. Len(inflight')
        PROVE  inflight'[i].part_number = Len(parts) + i
    <3>1. CASE i \in 1 .. Len(inflight)
      BY <1>b, <2>1, <3>1
    <3>2. CASE i = Len(inflight) + 1
      <4>1. inflight'[i].part_number = part_number
        BY <1>b, <3>2
      <4>2. part_number = Len(parts) + Len(inflight) + 1 /\ Len(inflight) \in Nat
        <5>1. Len(inflight) \in Nat
          BY <1>b
        <5> QED BY <2>1, <5>1
      <4> QED BY <2>1, <3>2, <4>1, <4>2
    <3> QED BY <1>b, <3>1, <3>2
  <2>3. Len(parts) + Len(inflight') = Len(chunks)
    <3>1. Len(inflight') = Len(inflight) + 1 /\ Len(inflight) \in Nat
      BY <1>b
    <3> QED BY <2>1, <3>1
  <2>4. /\ pc' = "loop" /\ parts' = parts /\ chunks' = chunks
        /\ part_number' = part_number /\ first_err' = first_err
    BY <1>z
  <2> QED BY <2>1, <2>2, <2>3, <2>4 DEF OrderInv
<1>6. CutInv'
  BY <1>a, <1>b, <1>c, <1>z DEF CutInv, Contiguous, RingInv, DataInv, OrderInv, PhaseInv, Carry, TypeOK, ReaderTypeOK
<1>7. SizeInv'
  BY <1>a, <1>b, <1>c, <1>z DEF SizeInv, RingInv, DataInv, OrderInv, PhaseInv, Total
<1>8. PhaseInv'
  BY <1>a, <1>b, <1>c, <1>z DEF PhaseInv, RingInv, DataInv, OrderInv
<1>9. ObjectIntegrity'
  BY <1>a, <1>b, <1>c, <1>z DEF ObjectIntegrity, RingInv, DataInv, OrderInv, PhaseInv, Total, Covers
<1>10. NoUploadLeftBehind'
  BY <1>a, <1>b, <1>c, <1>z DEF NoUploadLeftBehind, RingInv, DataInv, OrderInv, PhaseInv
<1> QED BY <1>1, <1>2, <1>3, <1>4, <1>5, <1>6, <1>7, <1>8, <1>9, <1>10

\* A thread that cannot be started ends the loop with an error.
LEMMA DispatchFailedPreserves ==
  ASSUME TypeOK, IInv, DispatchFailed
  PROVE  TypeOK' /\ IInv'
<1> USE DEF IInv
<1>1. TypeOK'
  BY DEF DispatchFailed, TypeOK, ReaderTypeOK, StoreTypeOK, Upload, Labels, PartNumbers, Chunk, NoChunk
<1>2. StartInv'
  BY DEF DispatchFailed, StartInv, TypeOK, ReaderTypeOK, StoreTypeOK, Upload, Chunk
<1>3. RingInv'
  BY DEF DispatchFailed, RingInv, Behind, TypeOK, ReaderTypeOK, StoreTypeOK, Upload, Chunk
<1>4. DataInv'
  BY DEF DispatchFailed, DataInv, TypeOK, ReaderTypeOK, StoreTypeOK, Upload, Chunk
<1>5. OrderInv'
  BY DEF DispatchFailed, OrderInv, TypeOK, ReaderTypeOK, StoreTypeOK, Upload, Chunk
<1>6. CutInv'
  BY DEF DispatchFailed, CutInv, Contiguous, Carry, TypeOK, ReaderTypeOK, StoreTypeOK, Upload, Chunk
<1>7. SizeInv'
  BY DEF DispatchFailed, SizeInv, Total, TypeOK, ReaderTypeOK, StoreTypeOK, Upload, Chunk
<1>8. PhaseInv'
  BY DEF DispatchFailed, PhaseInv, TypeOK, ReaderTypeOK, StoreTypeOK, Upload, Chunk
<1>9. ObjectIntegrity'
  BY DEF DispatchFailed, ObjectIntegrity, Covers, Total, TypeOK, ReaderTypeOK, StoreTypeOK, Upload, Chunk
<1>10. NoUploadLeftBehind'
  BY DEF DispatchFailed, NoUploadLeftBehind, TypeOK, ReaderTypeOK, StoreTypeOK, Upload, Chunk
<1> QED BY <1>1, <1>2, <1>3, <1>4, <1>5, <1>6, <1>7, <1>8, <1>9, <1>10

\* Draining a failed upload records the error.
LEMMA DrainFailedPreserves ==
  ASSUME TypeOK, IInv, DrainFailed
  PROVE  TypeOK' /\ IInv'
<1> USE DEF IInv
<1>a. inflight # <<>> /\ inflight' = Tail(inflight) /\ inflight \in Seq(Upload)
  BY DEF DrainFailed, FrontEnded, PopFront, TypeOK, ReaderTypeOK
<1>b. /\ Len(inflight) \in Nat /\ Len(inflight) >= 1
      /\ Head(inflight) = inflight[1] /\ inflight[1] \in Upload
      /\ inflight' \in Seq(Upload)
      /\ Len(inflight') = Len(inflight) - 1
      /\ \A i \in 1 .. Len(inflight') : inflight'[i] = inflight[i + 1]
  BY <1>a, TailFacts
<1>z. /\ pc = "drain" /\ inflight[1].future = "err" /\ pc' = "drain" /\ first_err' = TRUE
      /\ UNCHANGED <<storeVars, readerVars, poolVars, parts, upload_id, cancelled,
                     abort_failed, result>>
  BY <1>b DEF DrainFailed, FrontEnded, PopFront
<1>1. TypeOK'
  BY <1>b, <1>z DEF TypeOK, ReaderTypeOK, StoreTypeOK, Labels
<1>2. StartInv'
  BY <1>b, <1>z DEF StartInv
<1>3. RingInv'
  BY <1>a, <1>z, PopKeepsRing
<1>4. DataInv'
  BY <1>a, <1>z, PopKeepsData
<1>5. OrderInv'
  BY <1>b, <1>z DEF OrderInv, TypeOK, ReaderTypeOK
<1>6. CutInv'
  BY <1>b, <1>z DEF CutInv, Contiguous, Carry, TypeOK, ReaderTypeOK
<1>7. SizeInv'
  BY <1>b, <1>z DEF SizeInv, Total
<1>8. PhaseInv'
  BY <1>b, <1>z DEF PhaseInv
<1>9. ObjectIntegrity'
  BY <1>b, <1>z DEF ObjectIntegrity, Total, Covers
<1>10. NoUploadLeftBehind'
  BY <1>b, <1>z DEF NoUploadLeftBehind
<1> QED BY <1>1, <1>2, <1>3, <1>4, <1>5, <1>6, <1>7, <1>8, <1>9, <1>10

\* Draining an acknowledged part takes it over to parts.
LEMMA DrainDonePreserves ==
  ASSUME TypeOK, IInv, NEW p \in Progress, DrainDone(p)
  PROVE  TypeOK' /\ IInv'
<1> USE DEF IInv
<1>a. inflight # <<>> /\ inflight' = Tail(inflight) /\ inflight \in Seq(Upload)
  BY DEF DrainDone, FrontEnded, PopFront, TypeOK, ReaderTypeOK
<1>b. /\ Len(inflight) \in Nat /\ Len(inflight) >= 1
      /\ Head(inflight) = inflight[1] /\ inflight[1] \in Upload
      /\ inflight' \in Seq(Upload)
      /\ Len(inflight') = Len(inflight) - 1
      /\ \A i \in 1 .. Len(inflight') : inflight'[i] = inflight[i + 1]
  BY <1>a, TailFacts
<1>c0. inflight[1].future = "ok" /\ 1 \in 1 .. Len(inflight)
  BY <1>b DEF DrainDone, FrontEnded
<1>c. inflight[1].part_number \in PartNumbers /\ inflight[1].etag \in Chunk
  <2>1. inflight[1].part_number \in 1 .. Len(chunks) /\ inflight[1].part_number <= kMaxPartNumber
    BY <1>c0 DEF DataInv
  <2>2. inflight[1].etag \in Chunk /\ inflight[1].part_number \in Nat
    BY <1>b DEF Upload
  <2> QED BY <2>1, <2>2, PartNumberAssumption DEF PartNumbers
<1>d. /\ parts' = Append(parts, [number |-> inflight[1].part_number, etag |-> inflight[1].etag])
      /\ parts \in Seq([number : PartNumbers, etag : Chunk])
  BY <1>b DEF DrainDone, PushPart, TypeOK, ReaderTypeOK
<1>e. /\ parts' \in Seq([number : PartNumbers, etag : Chunk])
      /\ Len(parts) \in Nat
      /\ Len(parts') = Len(parts) + 1
      /\ \A i \in 1 .. Len(parts) : parts'[i] = parts[i]
      /\ parts'[Len(parts) + 1].number = inflight[1].part_number
      /\ parts'[Len(parts) + 1].etag = inflight[1].etag
  BY <1>c, <1>d, AppendFacts
<1>z. /\ pc = "drain" /\ inflight[1].future = "ok" /\ (first_err => p = "go")
      /\ pc' = (IF p = "throw" THEN "unwind" ELSE "drain")
      /\ first_err' = (first_err \/ p = "stop") /\ cancelled' = (cancelled \/ p = "stop")
      /\ UNCHANGED <<storeVars, readerVars, poolVars, upload_id, abort_failed, result>>
  BY <1>b DEF DrainDone, FrontEnded, PopFront, PushPart, report_progress, Progress
<1>1. TypeOK'
  BY <1>b, <1>e, <1>z DEF TypeOK, ReaderTypeOK, StoreTypeOK, Labels
<1>2. StartInv'
  BY <1>b, <1>e, <1>z DEF StartInv
<1>3. RingInv'
  BY <1>a, <1>z, PopKeepsRing
<1>4. DataInv'
  BY <1>a, <1>z, PopKeepsData
<1>5. OrderInv'
  <2>1. CASE first_err'
    BY <1>b, <1>z, <2>1 DEF OrderInv, PhaseInv
  <2>2. CASE ~first_err' /\ pc' # "unwind"
    <3>1. /\ ~first_err
          /\ Len(parts) + Len(inflight) = Len(chunks)
          /\ \A i \in 1 .. Len(parts) : parts[i].number = i /\ parts[i].etag = chunks[i]
          /\ \A i \in 1 .. Len(inflight) : inflight[i].part_number = Len(parts) + i
          /\ pc \in {"wait", "read"} => part_number = Len(chunks) + 1
      BY <1>z, <2>2 DEF OrderInv, TypeOK, ReaderTypeOK
    <3>2. Len(parts') + Len(inflight') = Len(chunks')
      <4>1. chunks' = chunks
        BY <1>z
      <4>2. Len(parts') = Len(parts) + 1 /\ Len(parts) \in Nat
        BY <1>e
      <4>3. Len(inflight') = Len(inflight) - 1 /\ Len(inflight) \in Nat
        BY <1>b
      <4>4. Len(parts) + Len(inflight) = Len(chunks)
        BY <3>1
      <4> QED BY <4>1, <4>2, <4>3, <4>4
    <3>3. ASSUME NEW i \in 1 .. Len(parts')
          PROVE  parts'[i].number = i /\ parts'[i].etag = chunks'[i]
      <4>1. CASE i \in 1 .. Len(parts)
        BY <1>e, <1>z, <3>1, <4>1
      <4>2. CASE i = Len(parts) + 1
        <5>1. inflight[1].part_number = i /\ inflight[1].etag = chunks[i]
          BY <1>b, <1>e, <1>z, <3>1, <4>2 DEF DataInv
        <5> QED BY <1>e, <1>z, <4>2, <5>1
      <4> QED BY <1>e, <4>1, <4>2
    <3>4. ASSUME NEW i \in 1 .. Len(inflight')
          PROVE  inflight'[i].part_number = Len(parts') + i
      <4>1. i + 1 \in 1 .. Len(inflight) /\ inflight'[i] = inflight[i + 1]
        BY <1>b
      <4>2. inflight[i + 1].part_number = Len(parts) + (i + 1)
        BY <3>1, <4>1
      <4> QED BY <1>e, <4>1, <4>2
    <3> QED BY <1>z, <3>1, <3>2, <3>3, <3>4 DEF OrderInv
  <2>3. CASE pc' = "unwind"
    BY <2>3 DEF OrderInv
  <2> QED BY <2>1, <2>2, <2>3 DEF TypeOK, ReaderTypeOK
<1>6. CutInv'
  BY <1>b, <1>e, <1>z DEF CutInv, Contiguous, Carry, TypeOK, ReaderTypeOK
<1>7. SizeInv'
  BY <1>b, <1>e, <1>z DEF SizeInv, Total
<1>8. PhaseInv'
  BY <1>b, <1>e, <1>z DEF PhaseInv
<1>9. ObjectIntegrity'
  BY <1>b, <1>e, <1>z DEF ObjectIntegrity, Total, Covers
<1>10. NoUploadLeftBehind'
  BY <1>b, <1>e, <1>z DEF NoUploadLeftBehind
<1> QED BY <1>1, <1>2, <1>3, <1>4, <1>5, <1>6, <1>7, <1>8, <1>9, <1>10

\* When nothing is in flight the upload is completed, aborted, or never existed.
LEMMA DrainEndPreserves ==
  ASSUME TypeOK, IInv, DrainEnd
  PROVE  TypeOK' /\ IInv'
<1> USE DEF IInv
<1>1. TypeOK'
  BY DEF DrainEnd, Drained, TypeOK, ReaderTypeOK, StoreTypeOK, Upload, Labels, PartNumbers, Chunk, NoChunk
<1>2. StartInv'
  BY DEF DrainEnd, Drained, StartInv, TypeOK, ReaderTypeOK, StoreTypeOK, Upload, Chunk
<1>3. RingInv'
  BY DEF DrainEnd, Drained, RingInv, Behind, TypeOK, ReaderTypeOK, StoreTypeOK, Upload, Chunk
<1>4. DataInv'
  BY DEF DrainEnd, Drained, DataInv, TypeOK, ReaderTypeOK, StoreTypeOK, Upload, Chunk
<1>5. OrderInv'
  BY DEF DrainEnd, Drained, OrderInv, TypeOK, ReaderTypeOK, StoreTypeOK, Upload, Chunk
<1>6. CutInv'
  BY DEF DrainEnd, Drained, CutInv, Contiguous, Carry, TypeOK, ReaderTypeOK, StoreTypeOK, Upload, Chunk
<1>7. SizeInv'
  BY DEF DrainEnd, Drained, SizeInv, Total, TypeOK, ReaderTypeOK, StoreTypeOK, Upload, Chunk
<1>8. PhaseInv'
  BY DEF DrainEnd, Drained, PhaseInv, TypeOK, ReaderTypeOK, StoreTypeOK, Upload, Chunk
<1>9. ObjectIntegrity'
  BY DEF DrainEnd, Drained, ObjectIntegrity, Covers, Total, TypeOK, ReaderTypeOK, StoreTypeOK, Upload, Chunk
<1>10. NoUploadLeftBehind'
  BY DEF DrainEnd, Drained, NoUploadLeftBehind, PhaseInv, TypeOK, ReaderTypeOK, StoreTypeOK, Upload, Chunk
<1> QED BY <1>1, <1>2, <1>3, <1>4, <1>5, <1>6, <1>7, <1>8, <1>9, <1>10

\* Completion assembles the parts, which are the chunks in their order.
LEMMA CompleteMultipartUploadPreserves ==
  ASSUME TypeOK, IInv, NEW reply \in {"ok", "refused", "lost", "late", "noid"}, NEW p \in Progress, CompleteMultipartUpload(reply, p)
  PROVE  TypeOK' /\ IInv'
<1> USE DEF IInv
<1>a. /\ pc = "complete" /\ stop /\ first_err = FALSE /\ cancelled = FALSE /\ inflight = <<>>
      /\ object = <<>> /\ late = <<>> /\ result = "pending" /\ upload # "aborted"
  BY DEF CompleteMultipartUpload, PhaseInv, TypeOK, ReaderTypeOK
<1> DEFINE whole == Assembled(parts)
<1>b. /\ parts \in Seq([number : PartNumbers, etag : Chunk]) /\ chunks \in Seq(Chunk)
      /\ Len(parts) \in Nat /\ Len(chunks) \in Nat
      /\ \A i \in 1 .. Len(parts) : parts[i].etag \in Chunk
  <2>1. parts \in Seq([number : PartNumbers, etag : Chunk]) /\ chunks \in Seq(Chunk)
    BY DEF TypeOK, ReaderTypeOK
  <2>2. \A i \in 1 .. Len(parts) : parts[i] \in [number : PartNumbers, etag : Chunk]
    BY <2>1, EmptyFacts
  <2> QED BY <2>1, <2>2, EmptyFacts
<1>c. whole \in Seq(Chunk) /\ Len(whole) = Len(parts)
      /\ \A i \in 1 .. Len(parts) : whole[i] = parts[i].etag
  BY <1>b DEF Assembled
<1> HIDE DEF whole
<1>d. Len(parts) = Len(chunks) /\ (\A i \in 1 .. Len(chunks) : whole[i] = chunks[i])
  <2>1. /\ Len(parts) + Len(inflight) = Len(chunks)
        /\ \A i \in 1 .. Len(parts) : parts[i].etag = chunks[i]
    BY <1>a DEF OrderInv
  <2>2. Len(inflight) = 0
    BY <1>a
  <2>3. Len(parts) = Len(chunks)
    BY <1>b, <2>1, <2>2
  <2> QED BY <1>c, <2>1, <2>3
<1>e. chunks # <<>> /\ ~one_byte /\ pos = Total /\ pos \in Nat
  BY <1>a DEF SizeInv, TypeOK, ReaderTypeOK
<1>f. whole # <<>> /\ Covers(whole, Total)
  <2>1. Len(chunks) \in Nat \ {0}
    BY <1>e, <1>b, EmptyFacts
  <2>2. whole # <<>>
    BY <1>c, <1>d, <2>1, EmptyFacts
  <2>3. /\ chunks[1].lo = 0 /\ chunks[Len(chunks)].hi = Total
        /\ \A i \in 1 .. Len(chunks) - 1 : chunks[i].hi = chunks[i + 1].lo
    BY <1>a, <1>e DEF CutInv, Contiguous, Carry
  <2>4. ASSUME NEW i \in 1 .. Len(whole) - 1
        PROVE  whole[i].hi = whole[i + 1].lo
    <3>1. i \in 1 .. Len(chunks) - 1 /\ i \in 1 .. Len(chunks) /\ i + 1 \in 1 .. Len(chunks)
      BY <1>b, <1>c, <1>d
    <3> QED BY <1>d, <2>3, <3>1
  <2>5. whole[1].lo = 0 /\ whole[Len(whole)].hi = Total
    BY <1>c, <1>d, <2>1, <2>3
  <2> QED BY <2>2, <2>4, <2>5 DEF Covers
<1>z. /\ pc' = (IF reply = "ok" THEN "done" ELSE "abort")
      /\ result' = (IF reply = "ok" THEN IF p = "throw" THEN "threw" ELSE "ok" ELSE result)
      /\ upload' = (IF reply \in {"ok", "lost"} THEN "completed" ELSE upload)
      /\ object' = (IF reply \in {"ok", "lost"} THEN whole ELSE object)
      /\ late' = (IF reply = "late" THEN whole ELSE late)
      /\ UNCHANGED <<stored, leaked, readerVars, poolVars, inflight, parts, upload_id, errVars>>
  BY DEF CompleteMultipartUpload, ServeComplete, Progress, whole
<1>1. TypeOK'
  BY <1>a, <1>c, <1>e, <1>f, <1>z DEF TypeOK, ReaderTypeOK, StoreTypeOK, Labels
<1>2. StartInv'
  BY <1>a, <1>c, <1>e, <1>f, <1>z DEF StartInv
<1>3. RingInv'
  BY <1>a, <1>c, <1>e, <1>f, <1>z DEF RingInv, Behind, TypeOK, ReaderTypeOK
<1>4. DataInv'
  BY <1>a, <1>c, <1>e, <1>f, <1>z DEF DataInv, TypeOK, ReaderTypeOK
<1>5. OrderInv'
  BY <1>a, <1>c, <1>e, <1>f, <1>z DEF OrderInv, TypeOK, ReaderTypeOK
<1>6. CutInv'
  BY <1>a, <1>c, <1>e, <1>f, <1>z DEF CutInv, Contiguous, Carry, TypeOK, ReaderTypeOK
<1>7. SizeInv'
  BY <1>a, <1>c, <1>e, <1>f, <1>z DEF SizeInv, Total
<1>8. PhaseInv'
  BY <1>a, <1>c, <1>e, <1>f, <1>z DEF PhaseInv
<1>9. ObjectIntegrity'
  BY <1>a, <1>c, <1>e, <1>f, <1>z DEF ObjectIntegrity, Total, Covers
<1>10. NoUploadLeftBehind'
  BY <1>a, <1>c, <1>e, <1>f, <1>z DEF NoUploadLeftBehind
<1> QED BY <1>1, <1>2, <1>3, <1>4, <1>5, <1>6, <1>7, <1>8, <1>9, <1>10

\* An abort ends the call with an error.
LEMMA AbortMultipartUploadPreserves ==
  ASSUME TypeOK, IInv, NEW reply \in {"ok", "refused", "lost", "late", "noid"}, AbortMultipartUpload(reply)
  PROVE  TypeOK' /\ IInv'
<1> USE DEF IInv
<1>1. TypeOK'
  BY DEF AbortMultipartUpload, ServeAbort, TypeOK, ReaderTypeOK, StoreTypeOK, Upload, Labels, PartNumbers, Chunk, NoChunk
<1>2. StartInv'
  BY DEF AbortMultipartUpload, ServeAbort, StartInv, TypeOK, ReaderTypeOK, StoreTypeOK, Upload, Chunk
<1>3. RingInv'
  BY DEF AbortMultipartUpload, ServeAbort, RingInv, Behind, TypeOK, ReaderTypeOK, StoreTypeOK, Upload, Chunk
<1>4. DataInv'
  BY DEF AbortMultipartUpload, ServeAbort, DataInv, TypeOK, ReaderTypeOK, StoreTypeOK, Upload, Chunk
<1>5. OrderInv'
  BY DEF AbortMultipartUpload, ServeAbort, OrderInv, TypeOK, ReaderTypeOK, StoreTypeOK, Upload, Chunk
<1>6. CutInv'
  BY DEF AbortMultipartUpload, ServeAbort, CutInv, Contiguous, Carry, TypeOK, ReaderTypeOK, StoreTypeOK, Upload, Chunk
<1>7. SizeInv'
  BY DEF AbortMultipartUpload, ServeAbort, SizeInv, Total, TypeOK, ReaderTypeOK, StoreTypeOK, Upload, Chunk
<1>8. PhaseInv'
  BY DEF AbortMultipartUpload, ServeAbort, PhaseInv, TypeOK, ReaderTypeOK, StoreTypeOK, Upload, Chunk
<1>9. ObjectIntegrity'
  BY DEF AbortMultipartUpload, ServeAbort, ObjectIntegrity, Covers, Total, TypeOK, ReaderTypeOK, StoreTypeOK, Upload, Chunk
<1>10. NoUploadLeftBehind'
  BY DEF AbortMultipartUpload, ServeAbort, NoUploadLeftBehind, TypeOK, ReaderTypeOK, StoreTypeOK, Upload, Chunk
<1> QED BY <1>1, <1>2, <1>3, <1>4, <1>5, <1>6, <1>7, <1>8, <1>9, <1>10

\* An exception of the progress function leaves once every thread has ended.
LEMMA UnwindPreserves ==
  ASSUME TypeOK, IInv, Unwind
  PROVE  TypeOK' /\ IInv'
<1> USE DEF IInv
<1>1. TypeOK'
  BY DEF Unwind, TypeOK, ReaderTypeOK, StoreTypeOK, Upload, Labels, PartNumbers, Chunk, NoChunk
<1>2. StartInv'
  BY DEF Unwind, StartInv, TypeOK, ReaderTypeOK, StoreTypeOK, Upload, Chunk
<1>3. RingInv'
  BY DEF Unwind, RingInv, Behind, TypeOK, ReaderTypeOK, StoreTypeOK, Upload, Chunk
<1>4. DataInv'
  BY DEF Unwind, DataInv, TypeOK, ReaderTypeOK, StoreTypeOK, Upload, Chunk
<1>5. OrderInv'
  BY DEF Unwind, OrderInv, TypeOK, ReaderTypeOK, StoreTypeOK, Upload, Chunk
<1>6. CutInv'
  BY DEF Unwind, CutInv, Contiguous, Carry, TypeOK, ReaderTypeOK, StoreTypeOK, Upload, Chunk
<1>7. SizeInv'
  BY DEF Unwind, SizeInv, Total, TypeOK, ReaderTypeOK, StoreTypeOK, Upload, Chunk
<1>8. PhaseInv'
  BY DEF Unwind, PhaseInv, TypeOK, ReaderTypeOK, StoreTypeOK, Upload, Chunk
<1>9. ObjectIntegrity'
  BY DEF Unwind, ObjectIntegrity, Covers, Total, TypeOK, ReaderTypeOK, StoreTypeOK, Upload, Chunk
<1>10. NoUploadLeftBehind'
  BY DEF Unwind, NoUploadLeftBehind, TypeOK, ReaderTypeOK, StoreTypeOK, Upload, Chunk
<1> QED BY <1>1, <1>2, <1>3, <1>4, <1>5, <1>6, <1>7, <1>8, <1>9, <1>10

\* A thread refuses a part without an upload id, or numbered too high.
LEMMA UploadPartInvalidPreserves ==
  ASSUME TypeOK, IInv, NEW i \in DOMAIN inflight, UploadPartInvalid(i)
  PROVE  TypeOK' /\ IInv'
<1> USE DEF IInv
<1> DEFINE v == [inflight[i] EXCEPT !.future = "err"]
<1>a. i \in 1 .. Len(inflight) /\ Len(inflight) \in Nat /\ inflight[i] \in Upload
      /\ inflight \in Seq(Upload)
  BY EmptyFacts DEF TypeOK, ReaderTypeOK
<1>b. /\ inflight[i].future = "running" /\ inflight' = [inflight EXCEPT ![i] = v]
      /\ inflight[i].part_number \in 1 .. Len(chunks)
      /\ buf_pool[inflight[i].buf] = chunks[inflight[i].part_number]
  BY <1>a DEF UploadPartInvalid, DataInv
<1>c. buf_pool[inflight[i].buf] \in Chunk
  BY <1>b, EmptyFacts DEF TypeOK, ReaderTypeOK
<1>d. /\ v \in Upload
      /\ v.part_number = inflight[i].part_number /\ v.buf = inflight[i].buf
      /\ v.id = inflight[i].id /\ v.future = ("err")
      /\ v.etag = (inflight[i].etag)
  BY <1>a, <1>c DEF Upload, NoChunk, Chunk
<1> HIDE DEF v
<1>e. /\ inflight' \in Seq(Upload) /\ Len(inflight') = Len(inflight)
      /\ inflight'[i] = v
      /\ \A j \in 1 .. Len(inflight) : j # i => inflight'[j] = inflight[j]
  BY <1>a, <1>b, <1>d, ExceptFacts
<1>f. \A j \in 1 .. Len(inflight) : /\ inflight'[j].part_number = inflight[j].part_number
                                   /\ inflight'[j].buf = inflight[j].buf
  BY <1>d, <1>e
<1>g. inflight' # <<>> /\ inflight # <<>>
  BY <1>a, <1>e, EmptyFacts
<1>z. UNCHANGED <<storeVars, readerVars, pc, result, poolVars, parts, upload_id, errVars>>
  BY DEF UploadPartInvalid, Valid
<1>1. TypeOK'
  <2>1. StoreTypeOK' /\ ReaderTypeOK'
    BY <1>z DEF TypeOK, StoreTypeOK, ReaderTypeOK
  <2>2. UNCHANGED <<pc, result, max_inflight, buf_pool, buf_idx, parts, upload_id, first_err,
                    cancelled, abort_failed>>
    BY <1>z
  <2> HIDE DEF IInv
  <2> QED BY <1>e, <2>1, <2>2 DEF TypeOK
<1>2. StartInv'
  BY <1>a, <1>b, <1>e, <1>f, <1>g, <1>z DEF StartInv, DataInv
<1>3. RingInv'
  <2>1. ASSUME NEW j \in 1 .. Len(inflight')
        PROVE  inflight'[j].buf = Behind(Len(inflight) - j + 1)'
    <3>1. inflight'[j].buf = Behind(Len(inflight) - j + 1)
      BY <1>e, <1>f DEF RingInv
    <3> QED BY <1>e, <1>z, <3>1 DEF Behind
  <2> QED BY <1>e, <1>z, <2>1 DEF RingInv
<1>4. DataInv'
  <2>1. ASSUME NEW j \in 1 .. Len(inflight')
        PROVE  /\ inflight'[j].part_number \in 1 .. Len(chunks)
               /\ inflight'[j].future = "running" =>
                    buf_pool[inflight'[j].buf] = chunks[inflight'[j].part_number]
               /\ inflight'[j].future = "ok" =>
                    /\ inflight'[j].part_number <= kMaxPartNumber
                    /\ inflight'[j].etag = chunks[inflight'[j].part_number]
    <3>1. CASE j # i
      BY <1>e, <3>1 DEF DataInv
    <3>2. CASE j = i
      BY <1>b, <1>d, <1>e, <1>z, <3>2
    <3> QED BY <3>1, <3>2
  <2> QED BY <1>e, <1>z, <2>1 DEF DataInv
<1>5. OrderInv'
  <2>1. /\ Len(inflight') = Len(inflight)
        /\ \A j \in 1 .. Len(inflight) : inflight'[j].part_number = inflight[j].part_number
    BY <1>e, <1>f
  <2>2. UNCHANGED <<pc, first_err, parts, chunks, part_number>>
    BY <1>z
  <2> QED BY <2>1, <2>2 DEF OrderInv
<1>6. CutInv'
  BY <1>a, <1>b, <1>e, <1>f, <1>g, <1>z DEF CutInv, Contiguous, DataInv, Carry, TypeOK, ReaderTypeOK
<1>7. SizeInv'
  BY <1>a, <1>b, <1>e, <1>f, <1>g, <1>z DEF SizeInv, DataInv, Total
<1>8. PhaseInv'
  BY <1>a, <1>b, <1>e, <1>f, <1>g, <1>z DEF PhaseInv, DataInv
<1>9. ObjectIntegrity'
  BY <1>a, <1>b, <1>e, <1>f, <1>g, <1>z DEF ObjectIntegrity, DataInv, Total, Covers
<1>10. NoUploadLeftBehind'
  BY <1>a, <1>b, <1>e, <1>f, <1>g, <1>z DEF NoUploadLeftBehind, DataInv
<1> QED BY <1>1, <1>2, <1>3, <1>4, <1>5, <1>6, <1>7, <1>8, <1>9, <1>10

\* A thread sends what its buffer holds, which DataInv says is its own part.
LEMMA UploadPartPreserves ==
  ASSUME TypeOK, IInv, NEW i \in DOMAIN inflight, NEW reply \in {"ok", "refused", "lost", "late", "noid"}, UploadPart(i, reply)
  PROVE  TypeOK' /\ IInv'
<1> USE DEF IInv
<1> DEFINE v == [inflight[i] EXCEPT !.future = IF reply = "ok" THEN "ok" ELSE "err",
                    !.etag = IF reply = "ok" THEN buf_pool[inflight[i].buf] ELSE NoChunk]
<1>a. i \in 1 .. Len(inflight) /\ Len(inflight) \in Nat /\ inflight[i] \in Upload
      /\ inflight \in Seq(Upload)
  BY EmptyFacts DEF TypeOK, ReaderTypeOK
<1>b. /\ inflight[i].future = "running" /\ inflight' = [inflight EXCEPT ![i] = v]
      /\ inflight[i].part_number \in 1 .. Len(chunks)
      /\ buf_pool[inflight[i].buf] = chunks[inflight[i].part_number]
  BY <1>a DEF UploadPart, DataInv
<1>c. buf_pool[inflight[i].buf] \in Chunk
  BY <1>b, EmptyFacts DEF TypeOK, ReaderTypeOK
<1>d. /\ v \in Upload
      /\ v.part_number = inflight[i].part_number /\ v.buf = inflight[i].buf
      /\ v.id = inflight[i].id /\ v.future = (IF reply = "ok" THEN "ok" ELSE "err")
      /\ v.etag = (IF reply = "ok" THEN buf_pool[inflight[i].buf] ELSE NoChunk)
  BY <1>a, <1>c DEF Upload, NoChunk, Chunk
<1> HIDE DEF v
<1>e. /\ inflight' \in Seq(Upload) /\ Len(inflight') = Len(inflight)
      /\ inflight'[i] = v
      /\ \A j \in 1 .. Len(inflight) : j # i => inflight'[j] = inflight[j]
  BY <1>a, <1>b, <1>d, ExceptFacts
<1>f. \A j \in 1 .. Len(inflight) : /\ inflight'[j].part_number = inflight[j].part_number
                                   /\ inflight'[j].buf = inflight[j].buf
  BY <1>d, <1>e
<1>g. inflight' # <<>> /\ inflight # <<>>
  BY <1>a, <1>e, EmptyFacts
<1>z. /\ inflight[i].part_number <= kMaxPartNumber
      /\ (stored' = stored \/ stored' = [stored EXCEPT ![inflight[i].part_number] = buf_pool[inflight[i].buf]])
      /\ UNCHANGED <<upload, object, late, leaked, readerVars, pc, result, poolVars, parts,
                     upload_id, errVars>>
  BY DEF UploadPart, ServePart, Valid, PartNumbers
<1>1. TypeOK'
  <2>1. stored' \in [PartNumbers -> Chunk]
    BY <1>b, <1>c, <1>z DEF TypeOK, ReaderTypeOK, StoreTypeOK
  <2>2. StoreTypeOK' /\ ReaderTypeOK'
    BY <1>z, <2>1 DEF TypeOK, StoreTypeOK, ReaderTypeOK
  <2>3. UNCHANGED <<pc, result, max_inflight, buf_pool, buf_idx, parts, upload_id, first_err,
                    cancelled, abort_failed>>
    BY <1>z
  <2> HIDE DEF IInv
  <2> QED BY <1>e, <2>2, <2>3 DEF TypeOK
<1>2. StartInv'
  BY <1>a, <1>b, <1>e, <1>f, <1>g, <1>z DEF StartInv, DataInv
<1>3. RingInv'
  <2>1. ASSUME NEW j \in 1 .. Len(inflight')
        PROVE  inflight'[j].buf = Behind(Len(inflight) - j + 1)'
    <3>1. inflight'[j].buf = Behind(Len(inflight) - j + 1)
      BY <1>e, <1>f DEF RingInv
    <3> QED BY <1>e, <1>z, <3>1 DEF Behind
  <2> QED BY <1>e, <1>z, <2>1 DEF RingInv
<1>4. DataInv'
  <2>1. ASSUME NEW j \in 1 .. Len(inflight')
        PROVE  /\ inflight'[j].part_number \in 1 .. Len(chunks)
               /\ inflight'[j].future = "running" =>
                    buf_pool[inflight'[j].buf] = chunks[inflight'[j].part_number]
               /\ inflight'[j].future = "ok" =>
                    /\ inflight'[j].part_number <= kMaxPartNumber
                    /\ inflight'[j].etag = chunks[inflight'[j].part_number]
    <3>1. CASE j # i
      BY <1>e, <3>1 DEF DataInv
    <3>2. CASE j = i
      BY <1>b, <1>d, <1>e, <1>z, <3>2
    <3> QED BY <3>1, <3>2
  <2> QED BY <1>e, <1>z, <2>1 DEF DataInv
<1>5. OrderInv'
  <2>1. /\ Len(inflight') = Len(inflight)
        /\ \A j \in 1 .. Len(inflight) : inflight'[j].part_number = inflight[j].part_number
    BY <1>e, <1>f
  <2>2. UNCHANGED <<pc, first_err, parts, chunks, part_number>>
    BY <1>z
  <2> QED BY <2>1, <2>2 DEF OrderInv
<1>6. CutInv'
  BY <1>a, <1>b, <1>e, <1>f, <1>g, <1>z DEF CutInv, Contiguous, DataInv, Carry, TypeOK, ReaderTypeOK
<1>7. SizeInv'
  BY <1>a, <1>b, <1>e, <1>f, <1>g, <1>z DEF SizeInv, DataInv, Total
<1>8. PhaseInv'
  BY <1>a, <1>b, <1>e, <1>f, <1>g, <1>z DEF PhaseInv, DataInv
<1>9. ObjectIntegrity'
  BY <1>a, <1>b, <1>e, <1>f, <1>g, <1>z DEF ObjectIntegrity, DataInv, Total, Covers
<1>10. NoUploadLeftBehind'
  BY <1>a, <1>b, <1>e, <1>f, <1>g, <1>z DEF NoUploadLeftBehind, DataInv
<1> QED BY <1>1, <1>2, <1>3, <1>4, <1>5, <1>6, <1>7, <1>8, <1>9, <1>10

\* A delayed request lands.
LEMMA NetworkPreserves ==
  ASSUME TypeOK, IInv, Network
  PROVE  TypeOK' /\ IInv'
<1> USE DEF IInv
<1>1. TypeOK'
  <2>1. StoreTypeOK'
    BY EmptyFacts DEF Network, ServeLate, TypeOK, StoreTypeOK
  <2>2. ReaderTypeOK' /\ UNCHANGED callVars
    BY DEF Network, TypeOK, ReaderTypeOK
  <2> HIDE DEF IInv
  <2> QED BY <2>1, <2>2 DEF TypeOK, callVars, poolVars, errVars
<1>2. StartInv'
  BY DEF Network, StartInv
<1>3. RingInv'
  BY DEF Network, ServeLate, RingInv, Behind, TypeOK, ReaderTypeOK, StoreTypeOK, Upload, Chunk
<1>4. DataInv'
  BY DEF Network, ServeLate, DataInv, TypeOK, ReaderTypeOK, StoreTypeOK, Upload, Chunk
<1>5. OrderInv'
  BY DEF Network, ServeLate, OrderInv, TypeOK, ReaderTypeOK, StoreTypeOK, Upload, Chunk
<1>6. CutInv'
  BY DEF Network, ServeLate, CutInv, Contiguous, Carry, TypeOK, ReaderTypeOK, StoreTypeOK, Upload, Chunk
<1>7. SizeInv'
  BY DEF Network, ServeLate, SizeInv, Total, TypeOK, ReaderTypeOK, StoreTypeOK, Upload, Chunk
<1>8. PhaseInv'
  BY DEF Network, ServeLate, PhaseInv, TypeOK, ReaderTypeOK, StoreTypeOK, Upload, Chunk
<1>9. ObjectIntegrity'
  BY DEF Network, ServeLate, ObjectIntegrity, Covers, Total, TypeOK, ReaderTypeOK, StoreTypeOK, Upload, Chunk
<1>10. NoUploadLeftBehind'
  BY DEF Network, ServeLate, NoUploadLeftBehind, TypeOK, ReaderTypeOK, StoreTypeOK, Upload, Chunk
<1> QED BY <1>1, <1>2, <1>3, <1>4, <1>5, <1>6, <1>7, <1>8, <1>9, <1>10

\* Reading a part into the buffer at buf_idx.  The ring has room, so no thread
\* reads that buffer; SizeInv and CutInv move on by the bytes read.
LEMMA ReadPreserves ==
  ASSUME TypeOK, IInv, pc = "read", NEW n \in 0 .. Demand, Read(n)
  PROVE  TypeOK' /\ IInv'
<1> USE DEF IInv
<1> DEFINE ck == ChunkRead(n)
           ok == ReadOk(n)
<1>a. /\ first_err = FALSE /\ stop = FALSE /\ cancelled = FALSE
      /\ part_number = Len(chunks) + 1 /\ Len(chunks) \in Nat /\ chunks \in Seq(Chunk)
      /\ part_count # 1 /\ ((part_count = None) <=> (object_size = None))
      /\ object = <<>> /\ late = <<>> /\ result = "pending" /\ upload # "aborted"
      /\ upload_id \in BOOLEAN /\ Len(inflight) < max_inflight
  BY EmptyFacts DEF PhaseInv, SizeInv, OrderInv, RingInv, TypeOK, ReaderTypeOK
<1>b. /\ UNCHANGED <<storeVars, inputVars, part_number, max_inflight, buf_idx, inflight, parts,
                     upload_id, cancelled, abort_failed, result>>
      /\ pos' = pos + n
      /\ first_err' = ~ok
      /\ buf_pool' = [buf_pool EXCEPT ![buf_idx] = ck]
      /\ chunks' = (IF ok THEN Append(chunks, ck) ELSE chunks)
      /\ uploaded_size' = (IF ok THEN uploaded_size + part_size' ELSE uploaded_size)
      /\ pc' = (IF ~ok THEN "drain" ELSE IF part_count' = 1 THEN "single"
                ELSE IF upload_id THEN "dispatch" ELSE "create")
      /\ ok \in BOOLEAN
  BY DEF Read, read_part_data, ReadOk
<1>c. /\ ReaderTypeOK /\ Contiguous /\ Remaining /\ read_part_data(n)
      /\ n \in 0 .. Demand /\ ~stop /\ part_number = Len(chunks) + 1
  BY <1>a DEF TypeOK, CutInv, SizeInv, Remaining, Read
<1>d. /\ ReaderTypeOK' /\ ck \in Chunk
      /\ ok => /\ chunks' \in Seq(Chunk) /\ chunks' # <<>>
               /\ Len(chunks') = Len(chunks) + 1
               /\ \A i \in 1 .. Len(chunks) : chunks'[i] = chunks[i]
               /\ chunks'[Len(chunks) + 1] = ck
  BY <1>c, ReadKeepsTypes
<1>e. /\ one_byte' => pos' >= 1
      /\ ok => Contiguous'
  BY <1>c, ReadIsContiguous
<1>f. ok => /\ Remaining'
            /\ part_count' = 1 => stop' /\ Len(chunks) = 0
  BY <1>a, <1>c, ReadLeavesTheRest
<1>g. ~ok => part_count' = part_count /\ part_count # None
  <2>1. part_count = None => ok
    BY DEF ReadOk
  <2>2. part_count # None => part_count' = part_count
    BY <1>c, KnownRead
  <2> QED BY <2>1, <2>2
<1> HIDE DEF ck, ok
<1>1. TypeOK'
  <2>1. buf_pool' \in [0 .. max_inflight' - 1 -> Chunk]
    BY <1>b, <1>d DEF TypeOK
  <2>2. pc' \in Labels
    BY <1>b DEF Labels
  <2>3. first_err' \in BOOLEAN
    BY <1>b
  <2> QED BY <1>b, <1>d, <2>1, <2>2, <2>3 DEF TypeOK, StoreTypeOK
<1>2. StartInv'
  BY <1>b DEF StartInv
<1>3. RingInv'
  BY <1>a, <1>b DEF RingInv, Behind
<1>4. DataInv'
  <2>1. ok => chunks' # <<>> /\ buf_pool'[buf_idx'] = chunks'[Len(chunks')]
    BY <1>a, <1>b, <1>d DEF TypeOK, ReaderTypeOK
  <2>2. ASSUME NEW i \in 1 .. Len(inflight')
        PROVE  /\ inflight'[i].part_number \in 1 .. Len(chunks')
               /\ inflight'[i].future = "running" =>
                    buf_pool'[inflight'[i].buf] = chunks'[inflight'[i].part_number]
               /\ inflight'[i].future = "ok" =>
                    /\ inflight'[i].part_number <= kMaxPartNumber
                    /\ inflight'[i].etag = chunks'[inflight'[i].part_number]
    <3>1. i \in 1 .. Len(inflight) /\ inflight' = inflight /\ Len(inflight) \in Nat
      BY <1>b, EmptyFacts DEF TypeOK, ReaderTypeOK
    <3>2. inflight[i].buf # buf_idx
      <4>1. inflight[i].buf = Behind(Len(inflight) - i + 1)
        BY <3>1 DEF RingInv
      <4>2. Len(inflight) - i + 1 \in 1 .. max_inflight - 1 /\ buf_idx \in Nat /\ max_inflight \in Nat
        BY <1>a, <3>1 DEF TypeOK, ReaderTypeOK
      <4> QED BY <4>1, <4>2 DEF Behind
    <3>3. buf_pool'[inflight[i].buf] = buf_pool[inflight[i].buf]
      BY <1>b, <3>2 DEF TypeOK, ReaderTypeOK
    <3>4. /\ inflight[i].part_number \in 1 .. Len(chunks)
          /\ chunks'[inflight[i].part_number] = chunks[inflight[i].part_number]
          /\ Len(chunks') = Len(chunks) \/ Len(chunks') = Len(chunks) + 1
      BY <1>b, <1>d, <3>1 DEF DataInv
    <3> QED BY <1>a, <3>1, <3>3, <3>4 DEF DataInv
  <2>3. pc' \in {"single", "create", "dispatch"} => ok
    BY <1>b
  <2> QED BY <2>1, <2>2, <2>3 DEF DataInv
<1>5. OrderInv'
  <2>1. CASE ~ok
    BY <1>b, <2>1 DEF OrderInv
  <2>2. CASE ok
    <3>1. /\ Len(parts) + Len(inflight) = Len(chunks)
          /\ \A i \in 1 .. Len(parts) : parts[i].number = i /\ parts[i].etag = chunks[i]
          /\ \A i \in 1 .. Len(inflight) : inflight[i].part_number = Len(parts) + i
          /\ Len(parts) \in Nat /\ Len(inflight) \in Nat
      BY <1>a, EmptyFacts DEF OrderInv, TypeOK, ReaderTypeOK
    <3>2. ASSUME NEW i \in 1 .. Len(parts)
          PROVE  parts[i].number = i /\ parts[i].etag = chunks'[i]
      <4>1. i \in 1 .. Len(chunks)
        BY <1>a, <3>1
      <4> QED BY <1>d, <2>2, <3>1, <4>1
    <3>3. Len(parts) + Len(inflight) = Len(chunks') - 1
      BY <1>a, <1>d, <2>2, <3>1
    <3>4. pc' \in {"single", "create", "dispatch"} /\ part_number' = Len(chunks')
      BY <1>a, <1>b, <1>d, <2>2
    <3>5. parts' = parts /\ inflight' = inflight
      BY <1>b
    <3> QED BY <3>1, <3>2, <3>3, <3>4, <3>5 DEF OrderInv
  <2> QED BY <2>1, <2>2
<1>6. CutInv'
  BY <1>b, <1>e DEF CutInv
<1>7. SizeInv'
  <2>1. pc' \notin {"wait", "read", "start", "done"} /\ UNCHANGED object_size
    BY <1>b
  <2>2. CASE ok
    BY <1>b, <1>f, <2>1, <2>2 DEF SizeInv, Remaining
  <2>3. CASE ~ok
    BY <1>a, <1>b, <1>g, <2>1, <2>3 DEF SizeInv
  <2> QED BY <2>2, <2>3
<1>8. PhaseInv'
  <2>1. ok => chunks' # <<>>
    BY <1>d
  <2>2. pc' = "single" => chunks = <<>> /\ stop' /\ Len(chunks') = 1
    <3>1. ASSUME pc' = "single"
          PROVE  chunks = <<>> /\ stop' /\ Len(chunks') = 1
      <4>1. ok /\ part_count' = 1
        BY <1>b, <3>1
      <4>2. Len(chunks) = 0
        BY <1>f, <4>1
      <4> QED BY <1>a, <1>d, <1>f, <4>1, <4>2, EmptyFacts
    <3> QED BY <3>1
  <2>3. ~ok => chunks' = chunks
    BY <1>b
  <2> QED BY <1>a, <1>b, <2>1, <2>2, <2>3 DEF PhaseInv
<1>9. ObjectIntegrity'
  BY <1>a, <1>b DEF ObjectIntegrity
<1>10. NoUploadLeftBehind'
  BY <1>a, <1>b DEF NoUploadLeftBehind
<1> QED BY <1>1, <1>2, <1>3, <1>4, <1>5, <1>6, <1>7, <1>8, <1>9, <1>10

\* The initial states satisfy the invariant.
LEMMA InitEstablishes == Init => TypeOK /\ IInv
<1> SUFFICES ASSUME Init PROVE TypeOK /\ IInv
  OBVIOUS
<1>1. PICK osize \in ObjectSizes, len \in StreamLengths :
        CalcPartInfo(osize, PartSizeArg).part_count # 1 /\ ReadInit(osize, len)
  BY DEF Init
<1>2. /\ object_size \in Nat \cup {None} /\ stream_len \in Nat
      /\ CalcPartInfo(object_size, PartSizeArg).part_count # 1
      /\ pos = 0 /\ bad = FALSE /\ part_size = 0 /\ part_count = None /\ part_number = 0
      /\ uploaded_size = 0 /\ one_byte = FALSE /\ stop = FALSE /\ chunks = <<>>
  BY <1>1, UploadAssumption DEF ReadInit
<1>3. /\ upload = "none" /\ stored = [n \in PartNumbers |-> NoChunk]
      /\ object = <<>> /\ late = <<>> /\ leaked = 0
  BY DEF Init, StoreInit
<1>4. /\ pc = "start" /\ result = "pending" /\ max_inflight = max_inflight_parts
      /\ buf_pool = [b \in 0 .. max_inflight_parts - 1 |-> NoChunk] /\ buf_idx = 0
      /\ inflight = <<>> /\ parts = <<>> /\ upload_id = FALSE /\ first_err = FALSE
      /\ cancelled = FALSE /\ abort_failed = FALSE
  BY DEF Init
<1>5. NoChunk \in Chunk
  BY DEF NoChunk, Chunk
<1>6. TypeOK
  <2>1. StoreTypeOK
    BY <1>3, <1>5 DEF StoreTypeOK
  <2>2. max_inflight \in Nat \ {0} /\ buf_pool \in [0 .. max_inflight - 1 -> Chunk]
        /\ buf_idx \in 0 .. max_inflight - 1
    BY <1>4, <1>5, UploadAssumption
  <2>3. chunks \in Seq(Chunk) /\ inflight \in Seq(Upload)
        /\ parts \in Seq([number : PartNumbers, etag : Chunk])
    BY <1>2, <1>4
  <2>4. pos \in 0 .. stream_len /\ part_size \in Nat /\ part_number \in Nat /\ uploaded_size \in Nat
        /\ part_count \in Nat \cup {None}
    BY <1>2
  <2>5. pc \in Labels /\ result \in {"pending", "ok", "err", "threw"}
    BY <1>4 DEF Labels
  <2> QED BY <1>2, <1>4, <2>1, <2>2, <2>3, <2>4, <2>5 DEF TypeOK, ReaderTypeOK
<1>7. Len(chunks) = 0 /\ Len(inflight) = 0 /\ Len(parts) = 0
  BY <1>2, <1>4
<1>8. StartInv /\ RingInv /\ DataInv /\ OrderInv
  BY <1>2, <1>4, <1>6, <1>7 DEF StartInv, RingInv, DataInv, OrderInv, TypeOK, ReaderTypeOK
<1>9. CutInv /\ SizeInv
  BY <1>2, <1>4, <1>7 DEF CutInv, Contiguous, SizeInv, Carry
<1>10. PhaseInv /\ ObjectIntegrity /\ NoUploadLeftBehind
  BY <1>2, <1>3, <1>4 DEF PhaseInv, ObjectIntegrity, NoUploadLeftBehind
<1> QED BY <1>6, <1>8, <1>9, <1>10 DEF IInv

\* Every step, of the caller, a thread or the network, preserves the invariant.
LEMMA NextPreserves == TypeOK /\ IInv /\ [Next]_vars => TypeOK' /\ IInv'
<1> SUFFICES ASSUME TypeOK, IInv, [Next]_vars PROVE TypeOK' /\ IInv'
  OBVIOUS
<1>1. CASE Start
  BY <1>1, StartPreserves
<1>2. CASE LoopHead
  BY <1>2, LoopHeadPreserves
<1>3. CASE WaitFailed
  BY <1>3, WaitFailedPreserves
<1>4. CASE \E p \in Progress : WaitDone(p)
  BY <1>4, WaitDonePreserves
<1>5. CASE pc = "read" /\ \E n \in 0 .. Demand : Read(n)
  BY <1>5, ReadPreserves
<1>6. CASE \E reply \in {"ok", "refused", "lost", "late"} : PutSingle(reply)
  BY <1>6, PutSinglePreserves
<1>7. CASE \E reply \in {"ok", "refused", "lost", "noid"} : CreateMultipartUpload(reply)
  BY <1>7, CreateMultipartUploadPreserves
<1>8. CASE Dispatch
  BY <1>8, DispatchPreserves
<1>9. CASE DispatchFailed
  BY <1>9, DispatchFailedPreserves
<1>10. CASE DrainFailed
  BY <1>10, DrainFailedPreserves
<1>11. CASE \E p \in Progress : DrainDone(p)
  BY <1>11, DrainDonePreserves
<1>12. CASE DrainEnd
  BY <1>12, DrainEndPreserves
<1>13. CASE \E reply \in {"ok", "refused", "lost", "late"}, p \in Progress :
              CompleteMultipartUpload(reply, p)
  BY <1>13, CompleteMultipartUploadPreserves
<1>14. CASE \E reply \in {"ok", "refused", "lost"} : AbortMultipartUpload(reply)
  BY <1>14, AbortMultipartUploadPreserves
<1>15. CASE Unwind
  BY <1>15, UnwindPreserves
<1>16. CASE Threads
  BY <1>16, UploadPartPreserves, UploadPartInvalidPreserves DEF Threads
<1>17. CASE Network
  BY <1>17, NetworkPreserves
<1>18. CASE UNCHANGED vars
  <2>1. TypeOK'
    BY <1>18 DEF TypeOK, ReaderTypeOK, StoreTypeOK
  <2>2. StartInv' /\ RingInv' /\ DataInv' /\ OrderInv'
    BY <1>18 DEF IInv, StartInv, RingInv, Behind, DataInv, OrderInv
  <2>3. CutInv' /\ SizeInv' /\ PhaseInv' /\ ObjectIntegrity' /\ NoUploadLeftBehind'
    BY <1>18 DEF IInv, CutInv, Contiguous, Carry, SizeInv, Total, PhaseInv, ObjectIntegrity, Covers,
                 NoUploadLeftBehind
  <2> QED BY <2>1, <2>2, <2>3 DEF IInv
<1> QED
  BY <1>1, <1>2, <1>3, <1>4, <1>5, <1>6, <1>7, <1>8, <1>9, <1>10, <1>11, <1>12, <1>13,
     <1>14, <1>15, <1>16, <1>17, <1>18 DEF Next, Caller, Ended

\* Every variable of the call and of the server keeps its type; in particular
\* buf_idx never leaves the ring and part numbers of listed parts are valid.
THEOREM TypeCorrect == Spec => []TypeOK
<1>1. Init => TypeOK /\ IInv
  BY InitEstablishes
<1>2. TypeOK /\ IInv /\ [Next]_vars => TypeOK' /\ IInv'
  BY NextPreserves
<1> QED BY <1>1, <1>2, PTL DEF Spec

\* The inductive invariant holds in every reachable state.
THEOREM Inductive == Spec => []IInv
<1>1. Init => TypeOK /\ IInv
  BY InitEstablishes
<1>2. TypeOK /\ IInv /\ [Next]_vars => TypeOK' /\ IInv'
  BY NextPreserves
<1> QED BY <1>1, <1>2, PTL DEF Spec

\* With any number of buffers and threads, a running upload always finds its own
\* part in its buffer: waiting for the oldest upload before refilling
\* buf_pool[buf_idx] is enough.
THEOREM BuffersNeverTorn == Spec => []BufferIntact
<1>1. IInv => BufferIntact
  BY DEF IInv, DataInv, BufferIntact
<1> QED BY <1>1, Inductive, PTL

\* Whatever fails, is lost or comes late, the key holds either what it held before
\* or the complete object in the stream's order.
THEOREM ObjectAlwaysWhole == Spec => []ObjectIntegrity
<1>1. IInv => ObjectIntegrity
  BY DEF IInv
<1> QED BY <1>1, Inductive, PTL

\* PutObject reports success only when the complete object was stored, and never
\* on a stream shorter than the announced size.
THEOREM SuccessIsReal == Spec => []SuccessMeansStored
<1>1. TypeOK /\ IInv => SuccessMeansStored
  <2> SUFFICES ASSUME TypeOK, IInv, result = "ok"
               PROVE  object # <<>> /\ (object_size # None => stream_len >= object_size)
    BY DEF SuccessMeansStored
  <2>1. object # <<>> /\ stop /\ first_err = FALSE
    BY DEF IInv, PhaseInv, TypeOK, ReaderTypeOK
  <2>2. pos = Total /\ pos \in 0 .. stream_len /\ stream_len \in Nat
    BY <2>1 DEF IInv, SizeInv, TypeOK, ReaderTypeOK
  <2> QED BY <2>1, <2>2 DEF Total
<1> QED BY <1>1, TypeCorrect, Inductive, PTL

\* Once the progress function has asked to stop, the call neither replaces the
\* object nor succeeds.
THEOREM CancelIsHonoured == Spec => []CancelHonoured
<1>1. IInv => CancelHonoured
  BY DEF IInv, PhaseInv, CancelHonoured
<1> QED BY <1>1, Inductive, PTL

\* A call that returns an error has aborted the upload whose id it holds, or the
\* abort itself failed.
THEOREM NothingLeftBehind == Spec => []NoUploadLeftBehind
<1>1. IInv => NoUploadLeftBehind
  BY DEF IInv
<1> QED BY <1>1, Inductive, PTL

\* No thread can still be sending a part when the upload is aborted.
THEOREM AbortOnlyAfterDrain == Spec => []AbortAfterDrain
<1>1. IInv => AbortAfterDrain
  <2> SUFFICES ASSUME IInv, pc = "abort" \/ upload = "aborted"
               PROVE  \A i \in DOMAIN inflight : inflight[i].future # "running"
    BY DEF AbortAfterDrain
  <2>1. inflight = <<>>
    BY DEF IInv, PhaseInv
  <2> QED BY <2>1
<1> QED BY <1>1, Inductive, PTL

----------------------------------------------------------------------------
(* The refinement of AtomicPut.                                             *)

\* A delayed request belongs to a call that fails, or is still going to.
LateInv == late # <<>> => result \in {"pending", "err"}

\* The steps that touch the object, the delayed request or the result.
LEMMA OtherSteps ==
  ASSUME TypeOK, IInv, [Next]_vars
  PROVE  \/ UNCHANGED <<object, late, result>>
         \/ /\ UNCHANGED <<object, late>> /\ result = "pending"
            /\ result' = "err" \/ (result' = "threw" /\ late = <<>>)
         \/ \E reply \in {"ok", "refused", "lost", "late"} : PutSingle(reply)
         \/ \E reply \in {"ok", "refused", "lost", "late"}, p \in Progress :
              CompleteMultipartUpload(reply, p)
         \/ Network
<1>1. /\ result # "pending" <=> pc = "done"
      /\ late # <<>> => pc \in {"abort", "done"}
  BY DEF IInv, PhaseInv
<1>2. CASE Start \/ LoopHead \/ WaitFailed \/ Dispatch \/ DispatchFailed \/ DrainFailed
  BY <1>1, <1>2 DEF Start, LoopHead, WaitFailed, Dispatch, DispatchFailed, DrainFailed
<1>3. CASE \E p \in Progress : WaitDone(p) \/ DrainDone(p)
  BY <1>3 DEF WaitDone, DrainDone
<1>4. CASE pc = "read" /\ \E n \in 0 .. Demand : Read(n)
  BY <1>4 DEF Read, read_part_data
<1>5. CASE \E reply \in {"ok", "refused", "lost", "noid"} : CreateMultipartUpload(reply)
  BY <1>5 DEF CreateMultipartUpload, ServeCreate
<1>6. CASE DrainEnd \/ Unwind
  BY <1>1, <1>6 DEF DrainEnd, Unwind
<1>7. CASE \E reply \in {"ok", "refused", "lost"} : AbortMultipartUpload(reply)
  BY <1>1, <1>7 DEF AbortMultipartUpload, ServeAbort
<1>8. CASE Threads
  BY <1>8 DEF Threads, UploadPartInvalid, UploadPart, ServePart
<1>9. CASE UNCHANGED vars
  BY <1>9
<1> QED BY <1>2, <1>3, <1>4, <1>5, <1>6, <1>7, <1>8, <1>9 DEF Next, Caller, Ended

LEMMA LatePreserves == TypeOK /\ IInv /\ LateInv /\ [Next]_vars => LateInv'
<1> SUFFICES ASSUME TypeOK, IInv, LateInv, [Next]_vars PROVE LateInv'
  OBVIOUS
<1>1. /\ result # "pending" <=> pc = "done"
      /\ late # <<>> => pc \in {"abort", "done"}
  BY DEF IInv, PhaseInv
<1>2. CASE \E reply \in {"ok", "refused", "lost", "late"} : PutSingle(reply)
  BY <1>1, <1>2 DEF PutSingle, ServePut, LateInv
<1>3. CASE \E reply \in {"ok", "refused", "lost", "late"}, p \in Progress :
             CompleteMultipartUpload(reply, p)
  BY <1>1, <1>3 DEF CompleteMultipartUpload, ServeComplete, LateInv
<1>4. CASE Network
  BY <1>4 DEF Network, ServeLate, LateInv
<1> QED BY <1>2, <1>3, <1>4, OtherSteps DEF LateInv

\* What the mapping makes of the object: there is no third case.
Seen == IF object = <<>> THEN "old" ELSE "new"

LEMMA MappedObject ==
  ASSUME ObjectIntegrity
  PROVE  (IF object = <<>> THEN "old" ELSE IF Covers(object, Total) THEN "new" ELSE "broken")
           = Seen
BY DEF ObjectIntegrity, Seen

\* Every step leaves the object and the result alone, or commits the object, or
\* returns.
LEMMA StepsOfAtomicPut ==
  ASSUME TypeOK, IInv, LateInv, [Next]_vars
  PROVE  \/ UNCHANGED <<Seen, result>>
         \/ /\ Seen = "old" /\ Seen' = "new"
            /\ result \in {"pending", "err"} /\ UNCHANGED result
         \/ /\ result = "pending" /\ result' \in {"ok", "err", "threw"}
            /\ Seen' \in {Seen, "new"}
            /\ result' = "ok" => Seen' = "new"
<1>1. /\ result # "pending" <=> pc = "done"
      /\ object # <<>> => pc \in {"abort", "done"}
  BY DEF IInv, PhaseInv
<1>2. CASE UNCHANGED <<object, result>>
  BY <1>2 DEF Seen
<1>3. CASE UNCHANGED object /\ result = "pending" /\ result' \in {"err", "threw"}
  BY <1>3 DEF Seen
<1>4. ASSUME NEW reply \in {"ok", "refused", "lost", "late"}, PutSingle(reply)
      PROVE  /\ result = "pending" /\ result' \in {"ok", "err"}
             /\ Seen' \in {Seen, "new"}
             /\ result' = "ok" => Seen' = "new"
  <2>1. result = "pending" /\ result' = IF reply = "ok" THEN "ok" ELSE "err"
    BY <1>1, <1>4 DEF PutSingle
  <2>2. object' = IF reply \in {"ok", "lost"} THEN <<buf_pool[buf_idx]>> ELSE object
    BY <1>4 DEF PutSingle, ServePut
  <2>3. <<buf_pool[buf_idx]>> # <<>>
    OBVIOUS
  <2> QED BY <2>1, <2>2, <2>3 DEF Seen
<1>5. ASSUME NEW reply \in {"ok", "refused", "lost", "late"}, NEW p \in Progress,
             CompleteMultipartUpload(reply, p)
      PROVE  /\ result = "pending" /\ Seen = "old"
             /\ result' \in {"pending", "ok", "threw"} /\ Seen' \in {"old", "new"}
             /\ result' # "pending" => Seen' = "new"
  <2>1. /\ result = "pending" /\ object = <<>>
        /\ result' = IF reply = "ok" THEN IF p = "throw" THEN "threw" ELSE "ok" ELSE result
    BY <1>1, <1>5 DEF CompleteMultipartUpload
  <2>2. /\ object' = IF reply \in {"ok", "lost"} THEN Assembled(parts) ELSE object
        /\ reply # "refused" => parts # <<>>
    BY <1>5 DEF CompleteMultipartUpload, ServeComplete, Acceptable
  <2>3. parts # <<>> => Assembled(parts) # <<>>
    <3> SUFFICES ASSUME parts # <<>> PROVE Assembled(parts) # <<>>
      OBVIOUS
    <3>1. Len(parts) \in Nat \ {0}
      BY EmptyFacts DEF TypeOK, ReaderTypeOK
    <3>2. 1 \in DOMAIN Assembled(parts)
      BY <3>1 DEF Assembled
    <3> QED BY <3>2
  <2> QED BY <2>1, <2>2, <2>3 DEF Seen
<1>6. CASE Network
  <2>1. late # <<>> /\ object' \in {late, object} /\ UNCHANGED result
    BY <1>6 DEF Network, ServeLate
  <2> QED BY <2>1 DEF Seen, LateInv
<1> QED BY <1>2, <1>3, <1>4, <1>5, <1>6, OtherSteps

LEMMA MapsToAtomicPut ==
  TypeOK /\ IInv /\ IInv' /\ LateInv /\ [Next]_vars => [Atomic!Next]_(Atomic!vars)
<1> SUFFICES ASSUME TypeOK, IInv, IInv', LateInv, [Next]_vars
             PROVE  [Atomic!Next]_(Atomic!vars)
  OBVIOUS
<1>1. (IF object = <<>> THEN "old" ELSE IF Covers(object, Total) THEN "new" ELSE "broken") = Seen
  BY MappedObject DEF IInv
<1>2. (IF object = <<>> THEN "old" ELSE IF Covers(object, Total) THEN "new" ELSE "broken")' = Seen'
  BY DEF IInv, ObjectIntegrity, Seen
<1> QED BY <1>1, <1>2, StepsOfAtomicPut DEF Atomic!Next, Atomic!Commit, Atomic!Return, Atomic!vars

\* PutObject with threads implements the put of one step: whatever is lost, late
\* or fails, the object is the old one until it is the new one as a whole, and
\* success is returned only when it is.
THEOREM ImplementsAtomicPut == Spec => RefinesAtomicPut
<1>1. Init => Atomic!Init /\ LateInv
  BY DEF Init, StoreInit, Atomic!Init, LateInv
<1>2. TypeOK /\ IInv /\ LateInv /\ [Next]_vars => LateInv'
  BY LatePreserves
<1>3. TypeOK /\ IInv /\ IInv' /\ LateInv /\ [Next]_vars => [Atomic!Next]_(Atomic!vars)
  BY MapsToAtomicPut
<1> QED BY <1>1, <1>2, <1>3, TypeCorrect, Inductive, PTL DEF Spec, RefinesAtomicPut, Atomic!Spec
=============================================================================
