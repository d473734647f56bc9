------------------------ MODULE SequentialUploadProofs ------------------------
(***************************************************************************)
(* Proofs, for every part size, object size and stream, that a sequential  *)
(* upload leaves nothing behind when it fails, and that it implements the  *)
(* put of one step.                                                        *)
(*                                                                         *)
(* TypeOK /\ IInv is inductive.  OrderInv follows the bytes from the       *)
(* buffer to the list of parts, CutInv from the stream to the chunks;      *)
(* PhaseInv says that until the call gives up, the upload is open exactly  *)
(* when its id is known, and the key is untouched.                         *)
(***************************************************************************)
EXTENDS SequentialUpload, PartReaderProofs

USE DEF vars, storeVars, readerVars, inputVars, cutVars, callVars, Goto, Return, Fail

\* Until the call gives up, what the reader's lemmas suppose is there.
LEMMA ReaderFacts ==
  ASSUME TypeOK, IInv
  PROVE  /\ ReaderTypeOK
         /\ Len(chunks) \in Nat /\ (chunks = <<>> <=> Len(chunks) = 0)
         /\ pc \notin {"abort", "done"} => Contiguous
         /\ pc \notin {"start", "abort", "done"} => Remaining
BY EmptyFacts DEF TypeOK, ReaderTypeOK, IInv, CutInv

\* The chunks of the last part read: nothing is left, and they cover all of it.
LEMMA AllRead ==
  ASSUME TypeOK, IInv, stop, pc \notin {"start", "abort", "done"}
  PROVE  chunks # <<>> /\ Covers(chunks, Total)
<1>1. Contiguous /\ Remaining
  BY ReaderFacts
<1>2. chunks # <<>> /\ pos = Total /\ ~one_byte
  BY <1>1 DEF Remaining
<1>3. pos \in Nat
  BY DEF TypeOK, ReaderTypeOK
<1>4. pos - Carry = Total
  BY <1>2, <1>3 DEF Carry
<1> QED BY <1>1, <1>2, <1>4 DEF Contiguous, Covers

\* The actions that touch neither the reader nor, before the call gives up, what
\* the invariant says of the parts: only their phase has to be looked at.
LEMMA StartPreserves ==
  ASSUME TypeOK, IInv, Start
  PROVE  TypeOK' /\ IInv'
<1> USE DEF IInv
<1> DEFINE info == CalcPartInfo(object_size, PartSizeArg)
<1>1. /\ info.part_size \in Nat
      /\ info.part_count \in (Nat \ {0}) \cup {None}
      /\ (info.part_count = None) <=> (object_size = None)
      /\ object_size # None => /\ (info.part_count - 1) * info.part_size <= object_size
                               /\ object_size <= info.part_count * info.part_size
  BY InfoFacts, SequentialAssumption DEF TypeOK, ReaderTypeOK
<1>2. /\ pc = "start" /\ part_size' = info.part_size /\ part_count' = info.part_count
      /\ Return("err") \/ Goto("loop")
      /\ UNCHANGED <<storeVars, inputVars, pos, bad, uploaded_size, one_byte,
                     stop, chunks, part_number, buf, parts, upload_id,
                     cancelled, abort_failed>>
  BY DEF Start
<1> HIDE DEF info
<1>3. /\ chunks = <<>> /\ Len(chunks) = 0 /\ pos = 0 /\ uploaded_size = 0 /\ ~one_byte /\ ~stop
      /\ Contiguous
  BY <1>2 DEF CutInv
<1>4. TypeOK'
  BY <1>1, <1>2 DEF TypeOK, ReaderTypeOK, StoreTypeOK, Labels
<1>5. OrderInv'
  BY <1>2, <1>3 DEF OrderInv, Holding
<1>6. CutInv'
  <2>1. Contiguous'
    BY <1>2, <1>3 DEF Contiguous, Carry
  <2>2. Remaining'
    <3>1. ASSUME object_size # None
          PROVE  /\ (part_count' - Len(chunks) - 1) * part_size' <= object_size - uploaded_size
                 /\ object_size - uploaded_size <= (part_count' - Len(chunks)) * part_size'
      <4>1. info.part_count \in Nat /\ object_size \in Nat
        BY <1>1, <3>1 DEF TypeOK, ReaderTypeOK
      <4>2. /\ part_count' - Len(chunks) - 1 = info.part_count - 1
            /\ part_count' - Len(chunks) = info.part_count
            /\ object_size - uploaded_size = object_size
        BY <1>2, <1>3, <4>1
      <4> QED BY <1>1, <1>2, <3>1, <4>2
    <3> QED BY <1>1, <1>2, <1>3, <3>1 DEF Remaining
  <2> QED BY <1>2, <2>1, <2>2 DEF CutInv
<1>7. PhaseInv' /\ ObjectInv' /\ FailureLeavesNothing'
  BY <1>2, <1>3 DEF PhaseInv, ObjectInv, FailureLeavesNothing, TypeOK
<1> QED BY <1>4, <1>5, <1>6, <1>7

\* The head of the loop counts the part about to be read.
LEMMA LoopHeadPreserves ==
  ASSUME TypeOK, IInv, LoopHead
  PROVE  TypeOK' /\ IInv'
<1> USE DEF IInv
<1>1. TypeOK'
  BY DEF LoopHead, TypeOK, ReaderTypeOK, StoreTypeOK, Labels
<1>2. OrderInv'
  BY ReaderFacts DEF LoopHead, OrderInv, Holding, TypeOK
<1>3. CutInv'
  BY DEF LoopHead, CutInv, Contiguous, Remaining, Carry, Total
<1>4. PhaseInv' /\ ObjectInv' /\ FailureLeavesNothing'
  BY DEF LoopHead, PhaseInv, ObjectInv, Covers, Total, FailureLeavesNothing, TypeOK, ReaderTypeOK
<1> QED BY <1>1, <1>2, <1>3, <1>4

\* Reading a part: what was cut stays contiguous, and the first part may turn out
\* to be the only one.
LEMMA ReadPreserves ==
  ASSUME TypeOK, IInv, pc = "read", NEW n \in 0 .. Demand, Read(n)
  PROVE  TypeOK' /\ IInv'
<1> USE DEF IInv
<1> DEFINE ck == ChunkRead(n)
           ok == ReadOk(n)
<1>1. /\ ~stop /\ part_number = Len(chunks) + 1 /\ Len(chunks) \in Nat
      /\ Len(parts) = Len(chunks)
      /\ \A i \in 1 .. Len(parts) : parts[i].number = i /\ parts[i].etag = chunks[i]
      /\ object = <<>> /\ late = <<>> /\ ~cancelled
      /\ upload = (IF upload_id THEN "open" ELSE "none") /\ result = "pending"
      /\ Len(chunks) = 0 => ~upload_id
      /\ part_count = 1 => Len(chunks) = 0
  BY ReaderFacts DEF PhaseInv, OrderInv, CutInv, Holding, TypeOK
<1>2. /\ UNCHANGED <<storeVars, inputVars, part_number, parts, upload_id, cancelled, abort_failed>>
      /\ buf' = ck /\ result' = (IF ~ok /\ ~upload_id THEN "err" ELSE result)
      /\ pc' = (IF ~ok THEN IF upload_id THEN "abort" ELSE "done"
                ELSE IF part_count' = 1 THEN "single"
                ELSE IF upload_id THEN "upload" ELSE "create")
      /\ ok \in BOOLEAN
  BY DEF Read, read_part_data, ReadOk
<1>3. ReaderTypeOK /\ Contiguous /\ Remaining /\ read_part_data(n) /\ n \in 0 .. Demand
  BY ReaderFacts DEF Read
<1>4. /\ ReaderTypeOK' /\ ck \in Chunk
      /\ ok => /\ chunks' \in Seq(Chunk) /\ chunks' # <<>>
               /\ Len(chunks') = Len(chunks) + 1
               /\ \A i \in 1 .. Len(chunks) : chunks'[i] = chunks[i]
               /\ chunks'[Len(chunks) + 1] = ck
  BY <1>1, <1>3, ReadKeepsTypes
<1>5. ok => Contiguous'
  BY <1>1, <1>3, ReadIsContiguous
<1>6. ok => /\ Remaining'
            /\ part_count' = 1 => stop' /\ Len(chunks) = 0
  <2>1. ASSUME ok
        PROVE  /\ Remaining'
               /\ part_count' = 1 /\ part_count # 1 => stop' /\ Len(chunks) = 0
               /\ part_count = 1 /\ Len(chunks) = 0 => stop'
    BY <1>1, <1>3, <2>1, ReadLeavesTheRest
  <2> QED BY <1>1, <2>1
<1> HIDE DEF ck, ok
<1>7. TypeOK'
  BY <1>2, <1>4 DEF TypeOK, StoreTypeOK, Labels
<1>8. OrderInv'
  <2>1. CASE ok
    <3>1. \A i \in 1 .. Len(parts) : chunks'[i] = chunks[i]
      BY <1>1, <1>4, <2>1
    <3> QED BY <1>1, <1>2, <1>4, <2>1, <3>1 DEF OrderInv, Holding
  <2>2. CASE ~ok
    BY <1>2, <2>2 DEF OrderInv
  <2> QED BY <2>1, <2>2
<1>9. CutInv'
  BY <1>2, <1>5, <1>6 DEF CutInv
<1>10. PhaseInv'
  <2>1. pc' = "single" => stop' /\ Len(chunks') = 1 /\ ~upload_id'
    <3>1. pc' = "single" => ok /\ part_count' = 1
      BY <1>2
    <3>2. ok /\ part_count' = 1 => stop' /\ Len(chunks) = 0
      BY <1>6
    <3>3. ok => Len(chunks') = Len(chunks) + 1
      BY <1>4
    <3>4. Len(chunks) = 0 => ~upload_id'
      BY <1>1, <1>2
    <3>5. pc' = "single" => Len(chunks) = 0 /\ Len(chunks') = Len(chunks) + 1
      BY <3>1, <3>2, <3>3, Zenon
    <3>6. pc' = "single" => Len(chunks') = 1
      BY <3>5
    <3> QED BY <3>1, <3>2, <3>4, <3>5, <3>6, Zenon
  <2>2. pc' \notin {"abort", "done"} => chunks' # <<>>
    BY <1>2, <1>4
  <2>3. result' # "pending" <=> pc' = "done"
    BY <1>1, <1>2
  <2>4. pc' \notin {"read", "complete"} /\ (pc' = "create" => ~upload_id')
    BY <1>2
  <2> QED BY <1>1, <1>2, <2>1, <2>2, <2>3, <2>4 DEF PhaseInv
<1>11. ObjectInv' /\ FailureLeavesNothing'
  BY <1>1, <1>2 DEF ObjectInv, FailureLeavesNothing
<1> QED BY <1>7, <1>8, <1>9, <1>10, <1>11

\* The single PUT: what it stores is the one part read, which is everything.
LEMMA PutSinglePreserves ==
  ASSUME TypeOK, IInv, NEW reply \in {"ok", "refused", "lost", "late"}, PutSingle(reply)
  PROVE  TypeOK' /\ IInv'
<1> USE DEF IInv
<1>1. /\ pc = "single" /\ pc' = "done" /\ result' = (IF reply = "ok" THEN "ok" ELSE "err")
      /\ object' = (IF reply \in {"ok", "lost"} THEN <<buf>> ELSE object)
      /\ late' = (IF reply = "late" THEN <<buf>> ELSE late)
      /\ UNCHANGED <<upload, stored, leaked, readerVars, buf, parts, upload_id, cancelled,
                     abort_failed>>
  BY DEF PutSingle, ServePut
<1>2. /\ object = <<>> /\ late = <<>> /\ ~cancelled /\ stop /\ Len(chunks) = 1
      /\ upload = "none" /\ buf = chunks[Len(chunks)] /\ buf \in Chunk
  BY <1>1 DEF PhaseInv, OrderInv, Holding, TypeOK
<1>3. <<buf>> \in Seq(Chunk) /\ <<buf>> # <<>> /\ Covers(<<buf>>, Total)
  <2>1. chunks[1].lo = 0 /\ chunks[1].hi = Total
    BY <1>1, <1>2, AllRead DEF Covers
  <2>2. /\ <<buf>> \in Seq(Chunk) /\ <<buf>> # <<>> /\ Len(<<buf>>) = 1 /\ <<buf>>[1] = chunks[1]
        /\ 1 .. Len(<<buf>>) - 1 = {}
    BY <1>2
  <2> QED BY <2>1, <2>2 DEF Covers
<1>4. Total' = Total
  BY <1>1 DEF Total
<1>5. TypeOK'
  BY <1>1, <1>3 DEF TypeOK, ReaderTypeOK, StoreTypeOK, Labels
<1>6. OrderInv' /\ CutInv'
  BY <1>1 DEF OrderInv, CutInv
<1>7. PhaseInv' /\ FailureLeavesNothing'
  BY <1>1, <1>2, <1>3 DEF PhaseInv, FailureLeavesNothing
<1>8. ObjectInv'
  BY <1>1, <1>2, <1>3, <1>4 DEF ObjectInv, Covers
<1> QED BY <1>5, <1>6, <1>7, <1>8

\* A step that leaves the reader and the parts alone, between two places before
\* the end that hold, or do not hold, a part.
LEMMA CutUntouched ==
  ASSUME TypeOK, IInv, UNCHANGED <<readerVars, buf, parts>>, pc # "start", pc \notin {"abort", "done"},
         pc' \notin {"start", "read", "abort", "done"},
         pc # "read", Holding' <=> Holding, pc' = "progress" => part_number <= kMaxPartNumber
  PROVE  OrderInv' /\ CutInv'
<1> USE DEF IInv
<1>1. OrderInv'
  BY DEF OrderInv, Holding
<1>2. Contiguous' /\ Remaining'
  BY ReaderFacts DEF Contiguous, Remaining, Carry, Total
<1>3. CutInv'
  BY <1>2 DEF CutInv
<1> QED BY <1>1, <1>3

\* Opening the upload: from now on its id is known, unless the answer was lost or
\* did not hold it.
LEMMA CreateMultipartUploadPreserves ==
  ASSUME TypeOK, IInv, NEW reply \in {"ok", "refused", "lost", "noid"}, CreateMultipartUpload(reply)
  PROVE  TypeOK' /\ IInv'
<1> USE DEF IInv
<1>1. /\ pc = "create" /\ upload_id' = (reply = "ok")
      /\ pc' = (IF reply \in {"ok", "noid"} THEN "upload" ELSE "done")
      /\ result' = (IF reply \in {"ok", "noid"} THEN result ELSE "err")
      /\ upload' = (IF reply = "ok" THEN "open" ELSE upload)
      /\ leaked' = (IF reply \in {"lost", "noid"} THEN leaked + 1 ELSE leaked)
      /\ UNCHANGED <<stored, object, late, readerVars, buf, parts, cancelled, abort_failed>>
  BY DEF CreateMultipartUpload, ServeCreate
<1>2. /\ object = <<>> /\ late = <<>> /\ ~cancelled /\ upload = "none" /\ result = "pending"
      /\ Len(chunks) \in Nat /\ Len(parts) \in Nat /\ Len(parts) = Len(chunks) - 1
  BY <1>1, EmptyFacts, ReaderFacts DEF PhaseInv, OrderInv, Holding, TypeOK
<1>3. chunks # <<>>
  BY <1>2
<1>4. TypeOK'
  BY <1>1 DEF TypeOK, ReaderTypeOK, StoreTypeOK, Labels
<1>5. OrderInv' /\ CutInv'
  <2>1. CASE pc' = "upload"
    BY <1>1, <2>1, CutUntouched DEF Holding
  <2>2. CASE pc' = "done"
    BY <2>2 DEF OrderInv, CutInv
  <2> QED BY <1>1, <2>1, <2>2
<1>6. PhaseInv'
  BY <1>1, <1>2, <1>3 DEF PhaseInv
<1>7. ObjectInv' /\ FailureLeavesNothing'
  BY <1>1, <1>2 DEF ObjectInv, FailureLeavesNothing
<1> QED BY <1>4, <1>5, <1>6, <1>7

\* A part that cannot be sent, for want of an upload id or of a valid number.
LEMMA UploadPartInvalidPreserves ==
  ASSUME TypeOK, IInv, UploadPartInvalid
  PROVE  TypeOK' /\ IInv'
<1> USE DEF IInv
<1>1. /\ pc = "upload" /\ pc' = (IF upload_id THEN "abort" ELSE "done")
      /\ result' = (IF upload_id THEN result ELSE "err")
      /\ UNCHANGED <<storeVars, readerVars, buf, parts, upload_id, cancelled, abort_failed>>
  BY DEF UploadPartInvalid
<1>2. /\ object = <<>> /\ late = <<>> /\ ~cancelled /\ result = "pending"
      /\ upload = (IF upload_id THEN "open" ELSE "none")
  BY <1>1 DEF PhaseInv
<1>3. TypeOK'
  BY <1>1 DEF TypeOK, ReaderTypeOK, StoreTypeOK, Labels
<1>4. OrderInv' /\ CutInv'
  BY <1>1 DEF OrderInv, CutInv
<1>5. PhaseInv' /\ ObjectInv' /\ FailureLeavesNothing'
  BY <1>1, <1>2 DEF PhaseInv, ObjectInv, FailureLeavesNothing
<1> QED BY <1>3, <1>4, <1>5

\* Sending a part.
LEMMA UploadPartPreserves ==
  ASSUME TypeOK, IInv, NEW reply \in {"ok", "refused", "lost"}, UploadPart(reply)
  PROVE  TypeOK' /\ IInv'
<1> USE DEF IInv
<1>1. /\ pc = "upload" /\ upload_id /\ part_number <= kMaxPartNumber
      /\ pc' = (IF reply = "ok" THEN "progress" ELSE "abort")
      /\ ServePart(part_number, buf, reply)
      /\ UNCHANGED <<result, readerVars, buf, parts, upload_id, cancelled, abort_failed>>
  BY DEF UploadPart
<1>2. /\ object = <<>> /\ late = <<>> /\ ~cancelled /\ result = "pending" /\ upload = "open"
      /\ chunks # <<>>
  BY <1>1 DEF PhaseInv
<1>3. UNCHANGED <<upload, object, late, leaked>> /\ stored' \in [PartNumbers -> Chunk]
  BY <1>1 DEF ServePart, TypeOK, StoreTypeOK
<1>4. TypeOK'
  BY <1>1, <1>3 DEF TypeOK, ReaderTypeOK, StoreTypeOK, Labels
<1>5. OrderInv' /\ CutInv'
  <2>1. CASE pc' = "progress"
    BY <1>1, <2>1, CutUntouched DEF Holding
  <2>2. CASE pc' = "abort"
    BY <2>2 DEF OrderInv, CutInv
  <2> QED BY <1>1, <2>1, <2>2
<1>6. PhaseInv' /\ ObjectInv' /\ FailureLeavesNothing'
  BY <1>1, <1>2, <1>3 DEF PhaseInv, ObjectInv, FailureLeavesNothing
<1> QED BY <1>4, <1>5, <1>6

\* The progress function decides: the part is recorded, or the call gives up
\* before anything was completed.
LEMMA ReportProgressPreserves ==
  ASSUME TypeOK, IInv, NEW p \in {"go", "stop", "throw"}, ReportProgress(p)
  PROVE  TypeOK' /\ IInv'
<1> USE DEF IInv
<1> DEFINE part == [number |-> part_number, etag |-> buf]
<1>1. /\ pc = "progress" /\ cancelled' = (p = "stop")
      /\ parts' = (IF p = "go" THEN Append(parts, part) ELSE parts)
      /\ pc' = (IF p = "go" THEN "loop" ELSE IF p = "stop" /\ upload_id THEN "abort" ELSE "done")
      /\ result' = (IF p = "throw" THEN "threw" ELSE IF p = "stop" /\ ~upload_id THEN "err" ELSE result)
      /\ UNCHANGED <<storeVars, readerVars, buf, upload_id, abort_failed>>
  BY DEF ReportProgress
<1>2. /\ object = <<>> /\ late = <<>> /\ result = "pending"
      /\ upload = (IF upload_id THEN "open" ELSE "none")
      /\ chunks = <<>> => ~upload_id
  BY <1>1 DEF PhaseInv
<1>3. /\ part_number = Len(chunks) /\ Len(parts) = Len(chunks) - 1 /\ buf = chunks[Len(chunks)]
      /\ part_number <= kMaxPartNumber
      /\ \A i \in 1 .. Len(parts) : parts[i].number = i /\ parts[i].etag = chunks[i]
      /\ Len(chunks) \in Nat /\ Len(parts) \in Nat
      /\ parts \in Seq([number : PartNumbers, etag : Chunk])
  BY <1>1, EmptyFacts, ReaderFacts DEF OrderInv, Holding, TypeOK
<1>4. part \in [number : PartNumbers, etag : Chunk]
  BY <1>3, PartNumberAssumption DEF PartNumbers, TypeOK
<1>5. /\ part.number = Len(chunks) /\ part.etag = chunks[Len(chunks)]
  BY <1>3
<1> HIDE DEF part
<1>6. p = "go" =>
        /\ parts' \in Seq([number : PartNumbers, etag : Chunk])
        /\ Len(parts') = Len(parts) + 1
        /\ \A i \in 1 .. Len(parts) : parts'[i] = parts[i]
        /\ parts'[Len(parts) + 1] = part
  BY <1>1, <1>3, <1>4, AppendFacts
<1>7. TypeOK'
  BY <1>1, <1>6 DEF TypeOK, ReaderTypeOK, StoreTypeOK, Labels
<1>8. OrderInv'
  <2>1. CASE p = "go"
    <3>1. ASSUME NEW i \in 1 .. Len(parts')
          PROVE  parts'[i].number = i /\ parts'[i].etag = chunks[i]
      <4>1. CASE i = Len(chunks)
        BY <1>3, <1>5, <1>6, <2>1, <4>1
      <4>2. CASE i # Len(chunks)
        <5>1. i \in 1 .. Len(parts)
          BY <1>3, <1>6, <2>1, <4>2
        <5> QED BY <1>3, <1>6, <2>1, <5>1
      <4> QED BY <4>1, <4>2
    <3>2. pc' = "loop" /\ UNCHANGED <<part_number, chunks>>
      BY <1>1, <2>1
    <3>3. part_number' = Len(chunks') /\ Len(parts') = Len(chunks')
      BY <1>3, <1>6, <2>1, <3>2
    <3> QED BY <3>1, <3>2, <3>3 DEF OrderInv, Holding
  <2>2. CASE p # "go"
    BY <1>1, <2>2 DEF OrderInv
  <2> QED BY <2>1, <2>2
<1>9. CutInv'
  <2>1. Contiguous' /\ Remaining'
    BY <1>1, ReaderFacts DEF Contiguous, Remaining, Carry, Total
  <2> QED BY <1>1, <2>1 DEF CutInv
<1>10. PhaseInv' /\ ObjectInv' /\ FailureLeavesNothing'
  BY <1>1, <1>2 DEF PhaseInv, ObjectInv, FailureLeavesNothing
<1> QED BY <1>7, <1>8, <1>9, <1>10

\* Completing the upload: what the server assembles from the parts recorded is
\* every chunk read, in order.
LEMMA CompleteMultipartUploadPreserves ==
  ASSUME TypeOK, IInv, NEW reply \in {"ok", "refused", "lost", "late"}, NEW p \in {"go", "throw"},
         CompleteMultipartUpload(reply, p)
  PROVE  TypeOK' /\ IInv'
<1> USE DEF IInv
<1> DEFINE whole == Assembled(parts)
<1>1. /\ pc = "complete"
      /\ object' = (IF reply \in {"ok", "lost"} THEN whole ELSE object)
      /\ late' = (IF reply = "late" THEN whole ELSE late)
      /\ upload' = (IF reply \in {"ok", "lost"} THEN "completed" ELSE upload)
      /\ pc' = (IF reply # "ok" /\ upload_id THEN "abort" ELSE "done")
      /\ result' = (IF reply = "ok" THEN IF p = "throw" THEN "threw" ELSE "ok"
                    ELSE IF upload_id THEN result ELSE "err")
      /\ UNCHANGED <<stored, leaked, readerVars, buf, parts, upload_id, cancelled, abort_failed>>
  BY DEF CompleteMultipartUpload, ServeComplete, Acceptable
<1>2. /\ object = <<>> /\ late = <<>> /\ ~cancelled /\ stop /\ result = "pending"
      /\ upload = (IF upload_id THEN "open" ELSE "none")
  BY <1>1 DEF PhaseInv, TypeOK
<1>3. whole \in Seq(Chunk) /\ whole # <<>> /\ Covers(whole, Total)
  <2>1. /\ chunks # <<>> /\ chunks[1].lo = 0 /\ chunks[Len(chunks)].hi = Total
        /\ \A i \in 1 .. Len(chunks) - 1 : chunks[i].hi = chunks[i + 1].lo
    BY <1>1, <1>2, AllRead DEF Covers
  <2>2. /\ Len(chunks) \in Nat /\ Len(chunks) # 0 /\ Len(parts) = Len(chunks)
        /\ \A i \in 1 .. Len(parts) : parts[i].etag = chunks[i]
        /\ \A i \in 1 .. Len(chunks) : chunks[i] \in Chunk
    BY <1>1, <2>1, EmptyFacts DEF OrderInv, Holding, TypeOK, ReaderTypeOK
  <2>3. whole = [i \in 1 .. Len(chunks) |-> chunks[i]]
    BY <2>2 DEF Assembled
  <2>4. whole \in Seq(Chunk) /\ Len(whole) = Len(chunks) /\ \A i \in 1 .. Len(chunks) : whole[i] = chunks[i]
    BY <2>2, <2>3
  <2> HIDE DEF whole
  <2>5. whole # <<>>
    BY <2>2, <2>4, EmptyFacts
  <2>6. /\ 1 \in 1 .. Len(chunks) /\ Len(chunks) \in 1 .. Len(chunks)
        /\ \A i \in 1 .. Len(chunks) - 1 : i \in 1 .. Len(chunks) /\ i + 1 \in 1 .. Len(chunks)
    BY <2>2
  <2> QED BY <2>1, <2>4, <2>5, <2>6 DEF Covers
<1>4. Total' = Total
  BY <1>1 DEF Total
<1> HIDE DEF whole
<1>5. TypeOK'
  BY <1>1, <1>3 DEF TypeOK, ReaderTypeOK, StoreTypeOK, Labels
<1>6. OrderInv' /\ CutInv'
  BY <1>1 DEF OrderInv, CutInv
<1>7. PhaseInv' /\ FailureLeavesNothing'
  BY <1>1, <1>2, <1>3 DEF PhaseInv, FailureLeavesNothing
<1>8. ObjectInv'
  BY <1>1, <1>2, <1>3, <1>4 DEF ObjectInv, Covers
<1> QED BY <1>5, <1>6, <1>7, <1>8

\* The caller's frame aborts the upload; an answer that says so is true.
LEMMA AbortMultipartUploadPreserves ==
  ASSUME TypeOK, IInv, NEW reply \in {"ok", "refused", "lost"}, AbortMultipartUpload(reply)
  PROVE  TypeOK' /\ IInv'
<1> USE DEF IInv
<1>1. /\ pc = "abort" /\ pc' = "done" /\ result' = "err" /\ abort_failed' = (reply # "ok")
      /\ reply = "ok" => upload = "open"
      /\ upload' = (IF reply \in {"ok", "lost"} /\ upload = "open" THEN "aborted" ELSE upload)
      /\ UNCHANGED <<stored, object, late, leaked, readerVars, buf, parts, upload_id, cancelled>>
  BY DEF AbortMultipartUpload, ServeAbort
<1>2. TypeOK'
  BY <1>1 DEF TypeOK, ReaderTypeOK, StoreTypeOK, Labels
<1>3. OrderInv' /\ CutInv'
  BY <1>1 DEF OrderInv, CutInv
<1>4. PhaseInv' /\ FailureLeavesNothing'
  BY <1>1 DEF PhaseInv, FailureLeavesNothing, TypeOK
<1>5. ObjectInv'
  BY <1>1 DEF ObjectInv, Covers, Total
<1> QED BY <1>2, <1>3, <1>4, <1>5

\* A delayed request lands; there is one only after the call has given up.
LEMMA NetworkPreserves ==
  ASSUME TypeOK, IInv, Network
  PROVE  TypeOK' /\ IInv'
<1> USE DEF IInv
<1>1. /\ late # <<>> /\ late' = <<>>
      /\ object' = (IF upload \in {"none", "open"} THEN late ELSE object)
      /\ upload' = (IF upload = "open" THEN "completed" ELSE upload)
      /\ UNCHANGED <<stored, leaked, readerVars, callVars>>
  BY DEF Network, ServeLate
<1>2. pc \in {"abort", "done"} /\ ~cancelled
  BY <1>1 DEF PhaseInv, FailureLeavesNothing, TypeOK
<1>3. TypeOK'
  BY <1>1 DEF TypeOK, ReaderTypeOK, StoreTypeOK, Labels
<1>4. OrderInv' /\ CutInv'
  BY <1>1, <1>2 DEF OrderInv, CutInv
<1>5. PhaseInv' /\ FailureLeavesNothing'
  BY <1>1, <1>2 DEF PhaseInv, FailureLeavesNothing
<1>6. ObjectInv'
  BY <1>1 DEF ObjectInv, Covers, Total
<1> QED BY <1>3, <1>4, <1>5, <1>6

\* The initial states satisfy the invariant.
LEMMA InitEstablishes == Init => TypeOK /\ IInv
<1> SUFFICES ASSUME Init PROVE TypeOK /\ IInv
  OBVIOUS
<1>1. PICK osize \in ObjectSizes, len \in StreamLengths : ReadInit(osize, len)
  BY DEF Init
<1>2. /\ object_size \in Nat \cup {None} /\ stream_len \in Nat
      /\ pos = 0 /\ bad = FALSE /\ part_size = 0 /\ part_count = None /\ part_number = 0
      /\ uploaded_size = 0 /\ one_byte = FALSE /\ stop = FALSE /\ chunks = <<>>
  BY <1>1, SequentialAssumption DEF ReadInit
<1>3. /\ upload = "none" /\ stored = [n \in PartNumbers |-> NoChunk]
      /\ object = <<>> /\ late = <<>> /\ leaked = 0
      /\ pc = "start" /\ result = "pending" /\ buf = NoChunk /\ parts = <<>>
      /\ upload_id = FALSE /\ cancelled = FALSE /\ abort_failed = FALSE
  BY DEF Init, StoreInit
<1>4. NoChunk \in Chunk
  BY DEF NoChunk, Chunk
<1>5. Len(chunks) = 0 /\ Len(parts) = 0
  BY <1>2, <1>3
<1>6. TypeOK
  <2>1. StoreTypeOK
    BY <1>3, <1>4 DEF StoreTypeOK
  <2>2. chunks \in Seq(Chunk) /\ parts \in Seq([number : PartNumbers, etag : Chunk])
    BY <1>2, <1>3
  <2>3. pos \in 0 .. stream_len
    BY <1>2
  <2>4. ReaderTypeOK
    BY <1>2, <2>2, <2>3 DEF ReaderTypeOK
  <2>5. pc \in Labels
    BY <1>3 DEF Labels
  <2> QED BY <1>3, <1>4, <2>1, <2>2, <2>4, <2>5 DEF TypeOK
<1>7. OrderInv /\ CutInv
  BY <1>2, <1>3, <1>5 DEF OrderInv, Holding, CutInv, Contiguous
<1>8. PhaseInv /\ ObjectInv /\ FailureLeavesNothing
  BY <1>2, <1>3 DEF PhaseInv, ObjectInv, FailureLeavesNothing
<1> QED BY <1>6, <1>7, <1>8 DEF IInv

\* Every step, of the caller or the network, preserves the invariant.
LEMMA NextPreserves == TypeOK /\ IInv /\ [Next]_vars => TypeOK' /\ IInv'
<1> SUFFICES ASSUME TypeOK, IInv, [Next]_vars PROVE TypeOK' /\ IInv'
  OBVIOUS
<1>1. CASE Start \/ LoopHead
  BY <1>1, StartPreserves, LoopHeadPreserves
<1>2. CASE pc = "read" /\ \E n \in 0 .. Demand : Read(n)
  BY <1>2, ReadPreserves
<1>3. CASE \E reply \in {"ok", "refused", "lost", "late"} : PutSingle(reply)
  BY <1>3, PutSinglePreserves
<1>4. CASE \E reply \in {"ok", "refused", "lost", "noid"} : CreateMultipartUpload(reply)
  BY <1>4, CreateMultipartUploadPreserves
<1>5. CASE UploadPartInvalid
  BY <1>5, UploadPartInvalidPreserves
<1>6. CASE \E reply \in {"ok", "refused", "lost"} : UploadPart(reply)
  BY <1>6, UploadPartPreserves
<1>7. CASE \E p \in {"go", "stop", "throw"} : ReportProgress(p)
  BY <1>7, ReportProgressPreserves
<1>8. CASE \E reply \in {"ok", "refused", "lost", "late"}, p \in {"go", "throw"} :
             CompleteMultipartUpload(reply, p)
  BY <1>8, CompleteMultipartUploadPreserves
<1>9. CASE \E reply \in {"ok", "refused", "lost"} : AbortMultipartUpload(reply)
  BY <1>9, AbortMultipartUploadPreserves
<1>10. CASE Network
  BY <1>10, NetworkPreserves
<1>11. CASE UNCHANGED vars
  <2>1. TypeOK'
    BY <1>11 DEF TypeOK, ReaderTypeOK, StoreTypeOK
  <2>2. OrderInv' /\ CutInv'
    BY <1>11 DEF IInv, OrderInv, Holding, CutInv, Contiguous, Remaining, Carry, Total
  <2>3. PhaseInv' /\ ObjectInv' /\ FailureLeavesNothing'
    BY <1>11 DEF IInv, PhaseInv, ObjectInv, Covers, Total, FailureLeavesNothing
  <2> QED BY <2>1, <2>2, <2>3 DEF IInv
<1> QED
  BY <1>1, <1>2, <1>3, <1>4, <1>5, <1>6, <1>7, <1>8, <1>9, <1>10, <1>11 DEF Next, Caller, Ended

\* The invariant holds in every reachable state.
THEOREM SequentialInductive == Spec => [](TypeOK /\ IInv)
<1>1. Init => TypeOK /\ IInv
  BY InitEstablishes
<1>2. (TypeOK /\ IInv) /\ [Next]_vars => (TypeOK /\ IInv)'
  BY NextPreserves
<1> QED BY <1>1, <1>2, PTL DEF Spec

\* A failed call has aborted the upload whose id it holds, unless the abort itself
\* failed, and a call told to stop leaves the key alone, now and later.
THEOREM FailureIsClean == Spec => []FailureLeavesNothing
<1>1. IInv => FailureLeavesNothing
  BY DEF IInv
<1> QED BY <1>1, SequentialInductive, PTL

----------------------------------------------------------------------------
(* The refinement of AtomicPut.                                             *)

\* What the mapping makes of the object: there is no third case.
Seen == IF object = <<>> THEN "old" ELSE "new"

\* Every step leaves the object and the result alone, or commits the object, or
\* returns.
LEMMA StepsOfAtomicPut ==
  ASSUME TypeOK, IInv, [Next]_vars
  PROVE  \/ UNCHANGED <<Seen, result>>
         \/ /\ Seen = "old" /\ Seen' = "new"
            /\ result \in {"pending", "err"} /\ UNCHANGED result
         \/ /\ result = "pending" /\ result' \in {"ok", "err", "threw"}
            /\ Seen' \in {Seen, "new"}
            /\ result' = "ok" => Seen' = "new"
<1>1. /\ result # "pending" <=> pc = "done"
      /\ late # <<>> => result \in {"pending", "err"}
      /\ pc \notin {"abort", "done"} => object = <<>>
  BY DEF IInv, PhaseInv
<1> DEFINE quiet == UNCHANGED object /\ (result' = result \/ (result = "pending" /\ result' \in {"err", "threw"}))
<1>2. CASE quiet
  BY <1>2 DEF Seen
<1>3. ASSUME Start \/ LoopHead \/ UploadPartInvalid \/ UNCHANGED vars PROVE quiet
  BY <1>1, <1>3 DEF Start, LoopHead, UploadPartInvalid
<1>4. ASSUME pc = "read" /\ \E n \in 0 .. Demand : Read(n) PROVE quiet
  BY <1>1, <1>4 DEF Read
<1>5. ASSUME \E reply \in {"ok", "refused", "lost", "noid"} : CreateMultipartUpload(reply) PROVE quiet
  BY <1>1, <1>5 DEF CreateMultipartUpload, ServeCreate
<1>6. ASSUME \E reply \in {"ok", "refused", "lost"} : UploadPart(reply) \/ AbortMultipartUpload(reply) PROVE quiet
  BY <1>1, <1>6 DEF UploadPart, ServePart, AbortMultipartUpload, ServeAbort
<1>7. ASSUME \E p \in {"go", "stop", "throw"} : ReportProgress(p) PROVE quiet
  BY <1>1, <1>7 DEF ReportProgress
<1>8. ASSUME NEW reply \in {"ok", "refused", "lost", "late"}, PutSingle(reply)
      PROVE  /\ result = "pending" /\ result' \in {"ok", "err"}
             /\ Seen' \in {Seen, "new"}
             /\ result' = "ok" => Seen' = "new"
  <2>1. /\ result = "pending" /\ result' = (IF reply = "ok" THEN "ok" ELSE "err")
        /\ object' = (IF reply \in {"ok", "lost"} THEN <<buf>> ELSE object)
    BY <1>1, <1>8 DEF PutSingle, ServePut
  <2>2. <<buf>> # <<>>
    OBVIOUS
  <2> QED BY <2>1, <2>2 DEF Seen
<1>9. ASSUME NEW reply \in {"ok", "refused", "lost", "late"}, NEW p \in {"go", "throw"},
             CompleteMultipartUpload(reply, p)
      PROVE  /\ result = "pending" /\ Seen = "old"
             /\ result' \in {"pending", "ok", "err", "threw"} /\ Seen' \in {"old", "new"}
             /\ result' = "ok" => Seen' = "new"
  <2>1. /\ result = "pending" /\ object = <<>>
        /\ result' = (IF reply = "ok" THEN IF p = "throw" THEN "threw" ELSE "ok"
                      ELSE IF upload_id THEN result ELSE "err")
        /\ reply = "ok" => parts # <<>> /\ object' = Assembled(parts)
    BY <1>1, <1>9 DEF CompleteMultipartUpload, ServeComplete, Acceptable
  <2>2. parts # <<>> => Assembled(parts) # <<>>
    <3> SUFFICES ASSUME parts # <<>> PROVE Assembled(parts) # <<>>
      OBVIOUS
    <3>1. Len(parts) \in Nat \ {0}
      BY EmptyFacts DEF TypeOK
    <3>2. 1 \in DOMAIN Assembled(parts)
      BY <3>1 DEF Assembled
    <3> QED BY <3>2
  <2> QED BY <2>1, <2>2 DEF Seen
<1>10. CASE Network
  <2>1. late # <<>> /\ object' \in {late, object} /\ UNCHANGED result
    BY <1>10 DEF Network, ServeLate
  <2> QED BY <1>1, <2>1 DEF Seen
<1>11. CASE \E reply \in {"ok", "refused", "lost", "late"}, p \in {"go", "throw"} :
              CompleteMultipartUpload(reply, p)
  BY <1>9, <1>11
<1>12. \/ quiet \/ Network
       \/ \E reply \in {"ok", "refused", "lost", "late"} : PutSingle(reply)
       \/ \E reply \in {"ok", "refused", "lost", "late"}, p \in {"go", "throw"} :
            CompleteMultipartUpload(reply, p)
  BY <1>3, <1>4, <1>5, <1>6, <1>7 DEF Next, Caller, Ended
<1> QED BY <1>2, <1>8, <1>10, <1>11, <1>12

LEMMA MapsToAtomicPut ==
  ASSUME TypeOK, IInv, IInv', [Next]_vars
  PROVE  [Atomic!Next]_(Atomic!vars)
<1>1. (IF object = <<>> THEN "old" ELSE IF Covers(object, Total) THEN "new" ELSE "broken") = Seen
  BY DEF IInv, ObjectInv, Seen
<1>2. (IF object = <<>> THEN "old" ELSE IF Covers(object, Total) THEN "new" ELSE "broken")' = Seen'
  BY DEF IInv, ObjectInv, Seen
<1> QED BY <1>1, <1>2, StepsOfAtomicPut DEF Atomic!Next, Atomic!Commit, Atomic!Return, Atomic!vars

\* The sequential upload, too, implements the put of one step: the object is the
\* old one until it is the new one as a whole, and success is returned only when
\* it is.
THEOREM ImplementsAtomicPut == Spec => RefinesAtomicPut
<1>1. Init => Atomic!Init
  BY DEF Init, StoreInit, Atomic!Init
<1>2. (TypeOK /\ IInv) /\ (TypeOK /\ IInv)' /\ [Next]_vars => [Atomic!Next]_(Atomic!vars)
  BY MapsToAtomicPut
<1> QED BY <1>1, <1>2, SequentialInductive, PTL DEF Spec, RefinesAtomicPut, Atomic!Spec
=============================================================================
