-------------------------- MODULE SequentialUpload ---------------------------
(***************************************************************************)
(* Client::PutObject with one part in flight (the default, and every       *)
(* upload known to be a single part): PutObject(args, upload_id, buf)      *)
(* reads a part into the one buffer, uploads it and waits for the answer   *)
(* before it reads the next; its caller aborts the upload when it returns  *)
(* an error.                                                               *)
(***************************************************************************)
EXTENDS PartReader

CONSTANTS
  PartSizeArg,     \* args.part_size, 0 to let CalcPartInfo choose
  ObjectSizes,     \* the values of args.object_size (None among them)
  StreamLengths    \* how many bytes the stream may hold

ASSUME SequentialAssumption ==
  /\ PartSizeArg \in Nat
  /\ ObjectSizes \subseteq Nat \cup {None}
  /\ StreamLengths \subseteq Nat

VARIABLES
  pc,
  result,          \* "pending", then "ok", "err" or "threw"
  buf,             \* what the part buffer holds
  parts,           \* acknowledged parts
  upload_id,       \* whether the client holds an upload id
  cancelled,       \* history: the progress function asked to stop
  abort_failed     \* history: AbortMultipartUpload returned an error

callVars == <<pc, result, buf, parts, upload_id, cancelled, abort_failed>>
vars == <<readerVars, storeVars, callVars>>

Init ==
  /\ \E osize \in ObjectSizes, len \in StreamLengths : ReadInit(osize, len)
  /\ StoreInit
  /\ pc = "start"
  /\ result = "pending"
  /\ buf = NoChunk
  /\ parts = <<>>
  /\ upload_id = FALSE
  /\ cancelled = FALSE
  /\ abort_failed = FALSE

Goto(label) == pc' = label /\ UNCHANGED result
Return(r) == pc' = "done" /\ result' = r

\* The inner call returns an error without the upload being aborted.
Fail_NoAbort == Return("err")

\* The inner call returns an error; the outer one aborts an upload it knows.
Fail == IF upload_id THEN Goto("abort") ELSE Return("err")

\* args.Validate and the allocation of the buffer.
Start ==
  LET info == CalcPartInfo(object_size, PartSizeArg)
  IN /\ pc = "start"
     /\ part_size' = info.part_size
     /\ part_count' = info.part_count
     /\ Return("err") \/ (~info.err /\ Goto("loop"))
     /\ UNCHANGED <<storeVars, inputVars, pos, bad, uploaded_size, one_byte,
                    stop, chunks, part_number, buf, parts, upload_id,
                    cancelled, abort_failed>>

\* while (!stop) { part_number++; ...
LoopHead ==
  /\ pc = "loop"
  /\ part_number' = IF stop THEN part_number ELSE part_number + 1
  /\ Goto(IF stop THEN "complete" ELSE "read")
  /\ UNCHANGED <<storeVars, inputVars, cutVars, buf, parts, upload_id,
                 cancelled, abort_failed>>

Read(n) ==
  /\ read_part_data(n)
  /\ buf' = ChunkRead(n)
  /\ IF ~ReadOk(n) THEN Fail
     ELSE Goto(IF part_count' = 1 THEN "single" ELSE IF upload_id THEN "upload" ELSE "create")
  /\ UNCHANGED <<storeVars, parts, upload_id, cancelled, abort_failed>>

PutSingle(reply) ==
  /\ pc = "single"
  /\ ServePut(buf, reply)
  /\ Return(IF reply = "ok" THEN "ok" ELSE "err")
  /\ UNCHANGED <<readerVars, buf, parts, upload_id, cancelled, abort_failed>>

CreateMultipartUpload(reply) ==
  /\ pc = "create"
  /\ ServeCreate(reply)
  /\ upload_id' = (reply = "ok")
  /\ IF reply \in {"ok", "noid"} THEN Goto("upload") ELSE Return("err")
  /\ UNCHANGED <<readerVars, buf, parts, cancelled, abort_failed>>

\* UploadPartArgs::Validate: an upload id, and a part number in range.
UploadPartInvalid ==
  /\ pc = "upload"
  /\ ~upload_id \/ part_number > kMaxPartNumber
  /\ Fail
  /\ UNCHANGED <<storeVars, readerVars, buf, parts, upload_id, cancelled,
                 abort_failed>>

UploadPart(reply) ==
  /\ pc = "upload"
  /\ upload_id
  /\ part_number <= kMaxPartNumber
  /\ ServePart(part_number, buf, reply)
  /\ IF reply = "ok" THEN Goto("progress") ELSE Fail
  /\ UNCHANGED <<readerVars, buf, parts, upload_id, cancelled, abort_failed>>

\* The progress function says go on, says stop, or throws; only then is the part
\* recorded.
ReportProgress(p) ==
  /\ pc = "progress"
  /\ parts' = IF p = "go" THEN Append(parts, [number |-> part_number, etag |-> buf])
              ELSE parts
  /\ cancelled' = (p = "stop")
  /\ IF p = "stop" THEN Fail ELSE IF p = "go" THEN Goto("loop") ELSE Return("threw")
  /\ UNCHANGED <<storeVars, readerVars, buf, upload_id, abort_failed>>

\* The outcome of the completion is not looked at.
CompleteMultipartUpload_Unchecked(reply, p) ==
  /\ pc = "complete"
  /\ ServeComplete(parts, reply)
  /\ Return("ok")
  /\ UNCHANGED <<readerVars, buf, parts, upload_id, cancelled, abort_failed>>

CompleteMultipartUpload(reply, p) ==
  /\ pc = "complete"
  /\ reply # "ok" => p = "go"
  /\ ServeComplete(parts, reply)
  /\ IF reply = "ok" THEN Return(IF p = "throw" THEN "threw" ELSE "ok") ELSE Fail
  /\ UNCHANGED <<readerVars, buf, parts, upload_id, cancelled, abort_failed>>

AbortMultipartUpload(reply) ==
  /\ pc = "abort"
  /\ ServeAbort(reply)
  /\ abort_failed' = (reply # "ok")
  /\ Return("err")
  /\ UNCHANGED <<readerVars, buf, parts, upload_id, cancelled>>

Caller ==
  \/ Start \/ LoopHead
  \/ pc = "read" /\ \E n \in 0 .. Demand : Read(n)
  \/ \E reply \in {"ok", "refused", "lost", "late"} : PutSingle(reply)
  \/ \E reply \in {"ok", "refused", "lost", "noid"} : CreateMultipartUpload(reply)
  \/ UploadPartInvalid
  \/ \E reply \in {"ok", "refused", "lost"} : UploadPart(reply)
  \/ \E p \in {"go", "stop", "throw"} : ReportProgress(p)
  \/ \E reply \in {"ok", "refused", "lost", "late"}, p \in {"go", "throw"} :
       CompleteMultipartUpload(reply, p)
  \/ \E reply \in {"ok", "refused", "lost"} : AbortMultipartUpload(reply)

Network == ServeLate /\ UNCHANGED <<readerVars, callVars>>

Ended == pc = "done" /\ UNCHANGED vars

Next == Caller \/ Network \/ Ended

Spec == Init /\ [][Next]_vars

----------------------------------------------------------------------------

\* A call that returns an error leaves no open upload whose id it holds behind,
\* unless the request to abort it failed; and one whose progress function said
\* stop, even after the last part, leaves no object behind.
FailureLeavesNothing ==
  /\ result = "err" /\ upload = "open" => abort_failed
  /\ cancelled => object = <<>> /\ late = <<>> /\ result # "ok"

\* The sequential call implements the same atomic put as the parallel one.
Atomic == INSTANCE AtomicPut WITH
  object <- IF object = <<>> THEN "old"
            ELSE IF Covers(object, Total) THEN "new" ELSE "broken",
  result <- result

RefinesAtomicPut == Atomic!Spec

----------------------------------------------------------------------------
(* The inductive invariant behind them.                                     *)

Labels == {"start", "loop", "read", "single", "create", "upload", "progress",
           "complete", "abort", "done"}

TypeOK ==
  /\ StoreTypeOK
  /\ ReaderTypeOK
  /\ pc \in Labels
  /\ result \in {"pending", "ok", "err", "threw"}
  /\ buf \in Chunk
  /\ parts \in Seq([number : PartNumbers, etag : Chunk])
  /\ upload_id \in BOOLEAN
  /\ cancelled \in BOOLEAN
  /\ abort_failed \in BOOLEAN

\* A part has been read and not recorded yet; its bytes are in the buffer.
Holding == pc \in {"single", "create", "upload", "progress"}

\* Until the call gives up, the parts recorded are the parts read, in order, but
\* for the one in the buffer.
OrderInv ==
  pc \notin {"abort", "done"} =>
    /\ part_number = IF pc = "read" THEN Len(chunks) + 1 ELSE Len(chunks)
    /\ Len(parts) = IF Holding THEN Len(chunks) - 1 ELSE Len(chunks)
    /\ \A i \in 1 .. Len(parts) : parts[i].number = i /\ parts[i].etag = chunks[i]
    /\ Holding => buf = chunks[Len(chunks)]
    /\ pc = "progress" => part_number <= kMaxPartNumber

\* What has been cut, and what is left.
CutInv ==
  /\ pc = "start" => chunks = <<>> /\ pos = 0 /\ uploaded_size = 0 /\ ~one_byte /\ ~stop
  /\ pc \notin {"abort", "done"} => Contiguous
  /\ pc \notin {"start", "abort", "done"} =>
       Remaining /\ (part_count = 1 /\ ~stop => chunks = <<>>)

\* What each place in the code may rely on.
PhaseInv ==
  /\ result # "pending" <=> pc = "done"
  /\ pc = "read" => ~stop
  /\ pc \in {"single", "complete"} => stop
  /\ pc = "single" => Len(chunks) = 1
  /\ pc = "create" => ~upload_id
  /\ pc \notin {"abort", "done"} =>
       /\ object = <<>> /\ late = <<>> /\ ~cancelled
       /\ upload = IF upload_id THEN "open" ELSE "none"
       /\ chunks = <<>> \/ pc = "single" => ~upload_id
  /\ result = "ok" => object # <<>>
  /\ late # <<>> => result \in {"pending", "err"}

\* What the key holds, or will when a delayed request lands, is the whole object.
ObjectInv ==
  /\ object # <<>> => Covers(object, Total)
  /\ late # <<>> => Covers(late, Total)

IInv == OrderInv /\ CutInv /\ PhaseInv /\ ObjectInv /\ FailureLeavesNothing
=============================================================================
