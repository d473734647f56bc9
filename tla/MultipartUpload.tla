--------------------------- MODULE MultipartUpload ---------------------------
(***************************************************************************)
(* Client::PutObject with max_inflight_parts > 1: the calling thread reads *)
(* the stream part by part into a ring of buffers and hands every part to  *)
(* a thread of its own, which uploads it from that buffer.  A buffer is    *)
(* used again once the oldest upload has been waited for.  The end of the  *)
(* stream or the first error ends the loop; all threads are drained, and   *)
(* the upload is completed or aborted.                                     *)
(*                                                                         *)
(* pc is the calling thread's place in the code; an entry of inflight is a *)
(* part's thread together with its future.                                 *)
(***************************************************************************)
EXTENDS PartReader

CONSTANTS
  max_inflight_parts,  \* args.max_inflight_parts
  kMaxInflightParts,   \* 100 in the code
  PartSizeArg,         \* args.part_size, 0 to let CalcPartInfo choose
  ObjectSizes,         \* the values of args.object_size (None among them)
  StreamLengths        \* how many bytes the stream may hold

ASSUME UploadAssumption ==
  /\ max_inflight_parts \in Nat
  /\ max_inflight_parts > 1
  /\ kMaxInflightParts \in Nat
  /\ kMaxInflightParts > 1
  /\ PartSizeArg \in Nat
  /\ ObjectSizes \subseteq Nat \cup {None}
  /\ StreamLengths \subseteq Nat

VARIABLES
  pc,
  max_inflight,    \* the number of buffers, and of uploads under way at once
  buf_pool,        \* what each buffer holds
  buf_idx,         \* the buffer the next part goes to
  inflight,        \* uploads not waited for yet, oldest first
  parts,           \* acknowledged parts, in the order they were waited for
  upload_id,       \* whether the client holds an upload id
  first_err,       \* whether an error was recorded
  cancelled,       \* history: the progress function asked to stop
  abort_failed,    \* history: AbortMultipartUpload returned an error
  result           \* "pending", then "ok", "err" or "threw"

poolVars == <<max_inflight, buf_pool, buf_idx>>
errVars == <<first_err, cancelled, abort_failed>>
callVars == <<pc, result, poolVars, inflight, parts, upload_id, errVars>>
vars == <<readerVars, storeVars, callVars>>

Upload == [part_number : Nat, buf : Nat, id : BOOLEAN,
           future : {"running", "ok", "err"}, etag : Chunk]

Init ==
  /\ \E osize \in ObjectSizes, len \in StreamLengths :
       /\ CalcPartInfo(osize, PartSizeArg).part_count # 1
       /\ ReadInit(osize, len)
  /\ StoreInit
  /\ pc = "start"
  /\ result = "pending"
  /\ max_inflight = max_inflight_parts
  /\ buf_pool = [b \in 0 .. max_inflight_parts - 1 |-> NoChunk]
  /\ buf_idx = 0
  /\ inflight = <<>>
  /\ parts = <<>>
  /\ upload_id = FALSE
  /\ first_err = FALSE
  /\ cancelled = FALSE
  /\ abort_failed = FALSE

Goto(label) == pc' = label /\ UNCHANGED result
Return(r) == pc' = "done" /\ result' = r

----------------------------------------------------------------------------
(* The calling thread.                                                      *)

\* max_inflight_parts, clamped to kMaxInflightParts and to the part count.
Clamped(count) ==
  LET most == Least(max_inflight_parts, kMaxInflightParts)
  IN  IF count = None THEN most ELSE Least(most, count)

\* args.Validate (its CalcPartInfo), the clamp and the allocation of the
\* buffers, which may fail.  (A known single part takes the sequential path.)
Start ==
  LET info == CalcPartInfo(object_size, PartSizeArg)
  IN /\ pc = "start"
     /\ part_size' = info.part_size
     /\ part_count' = info.part_count
     /\ \/ Return("err") /\ UNCHANGED poolVars
        \/ /\ ~info.err
           /\ max_inflight' = Clamped(info.part_count)
           /\ buf_pool' = [b \in 0 .. max_inflight' - 1 |-> NoChunk]
           /\ UNCHANGED buf_idx
           /\ Goto("loop")
     /\ UNCHANGED <<storeVars, inputVars, pos, bad, uploaded_size, one_byte,
                    stop, chunks, part_number, inflight, parts, upload_id,
                    errVars>>

\* One upload more than there are buffers is let through.
SlotsTaken_OffByOne == Len(inflight) > max_inflight

SlotsTaken == Len(inflight) >= max_inflight

\* while (!stop && !first_err) { part_number++; wait if every buffer is taken
LoopHead ==
  /\ pc = "loop"
  /\ part_number' = IF stop THEN part_number ELSE part_number + 1
  /\ Goto(IF stop THEN "drain" ELSE IF SlotsTaken THEN "wait" ELSE "read")
  /\ UNCHANGED <<storeVars, inputVars, cutVars, poolVars, inflight, parts,
                 upload_id, errVars>>

\* The oldest upload has ended, and the caller takes it off the deque.
FrontEnded(how) == inflight # <<>> /\ Head(inflight).future = how

PopFront == inflight' = Tail(inflight)

PushPart ==
  parts' = Append(parts, [number |-> Head(inflight).part_number,
                          etag |-> Head(inflight).etag])

\* report_progress: the caller's function says go on, says stop, or throws.
Progress == {"go", "stop", "throw"}

\* The answer of the progress function is ignored.
report_progress_Ignored(p) ==
  /\ cancelled' = (cancelled \/ p = "stop")
  /\ UNCHANGED <<first_err, abort_failed>>

report_progress(p) ==
  /\ first_err' = (first_err \/ p = "stop")
  /\ cancelled' = (cancelled \/ p = "stop")
  /\ UNCHANGED abort_failed

\* Wait for a slot before reusing the buffer at buf_idx.
WaitFailed ==
  /\ pc = "wait"
  /\ FrontEnded("err")
  /\ PopFront
  /\ first_err' = TRUE
  /\ Goto("drain")
  /\ UNCHANGED <<storeVars, readerVars, poolVars, parts, upload_id, cancelled,
                 abort_failed>>

WaitDone(p) ==
  /\ pc = "wait"
  /\ FrontEnded("ok")
  /\ PopFront
  /\ PushPart
  /\ report_progress(p)
  /\ Goto(CASE p = "go" -> "read" [] p = "stop" -> "drain" [] p = "throw" -> "unwind")
  /\ UNCHANGED <<storeVars, readerVars, poolVars, upload_id>>

\* A part is read into the buffer at buf_idx.
Read(n) ==
  /\ read_part_data(n)
  /\ buf_pool' = [buf_pool EXCEPT ![buf_idx] = ChunkRead(n)]
  /\ first_err' = ~ReadOk(n)
  /\ Goto(CASE ~ReadOk(n) -> "drain"
            [] ReadOk(n) /\ part_count' = 1 -> "single"
            [] OTHER -> IF upload_id THEN "dispatch" ELSE "create")
  /\ UNCHANGED <<storeVars, max_inflight, buf_idx, inflight, parts, upload_id,
                 cancelled, abort_failed>>

\* A stream of unknown size turned out to be one part: a single PUT.
PutSingle(reply) ==
  /\ pc = "single"
  /\ ServePut(buf_pool[buf_idx], reply)
  /\ Return(IF reply = "ok" THEN "ok" ELSE "err")
  /\ UNCHANGED <<readerVars, poolVars, inflight, parts, upload_id, errVars>>

\* A reply without an upload id counts as success; the parts sent with the
\* empty id fail, and the next iteration asks for an upload again.
CreateMultipartUpload(reply) ==
  /\ pc = "create"
  /\ ServeCreate(reply)
  /\ upload_id' = (reply = "ok")
  /\ first_err' = (reply \in {"refused", "lost"})
  /\ Goto(IF first_err' THEN "drain" ELSE "dispatch")
  /\ UNCHANGED <<readerVars, poolVars, inflight, parts, cancelled, abort_failed>>

\* std::async starts the part's thread ...
Dispatch ==
  /\ pc = "dispatch"
  /\ inflight' = Append(inflight, [part_number |-> part_number, buf |-> buf_idx,
                                   id |-> upload_id, future |-> "running",
                                   etag |-> NoChunk])
  /\ buf_idx' = (buf_idx + 1) % max_inflight
  /\ Goto("loop")
  /\ UNCHANGED <<storeVars, readerVars, max_inflight, buf_pool, parts,
                 upload_id, errVars>>

\* ... or throws std::system_error.
DispatchFailed ==
  /\ pc = "dispatch"
  /\ first_err' = TRUE
  /\ Goto("drain")
  /\ UNCHANGED <<storeVars, readerVars, poolVars, inflight, parts, upload_id,
                 cancelled, abort_failed>>

\* The error of a drained part is not recorded.
DrainFailed_Dropped ==
  /\ pc = "drain"
  /\ FrontEnded("err")
  /\ PopFront
  /\ UNCHANGED <<storeVars, readerVars, pc, result, poolVars, parts, upload_id,
                 errVars>>

\* A failed upload is seen but stays in the deque.
DrainFailed_Kept ==
  /\ pc = "drain"
  /\ FrontEnded("err")
  /\ first_err' = TRUE
  /\ UNCHANGED <<storeVars, readerVars, pc, result, poolVars, inflight, parts,
                 upload_id, cancelled, abort_failed>>

\* Drain all inflight parts.
DrainFailed ==
  /\ pc = "drain"
  /\ FrontEnded("err")
  /\ PopFront
  /\ first_err' = TRUE
  /\ UNCHANGED <<storeVars, readerVars, pc, result, poolVars, parts, upload_id,
                 cancelled, abort_failed>>

\* The progress function is not called again once an error is recorded.
DrainDone(p) ==
  /\ pc = "drain"
  /\ FrontEnded("ok")
  /\ first_err => p = "go"
  /\ PopFront
  /\ PushPart
  /\ report_progress(p)
  /\ Goto(IF p = "throw" THEN "unwind" ELSE "drain")
  /\ UNCHANGED <<storeVars, readerVars, poolVars, upload_id>>

\* Once there is an error the threads still running are left alone.
Drained_OnError == inflight = <<>> \/ first_err

Drained == inflight = <<>>

DrainEnd ==
  /\ pc = "drain"
  /\ Drained
  /\ \/ ~first_err /\ Goto("complete")
     \/ first_err /\ upload_id /\ Goto("abort")
     \/ first_err /\ ~upload_id /\ Return("err")
  /\ UNCHANGED <<storeVars, readerVars, poolVars, inflight, parts, upload_id,
                 errVars>>

\* A failed completion is reported without aborting the upload.
CompleteMultipartUpload_NoAbort(reply, p) ==
  /\ pc = "complete"
  /\ reply # "ok" => p = "go"
  /\ ServeComplete(parts, reply)
  /\ Return(IF reply = "ok" THEN "ok" ELSE "err")
  /\ UNCHANGED <<readerVars, poolVars, inflight, parts, upload_id, errVars>>

\* After a successful completion the progress function is called once more; its
\* answer is ignored, but it may throw.
CompleteMultipartUpload(reply, p) ==
  /\ pc = "complete"
  /\ reply # "ok" => p = "go"
  /\ ServeComplete(parts, reply)
  /\ IF reply = "ok" THEN Return(IF p = "throw" THEN "threw" ELSE "ok")
                     ELSE Goto("abort")
  /\ UNCHANGED <<readerVars, poolVars, inflight, parts, upload_id, errVars>>

AbortMultipartUpload(reply) ==
  /\ pc = "abort"
  /\ ServeAbort(reply)
  /\ abort_failed' = (reply # "ok")
  /\ Return("err")
  /\ UNCHANGED <<readerVars, poolVars, inflight, parts, upload_id, first_err,
                 cancelled>>

\* An exception of the progress function leaves PutObject.  Destroying the
\* deque blocks until the thread behind every future has ended; only then are
\* the buffers freed.
Unwind ==
  /\ pc = "unwind"
  /\ \A i \in DOMAIN inflight : inflight[i].future # "running"
  /\ inflight' = <<>>
  /\ Return("threw")
  /\ UNCHANGED <<storeVars, readerVars, poolVars, parts, upload_id, errVars>>

----------------------------------------------------------------------------
(* The threads: BaseClient::UploadPart, which reads the buffer it was given *)
(* at any moment until it ends.                                             *)

Valid(u) == u.id /\ u.part_number <= kMaxPartNumber

UploadPartInvalid(i) ==
  /\ inflight[i].future = "running"
  /\ ~Valid(inflight[i])
  /\ inflight' = [inflight EXCEPT ![i] = [@ EXCEPT !.future = "err"]]
  /\ UNCHANGED <<storeVars, readerVars, pc, result, poolVars, parts, upload_id,
                 errVars>>

UploadPart(i, reply) ==
  LET u == inflight[i]
      data == buf_pool[u.buf]
  IN /\ u.future = "running"
     /\ Valid(u)
     /\ ServePart(u.part_number, data, reply)
     /\ inflight' = [inflight EXCEPT ![i] =
          [@ EXCEPT !.future = IF reply = "ok" THEN "ok" ELSE "err",
                    !.etag = IF reply = "ok" THEN data ELSE NoChunk]]
     /\ UNCHANGED <<readerVars, pc, result, poolVars, parts, upload_id, errVars>>

----------------------------------------------------------------------------
Caller ==
  \/ Start \/ LoopHead \/ WaitFailed
  \/ \E p \in Progress : WaitDone(p)
  \/ pc = "read" /\ \E n \in 0 .. Demand : Read(n)
  \/ \E reply \in {"ok", "refused", "lost", "late"} : PutSingle(reply)
  \/ \E reply \in {"ok", "refused", "lost", "noid"} : CreateMultipartUpload(reply)
  \/ Dispatch \/ DispatchFailed \/ DrainFailed
  \/ \E p \in Progress : DrainDone(p)
  \/ DrainEnd
  \/ \E reply \in {"ok", "refused", "lost", "late"}, p \in Progress :
       CompleteMultipartUpload(reply, p)
  \/ \E reply \in {"ok", "refused", "lost"} : AbortMultipartUpload(reply)
  \/ Unwind

Threads ==
  \E i \in DOMAIN inflight :
    \/ UploadPartInvalid(i)
    \/ \E reply \in {"ok", "refused", "lost"} : UploadPart(i, reply)

\* A delayed request reaches the server, before or after the call has ended.
Network == ServeLate /\ UNCHANGED <<readerVars, callVars>>

Ended == pc = "done" /\ UNCHANGED vars

Next == Caller \/ Threads \/ Network \/ Ended

\* Every request ends, by an answer or by the HTTP client's stall timeout, so
\* neither the calling thread nor the upload threads stop halfway.
Spec == Init /\ [][Next]_vars /\ WF_vars(Caller) /\ WF_vars(Threads)

----------------------------------------------------------------------------
Labels == {"start", "loop", "wait", "read", "single", "create", "dispatch",
           "drain", "complete", "abort", "unwind", "done"}

\* The types of the call's own state; StoreTypeOK has the server's.
TypeOK ==
  /\ StoreTypeOK
  /\ ReaderTypeOK
  /\ pc \in Labels
  /\ result \in {"pending", "ok", "err", "threw"}
  /\ max_inflight \in Nat \ {0}
  /\ buf_pool \in [0 .. max_inflight - 1 -> Chunk]
  /\ buf_idx \in 0 .. max_inflight - 1
  /\ inflight \in Seq(Upload)
  /\ parts \in Seq([number : PartNumbers, etag : Chunk])
  /\ upload_id \in BOOLEAN
  /\ first_err \in BOOLEAN
  /\ cancelled \in BOOLEAN
  /\ abort_failed \in BOOLEAN

\* No buffer of the ring is refilled while a thread may still read it: a running
\* upload finds in its buffer exactly the bytes read for its part.  (The reuse
\* of buf_pool[buf_idx] after waiting for the oldest upload only.)
BufferIntact ==
  \A i \in 1 .. Len(inflight) :
    inflight[i].future = "running" =>
      buf_pool[inflight[i].buf] = chunks[inflight[i].part_number]

\* An object this call put in place, or that a delayed request of it still will,
\* is the announced number of bytes, or all bytes the stream delivered, in the
\* stream's order with no part missing, repeated or swapped.
ObjectIntegrity ==
  /\ object # <<>> => Covers(object, Total)
  /\ late # <<>> => Covers(late, Total)

\* Success is reported only for the whole object, and a call that announced a
\* size never succeeds on a stream that ended or failed before it.
SuccessMeansStored ==
  result = "ok" => /\ object # <<>>
                   /\ object_size # None => stream_len >= object_size

\* When the progress function has said stop, the object is not replaced and the
\* call does not succeed, whether it was asked in the loop or in the drain.
CancelHonoured == cancelled => object = <<>> /\ late = <<>> /\ result # "ok"

\* A call that returns an error leaves no open upload whose id it holds behind,
\* unless the request to abort it failed.
NoUploadLeftBehind == result = "err" /\ upload = "open" => abort_failed

\* The upload is aborted only when no thread of the call can still send a part
\* to it; a part sent after that would be stored for nobody.
AbortAfterDrain ==
  pc = "abort" \/ upload = "aborted" =>
    \A i \in DOMAIN inflight : inflight[i].future # "running"

----------------------------------------------------------------------------
(* The inductive invariant behind the properties above.                     *)

\* The buffer d places behind buf_idx in the ring.
Behind(d) == IF d <= buf_idx THEN buf_idx - d ELSE buf_idx - d + max_inflight

\* The uploads not waited for sit in consecutive buffers that end just behind
\* buf_idx, and a buffer is free whenever one is about to be filled.
RingInv ==
  /\ Len(inflight) <= max_inflight
  /\ pc \in {"read", "single", "create", "dispatch"} => Len(inflight) < max_inflight
  /\ \A i \in 1 .. Len(inflight) : inflight[i].buf = Behind(Len(inflight) - i + 1)

\* Buffers and etags hold the bytes read for their part.
DataInv ==
  /\ pc \in {"single", "create", "dispatch"} =>
       chunks # <<>> /\ buf_pool[buf_idx] = chunks[Len(chunks)]
  /\ \A i \in 1 .. Len(inflight) :
       /\ inflight[i].part_number \in 1 .. Len(chunks)
       /\ inflight[i].future = "running" =>
            buf_pool[inflight[i].buf] = chunks[inflight[i].part_number]
       /\ inflight[i].future = "ok" =>
            /\ inflight[i].part_number <= kMaxPartNumber
            /\ inflight[i].etag = chunks[inflight[i].part_number]

\* While there is no error, the parts acknowledged and then the parts in flight
\* are the parts read, in order.
OrderInv ==
  /\ pc \in {"loop", "single", "create", "dispatch"} => part_number = Len(chunks)
  /\ pc \in {"wait", "read"} => part_number = Len(chunks) + 1
  /\ ~first_err /\ pc \notin {"start", "unwind", "abort", "done"} =>
       /\ Len(parts) + Len(inflight) =
            IF pc \in {"single", "create", "dispatch"} THEN Len(chunks) - 1
                                                      ELSE Len(chunks)
       /\ \A i \in 1 .. Len(parts) :
            parts[i].number = i /\ parts[i].etag = chunks[i]
       /\ \A i \in 1 .. Len(inflight) : inflight[i].part_number = Len(parts) + i

\* While there is no error, the chunks cut so far cover the bytes consumed, less
\* the byte carried over.
CutInv ==
  /\ one_byte => pos >= 1
  /\ ~first_err => Contiguous

\* With a known size the parts still to come hold what is left of the object,
\* and only the last of them may be short.
SizeInv ==
  /\ pc \in {"wait", "read"} => ~stop
  /\ ~stop /\ pc \notin {"start", "done"} =>
       /\ part_count # 1
       /\ (part_count = None) <=> (object_size = None)
       /\ ~first_err /\ object_size # None =>
            /\ uploaded_size = pos
            /\ ~one_byte
            /\ (part_count - Len(chunks) - 1) * part_size <= object_size - uploaded_size
            /\ object_size - uploaded_size <= (part_count - Len(chunks)) * part_size
  /\ stop /\ ~first_err => chunks # <<>> /\ pos = Total /\ ~one_byte

\* Nothing has happened before Validate, and more than one part is expected.
StartInv ==
  pc = "start" =>
    /\ CalcPartInfo(object_size, PartSizeArg).part_count # 1
    /\ part_number = 0 /\ uploaded_size = 0 /\ ~stop /\ chunks = <<>>
    /\ inflight = <<>> /\ parts = <<>> /\ buf_idx = 0

\* What each phase of the call may rely on.
PhaseInv ==
  /\ first_err => pc \in {"drain", "abort", "done"} /\ object = <<>> /\ late = <<>>
                  /\ result # "ok"
  /\ cancelled => first_err
  /\ pc \in {"drain", "complete"} /\ ~first_err => stop
  /\ pc = "single" => stop /\ Len(chunks) = 1
  /\ pc = "create" => ~upload_id
  /\ pc \in {"complete", "abort", "done"} => inflight = <<>>
  /\ object # <<>> \/ late # <<>> => pc \in {"abort", "done"}
  /\ upload = "open" => upload_id
  /\ upload = "aborted" => pc = "done"
  /\ chunks = <<>> \/ pc = "single" => upload = "none" /\ ~upload_id
  /\ result # "pending" <=> pc = "done"
  /\ result = "ok" => object # <<>> /\ stop

\* The inductive invariant: the proofs show that every step preserves it.
IInv ==
  /\ StartInv
  /\ RingInv
  /\ DataInv
  /\ OrderInv
  /\ CutInv
  /\ SizeInv
  /\ PhaseInv
  /\ ObjectIntegrity
  /\ NoUploadLeftBehind

\* Every call ends.
Termination == <>(pc = "done")

\* The call implements the atomic put: the object is old until it is whole.
Atomic == INSTANCE AtomicPut WITH
  object <- IF object = <<>> THEN "old"
            ELSE IF Covers(object, Total) THEN "new" ELSE "broken",
  result <- result

RefinesAtomicPut == Atomic!Spec
=============================================================================
