---------------------------- MODULE ComposeObject ----------------------------
(***************************************************************************)
(* Client::ComposeObject and Client::CopyObject, which call one another:   *)
(* an object put together from ranges of other objects by the server.      *)
(* CalculatePartCount asks for the size of every source and checks the     *)
(* limits; a single small source is copied by one request, anything else   *)
(* becomes a multipart upload whose parts are copied from the sources.     *)
(* Meanwhile other clients replace the source objects.                     *)
(*                                                                         *)
(* CalculatePartCount works on a copy of the sources, so what BuildHeaders *)
(* leaves in them (the size, and the etag to match) is there for the part  *)
(* loop only if the caller of ComposeObject had called BuildHeaders too.   *)
(***************************************************************************)
EXTENDS PartInfo, ObjectStore

CONSTANTS
  Sizes,        \* the sizes a source object may have
  Requests,     \* sequences of sources: [key, offset, length]
  MaxReplaced   \* how often other clients replace each source object

Keys == UNION {{r[n].key : n \in DOMAIN r} : r \in Requests}

\* ComposeObjectArgs::Validate: there is a source.
ASSUME ComposeAssumption ==
  /\ Sizes \subseteq Nat
  /\ \A r \in Requests :
       r # <<>> /\ r \in Seq([key : Keys, offset : Nat \cup {None}, length : Nat \cup {None}])
  /\ MaxReplaced \in Nat

VARIABLES
  src,          \* the source objects on the server: [size, etag] by key
  pc,
  sources,      \* args.sources; built is what BuildHeaders left in a source
  i,            \* the source under way, in either loop
  object_size, part_count,
  offset, size, \* what is left to copy of source i
  part_number, parts,
  upload_id,    \* whether the client holds an upload id
  abort_failed, \* history: AbortMultipartUpload returned an error
  result        \* "pending", then "ok", "err" or "terminated"

countVars == <<i, object_size, part_count>>
partVars == <<offset, size, part_number, parts>>
callVars == <<pc, sources, countVars, partVars, upload_id, abort_failed, result>>
vars == <<src, storeVars, callVars>>

OffsetOf(s) == IF s.offset = None THEN 0 ELSE s.offset

\* Offset and length of a source (both optional) against the object's size.
BuildError(s, objsize) ==
  \/ s.offset # None /\ s.offset >= objsize
  \/ s.length # None /\ (s.length > objsize \/ OffsetOf(s) + s.length > objsize)

\* How much of a source is taken.
SizeOf(s, objsize) ==
  IF s.length # None THEN s.length ELSE objsize - OffsetOf(s)

\* The sources as the caller passes them: for each, BuildHeaders was called with
\* the object's size and etag, or it was not called.
Passed(r, built) ==
  [n \in DOMAIN r |-> [key |-> r[n].key, offset |-> r[n].offset, length |-> r[n].length,
                       built |-> IF built THEN src[r[n].key] ELSE None]]

\* A call of ComposeObject, or of CopyObject with a single source.
Init ==
  /\ src \in [Keys -> [size : Sizes, etag : {1}]]
  /\ \E r \in Requests, built \in BOOLEAN :
       /\ built => \A n \in DOMAIN r : ~BuildError(r[n], src[r[n].key].size)
       /\ sources = Passed(r, built)
       /\ pc \in IF Len(r) = 1 THEN {"stat", "copyStat"} ELSE {"stat"}
  /\ StoreInit
  /\ i = 1
  /\ object_size = 0
  /\ part_count = 0
  /\ offset = 0
  /\ size = 0
  /\ part_number = 0
  /\ parts = <<>>
  /\ upload_id = FALSE
  /\ abort_failed = FALSE
  /\ result = "pending"

Goto(label) == pc' = label /\ UNCHANGED result
Return(r) == pc' = "done" /\ result' = r

\* ComposeObject returns an error without the upload being aborted.
Fail_NoAbort == Return("err")

\* The outer ComposeObject aborts the upload the inner one left.
Fail == IF upload_id THEN Goto("abort") ELSE Return("err")

----------------------------------------------------------------------------
(* CalculatePartCount.                                                      *)

PieceCount(n) == IF n > kMaxPartSize THEN CeilDiv(n, kMaxPartSize) ELSE 1

LastPiece(n) == IF n % kMaxPartSize = 0 THEN kMaxPartSize ELSE n % kMaxPartSize

\* The last piece of a large source is not looked at.
CountError_PiecesUnchecked(n) ==
  \/ n < kMinPartSize /\ i # Len(sources)
  \/ object_size + n > kMaxObjectSize
  \/ part_count + PieceCount(n) > kMaxMultipartCount

\* Only the last source, and the last piece of the last source, may be small.
CountError(n) ==
  \/ n < kMinPartSize /\ i # Len(sources)
  \/ object_size + n > kMaxObjectSize
  \/ n > kMaxPartSize /\ LastPiece(n) < kMinPartSize /\ i # Len(sources)
  \/ part_count + PieceCount(n) > kMaxMultipartCount

\* One iteration: the size is asked for and checked.  (A request that fails, and
\* args.Validate before the first iteration, end the call as well.)
Stat ==
  LET s == sources[i]
      n == SizeOf(s, src[s.key].size)
  IN /\ pc = "stat"
     /\ \/ Return("err") /\ UNCHANGED countVars
        \/ /\ ~BuildError(s, src[s.key].size)
           /\ ~CountError(n)
           /\ object_size' = object_size + n
           /\ part_count' = part_count + PieceCount(n)
           /\ i' = IF i = Len(sources) THEN 1 ELSE i + 1
           /\ Goto(IF i = Len(sources) THEN "choose" ELSE "stat")
     /\ UNCHANGED <<src, storeVars, sources, partVars, upload_id, abort_failed>>

\* One source in one part, without a range: CopyObject.
Choose ==
  /\ pc = "choose"
  /\ Goto(IF part_count = 1 /\ sources[1].offset = None /\ sources[1].length = None
            THEN "copyStat" ELSE "create")
  /\ UNCHANGED <<src, storeVars, sources, countVars, partVars, upload_id, abort_failed>>

----------------------------------------------------------------------------
(* CopyObject.                                                              *)

\* Every source is handed to ComposeObject.
CopyStat_AnySize ==
  /\ pc = "copyStat"
  /\ \/ Return("err") /\ UNCHANGED <<sources, countVars>>
     \/ /\ sources' = <<[sources[1] EXCEPT !.built = None]>>
        /\ i' = 1
        /\ object_size' = 0
        /\ part_count' = 0
        /\ Goto("stat")
  /\ UNCHANGED <<src, storeVars, partVars, upload_id, abort_failed>>

\* The size is asked for (again).  A range, or an object that is too large,
\* needs ComposeObject, with a source made afresh.
CopyStat ==
  LET s == sources[1]
      ranged == s.offset # None \/ s.length # None
  IN /\ pc = "copyStat"
     /\ \/ Return("err") /\ UNCHANGED <<sources, countVars>>
        \/ /\ ranged \/ src[s.key].size > kMaxPartSize
           /\ sources' = <<[s EXCEPT !.built = None]>>
           /\ i' = 1
           /\ object_size' = 0
           /\ part_count' = 0
           /\ Goto("stat")
        \/ /\ ~ranged /\ src[s.key].size <= kMaxPartSize
           /\ Goto("copy")
           /\ UNCHANGED <<sources, countVars>>
     /\ UNCHANGED <<src, storeVars, partVars, upload_id, abort_failed>>

\* Bytes lo+1 .. hi of one version of an object.
Bytes(k, etag, lo, hi) == [key |-> k, etag |-> etag, lo |-> lo, hi |-> hi]

\* The server copies whatever the source is by then.
Copy(reply) ==
  LET k == sources[1].key
  IN /\ pc = "copy"
     /\ ServePut(Bytes(k, src[k].etag, 0, src[k].size), reply)
     /\ Return(IF reply = "ok" THEN "ok" ELSE "err")
     /\ UNCHANGED <<src, sources, countVars, partVars, upload_id, abort_failed>>

----------------------------------------------------------------------------
(* The multipart upload.                                                    *)

CreateMultipartUpload(reply) ==
  /\ pc = "create"
  /\ ServeCreate(reply)
  /\ upload_id' = (reply = "ok")
  /\ IF reply \in {"ok", "noid"} THEN Goto("source") ELSE Return("err")
  /\ UNCHANGED <<src, sources, countVars, partVars, abort_failed>>

\* for (auto& source : args.sources): ObjectSize() of a source that was never
\* built ends the process.
NextSource ==
  /\ pc = "source"
  /\ IF sources[i].built = None
       THEN Return("terminated") /\ UNCHANGED <<offset, size>>
       ELSE /\ size' = SizeOf(sources[i], sources[i].built.size)
            /\ offset' = OffsetOf(sources[i])
            /\ Goto("part")
  /\ UNCHANGED <<src, storeVars, sources, countVars, part_number, parts, upload_id,
                 abort_failed>>

Advance(n) == size' = size - n /\ offset' = offset + n

\* The etag of the source is not sent along.
Matches_Unconditional(s) == TRUE

\* x-amz-copy-source-if-match.
Matches(s) == src[s.key].etag = s.built.etag

\* The server can serve the part: the etag matches, and a range, if the request
\* has one (a source taken whole has none), is not empty and within the object.
Copyable(s, n) ==
  /\ Matches(s)
  /\ s.offset # None \/ s.length # None => n > 0
  /\ offset + n <= src[s.key].size

\* A source, or the next piece of one that is too large for a part.  (The etag is
\* taken from a header of the reply; "noetag" is a reply that lacks it.)
UploadPartCopy(reply) ==
  LET s == sources[i]
      n == IF size > kMaxPartSize THEN kMaxPartSize ELSE size
      data == Bytes(s.key, src[s.key].etag, offset, offset + n)
  IN /\ pc = "part"
     /\ part_number' = part_number + 1
     /\ upload_id /\ part_number' <= kMaxPartNumber
     /\ reply # "refused" => Copyable(s, n)
     /\ ServePart(part_number', data, IF reply = "noetag" THEN "ok" ELSE reply)
     /\ IF reply \in {"ok", "noetag"}
          THEN /\ parts' = Append(parts, [number |-> part_number',
                                          etag |-> IF reply = "ok" THEN data ELSE NoChunk])
               /\ Advance(n)
               /\ i' = IF size' = 0 /\ i # Len(sources) THEN i + 1 ELSE i
               /\ Goto(IF size' > 0 THEN "part"
                       ELSE IF i # Len(sources) THEN "source" ELSE "complete")
          ELSE Fail /\ UNCHANGED <<parts, offset, size, i>>
     /\ UNCHANGED <<src, sources, object_size, part_count, upload_id, abort_failed>>

\* UploadPartCopyArgs::Validate.
UploadPartCopyInvalid ==
  /\ pc = "part"
  /\ ~upload_id \/ part_number + 1 > kMaxPartNumber
  /\ part_number' = part_number + 1
  /\ Fail
  /\ UNCHANGED <<src, storeVars, sources, countVars, offset, size, parts, upload_id,
                 abort_failed>>

CompleteMultipartUpload(reply) ==
  /\ pc = "complete"
  /\ ServeComplete(parts, reply)
  /\ IF reply = "ok" THEN Return("ok") ELSE Fail
  /\ UNCHANGED <<src, sources, countVars, partVars, upload_id, abort_failed>>

AbortMultipartUpload(reply) ==
  /\ pc = "abort"
  /\ ServeAbort(reply)
  /\ abort_failed' = (reply # "ok")
  /\ Return("err")
  /\ UNCHANGED <<src, sources, countVars, partVars, upload_id>>

----------------------------------------------------------------------------
\* Another client replaces a source object; no etag is used twice.
Replace(k, n) ==
  /\ src[k].etag <= MaxReplaced
  /\ src' = [src EXCEPT ![k] = [size |-> n, etag |-> @.etag + 1]]
  /\ UNCHANGED <<storeVars, callVars>>

Caller ==
  \/ Stat \/ Choose \/ CopyStat
  \/ \E reply \in {"ok", "refused", "lost"} : Copy(reply)
  \/ \E reply \in {"ok", "refused", "lost", "noid"} : CreateMultipartUpload(reply)
  \/ NextSource
  \/ \E reply \in {"ok", "noetag", "refused", "lost"} : UploadPartCopy(reply)
  \/ UploadPartCopyInvalid
  \/ \E reply \in {"ok", "refused", "lost", "late"} : CompleteMultipartUpload(reply)
  \/ \E reply \in {"ok", "refused", "lost"} : AbortMultipartUpload(reply)

Network == ServeLate /\ UNCHANGED <<src, callVars>>

Ended == pc = "done" /\ UNCHANGED vars

Next == Caller \/ Network \/ Ended \/ \E k \in Keys, n \in Sizes : Replace(k, n)

\* Every request ends, by an answer or by the HTTP client's stall timeout.
Spec == Init /\ [][Next]_vars /\ WF_vars(Caller)

----------------------------------------------------------------------------
\* The number of pieces a source should be copied in, and piece p.
Pieces(s) == PieceCount(SizeOf(s, s.built.size))

Piece(s, p) ==
  LET end == OffsetOf(s) + SizeOf(s, s.built.size)
      next == OffsetOf(s) + p * kMaxPartSize
  IN  Bytes(s.key, s.built.etag, OffsetOf(s) + (p - 1) * kMaxPartSize,
            IF next < end THEN next ELSE end)

\* data is the pieces of all sources in order; those of source n come after
\* the first before[n].
Composed(data) ==
  LET last == Len(sources) + 1
  IN  \E before \in [1 .. last -> 0 .. Len(data)] :
        /\ before[1] = 0 /\ before[last] = Len(data)
        /\ \A n \in 1 .. Len(sources) :
             /\ before[n + 1] = before[n] + Pieces(sources[n])
             /\ \A p \in 1 .. Pieces(sources[n]) : data[before[n] + p] = Piece(sources[n], p)

\* An object put in place by a multipart copy, now or by a delayed completion, is
\* the ranges asked for, in the order of the sources, without a gap, and every
\* source in the one version it was asked for, although other clients replace
\* sources between the pieces.  Success means that there is such an object.
WholeComposition ==
  /\ object # <<>> /\ parts # <<>> => Composed(object)
  /\ late # <<>> => Composed(late)
  /\ result = "ok" => object # <<>>

\* The part loop cuts the sources exactly as CalculatePartCount counted them, so
\* the limits it checked hold for what is sent: the number of parts, and the
\* least size of all parts but the last, which S3 insists on at completion.
PartsAsCounted ==
  pc = "complete" =>
    /\ Len(parts) = part_count
    /\ part_count <= kMaxMultipartCount
    /\ \A n \in 1 .. Len(parts) - 1 :
         stored[parts[n].number].hi - stored[parts[n].number].lo >= kMinPartSize

\* A call that returns an error leaves no open upload whose id it holds behind,
\* unless the request to abort it failed.
NoUploadLeftBehind == result = "err" /\ upload = "open" => abort_failed

\* Every call ends, CopyObject and ComposeObject calling one another included.
Termination == <>(pc = "done")
=============================================================================
