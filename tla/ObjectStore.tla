----------------------------- MODULE ObjectStore -----------------------------
(***************************************************************************)
(* The S3 server as an upload sees it: one key, the multipart upload whose *)
(* id the client holds, and the ones it opened without learning their id.  *)
(* The server is not part of the repository; this is what the client code  *)
(* relies on.  Data is a range of bytes of the caller's stream, and an     *)
(* etag stands for the data it was computed from.                          *)
(*                                                                         *)
(* Every request has one of the outcomes an HTTP client can meet:          *)
(*   "ok"       applied, and the client got the answer                     *)
(*   "refused"  not applied, and the client got an error                   *)
(*   "lost"     applied, but the client got an error (reset, timeout)      *)
(*   "late"     the client got an error, and the request is applied later  *)
(***************************************************************************)
EXTENDS Integers, Sequences

CONSTANT kMaxPartNumber   \* 10000 in the code (UploadPartArgs::Validate)

ASSUME PartNumberAssumption == kMaxPartNumber \in Nat \ {0}

PartNumbers == 1 .. kMaxPartNumber

\* Bytes lo+1 .. hi of the stream; NoChunk is no such range.
Chunk == [lo : Nat, hi : Nat]
NoChunk == [lo |-> 1, hi |-> 0]

VARIABLES
  upload,   \* the multipart upload: "none", "open", "completed", "aborted"
  stored,   \* its parts
  object,   \* the key's contents, as the chunks it was assembled from;
            \* <<>> stands for whatever was there before
  late,     \* the contents a delayed request will still commit, or <<>>
  leaked    \* uploads opened whose id never reached the client

storeVars == <<upload, stored, object, late, leaked>>

StoreTypeOK ==
  /\ upload \in {"none", "open", "completed", "aborted"}
  /\ stored \in [PartNumbers -> Chunk]
  /\ object \in Seq(Chunk)
  /\ late \in Seq(Chunk)
  /\ leaked \in Nat

StoreInit ==
  /\ upload = "none"
  /\ stored = [n \in PartNumbers |-> NoChunk]
  /\ object = <<>>
  /\ late = <<>>
  /\ leaked = 0

\* "noid": the reply is a success whose XML has no UploadId.
ServeCreate(reply) ==
  /\ upload' = IF reply = "ok" THEN "open" ELSE upload
  /\ leaked' = IF reply \in {"lost", "noid"} THEN leaked + 1 ELSE leaked
  /\ UNCHANGED <<stored, object, late>>

ServePart(n, data, reply) ==
  /\ reply = "ok" => upload = "open"
  /\ stored' = IF reply \in {"ok", "lost"} /\ upload = "open"
                 THEN [stored EXCEPT ![n] = data] ELSE stored
  /\ UNCHANGED <<upload, object, late, leaked>>

\* CompleteMultipartUpload lists part numbers in ascending order with the etag
\* of each; the server assembles exactly the parts listed.
Acceptable(parts) ==
  /\ upload = "open"
  /\ parts # <<>>
  /\ \A i \in 1 .. Len(parts) : stored[parts[i].number] = parts[i].etag
  /\ \A i, j \in 1 .. Len(parts) : i < j => parts[i].number < parts[j].number

Assembled(parts) == [i \in 1 .. Len(parts) |-> parts[i].etag]

ServeComplete(parts, reply) ==
  /\ reply # "refused" => Acceptable(parts)
  /\ upload' = IF reply \in {"ok", "lost"} THEN "completed" ELSE upload
  /\ object' = IF reply \in {"ok", "lost"} THEN Assembled(parts) ELSE object
  /\ late' = IF reply = "late" THEN Assembled(parts) ELSE late
  /\ UNCHANGED <<stored, leaked>>

ServePut(data, reply) ==
  /\ object' = IF reply \in {"ok", "lost"} THEN <<data>> ELSE object
  /\ late' = IF reply = "late" THEN <<data>> ELSE late
  /\ UNCHANGED <<upload, stored, leaked>>

ServeAbort(reply) ==
  /\ reply = "ok" => upload = "open"
  /\ upload' = IF reply \in {"ok", "lost"} /\ upload = "open"
                 THEN "aborted" ELSE upload
  /\ UNCHANGED <<stored, object, late, leaked>>

\* A delayed completion finds its upload gone if it was aborted meanwhile; a
\* delayed PUT (no upload involved) always lands.
ServeLate ==
  /\ late # <<>>
  /\ late' = <<>>
  /\ object' = IF upload \in {"none", "open"} THEN late ELSE object
  /\ upload' = IF upload = "open" THEN "completed" ELSE upload
  /\ UNCHANGED <<stored, leaked>>
=============================================================================
