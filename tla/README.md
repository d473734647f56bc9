# TLA+ models of minio-cpp

TLA+ modules for the parts of the MinIO C++ client that keep state over several
steps (requests, chunks of an answer, threads), the TLC runs that check them on
small instances, and TLAPS proofs for every instance: each safety property of a run
is a theorem too, whatever the number of threads, parts, sources, keys or messages.
Liveness stays with TLC.
Paths are relative to the repository; `client.cc` is `src/client.cc`.

## The system and its parts

`s3::Client` (client.cc) is built on `s3::BaseClient` (baseclient.cc), which has
one method per S3 request. A request is validated (args.cc), gets its region
(`GetRegion`, with a cache shared by all threads), is signed (request.cc,
signer.cc, providers.cc) and performed by a cpp-httplib client made for it
(http.cc); its answer is kept or handed on chunk by chunk, and parsed
(response.cc, types.cc). With an RDMA client, buffers of the caller's are moved
by the server itself (rdma.h, rdma.cc). c_api.cc puts a C interface on top. The
client persists nothing. What is hard is in the operations that take
several requests, in streams that are consumed while they arrive, and in what
threads share.

| Part | State | Operations | What is hard | What makes it correct |
|---|---|---|---|---|
| parallel upload (client.cc 1211-1619) | ring of buffers, deque of futures, list of parts, upload id, first error | read, dispatch, wait, drain, complete, abort | a thread per part, buffers used again, errors and cancellation at any moment, lost and late replies | buffers never torn, object whole or untouched, nothing left behind, the call ends |
| sequential upload (791-1004, 1621-1664) | one buffer, parts, upload id | the same, one part at a time | carried byte, single part discovered late, abort by the caller's frame | the same promise |
| part sizes (utils.cc 712-759) | none | `CalcPartInfo` | roundings, limits, 32-bit arithmetic | the cut covers the object within the limits |
| compose and copy (client.cc 460-682, 1006-1136) | sources, counts, upload | `ComposeObject`, `CopyObject`, `CalculatePartCount` | two loops that must agree, sources replaced meanwhile, mutual recursion | one version of each source, cut as counted |
| batched removal (client.h 88-118, client.cc 397-449) | batch, errors of the last response, iterator | iterate, populate | boundaries of batches, failed requests | every answered error shown, everything removed |
| listing (client.h 42-86, client.cc 281-395) | page, iterator, future of the next page, arguments | iterate, populate, prefetch | a thread fetches ahead, failures, lists that follow one another on a page | order up to the lists of a page, completeness |
| region cache (baseclient.cc 92-307) | `region_map_` | `GetRegion`, `Execute`, `BucketExists`, `MakeBucket`, `RemoveBucket` | read and write in separate critical sections, late answers, stale entries, retry | answers true, wrong entries disappear |
| download to a file (client.cc 1138-1202) | temporary file, stream, target | stat, open, write, rename | object replaced meanwhile, broken transfers and their leftovers, failing writes | the file is old or whole, a success is a version of the time |
| RDMA transport (rdma.h, rdma.cc, client.cc 1211-1330, baseclient.cc `UploadPart`) | marks of the rails, registrations, buffers, attempts | register, token, send, retry, fall back to HTTP | the client gives up, the server does not: late reads and writes, several callers, servers that know nothing of it | nothing mixed is stored, no returned buffer is touched, success means what it says |
| HTTP request (http.cc 190-424) | response, who gets the body, whether the consumer has ended it | connect, headers, chunks, end, cancel | refusals while a consumer waits for data, broken lines, consumers that stop | success is what the server said |
| notification listener (baseclient.cc 1235-1297) | what is not split into lines yet | `DataFunction` | chunks that respect no line | records once, in order, at once, and none after stop |
| select (select.cc, baseclient.cc 1594-1632) | buffer, segments read, `done_` | `DataFunction`, `process` | chunks that respect no boundary, messages behind the last one | results once, in order, nothing after the end |
| credentials (providers.cc, credentials.cc, request.cc 308-358) | `creds_` of each provider and of the chain, `provider_`, mutex | `Fetch`, refresh, sign | expiry while threads share `creds_`, services that fail, a provider that throws | keys as issued and valid, all providers tried, nobody waits for ever |
| configurations (baseclient.cc, types.cc, response.cc, args.cc) | none in the client; the server's document | set, read and delete 11 kinds of configuration, and the Async calls | a document per kind written and read by different code, errors that are answers | what is read was set, success is no accident |
| C API (c_api.cc) | bytes seen, the caller's callbacks | get and put, with a buffer or a callback | a callback that stops | on top of the above |
| signing, presigned URLs, types | none | | | not modelled, see below |

`PROJECT.json` lists every component, the hazards with the line where each
bites, and for every definition the lines it models.

## The modules

* `ObjectStore` (external) is the S3 server as an upload relies on it: one
  key, the upload whose id the client holds, the count of uploads whose id it
  never learnt. A request is answered (`ok`), refused, applied with the reply
  lost, or applied after the client gave up (`late`). An etag stands for the
  data it was computed from.
* `PartInfo` is `utils::CalcPartInfo`; its limits are constants.
* `PartReader` is the lambda `read_part_data` (it occurs twice in client.cc, and
  the two agree) with `utils::ReadPart`. A chunk of data is its place `lo .. hi`
  in the caller's stream, so "no part missing, repeated or swapped" can be said.
* `MultipartUpload` is the parallel `PutObject`. `pc` is the calling thread's
  place; an element of `inflight` is a thread together with its future. One
  action per piece of the code between two points where another thread or the
  server can interfere.
* `SequentialUpload` is the other path, with its caller's abort.
* `AtomicPut` is what both promise: the object is old until it is whole, and
  success is only reported for an object in place. An error is ambiguous.
* `ComposeObject` is `ComposeObject`, `CopyObject` and `CalculatePartCount`.
  `built` in a source is what `BuildHeaders` left in it.
* `RemoveObjects`, `ListObjects` are the two iterators together with a caller that
  iterates to the end. In `ListObjects` what is shown (objects or versions, common
  prefixes, delete markers) are keys of three kinds: the server cuts pages in its
  order, and a page shows list after list.
* `BucketRegion` is the cache for one bucket under several threads.
* `DownloadObject` has a small file system: names, inodes, streams with a position
  of their own. A version's data are numbered pieces.
* `RdmaTransfer` is `rdmaPutWithRetry`, `rdmaGetWithRetry` and their three users.
  `wire` holds the transfers the server has not finished, whoever still waits
  for them; data are pairs of halves, so that a transfer can be overtaken in its
  middle; `reg` names the call a registration belongs to, which is what a token
  refers to. A buffer of `PutObject` or `GetObject` is deregistered on every way
  out (a guard object in the code); one of the upload pool stays registered from
  part to part, and is protected by the part's checksum.
* `HttpStream` is `Request::execute` with a consumer, and three consumers: the
  notification listener, line by line, the write callback of the C API, and a
  decoder that only says stop. A line is two halves and a newline; chunks are cut
  anywhere.
* `SelectObjectContent` counts what has arrived in segments (prelude, its CRC,
  data, message CRC); `Decode` is one call of `process()`, so that the loop of
  `DataFunction` is a sequence of steps.
* `CredentialChain` is `ChainedProvider::Fetch` over providers that cache. An
  assignment of credentials takes two steps, so that a copy made without the
  mutex could be torn. Time advances in ticks; an expiration has seconds and a
  fraction, `IsSet` is its `operator bool`, and `FromISO8601UTC` may read it late.
* `ConfigXml` is the conversion of each configuration into a document and back; a
  document is the set of its elements, each a path with a text, and times are of six
  kinds, by what their conversions do to them. `BucketConfig` is the one shape all 32 calls
  have (validate, execute, what counts as "not found", parse), with a row per call for what
  differs, against a server that keeps a document.
* `MC*` modules hold the values of constants that a `.cfg` cannot write.
* `PartReaderProofs` holds the lemmas about the cut of the parts and the reader that
  the proofs of both uploads use; `MultipartUploadProofs`,
  `SequentialUploadProofs`, `RdmaTransferProofs` and `HttpStreamProofs` hold the
  theorems about the module each is named after. Three hold those of several:
  `SharedStateProofs` what threads share (`CredentialChain`, `BucketRegion`,
  `BucketConfig`), `ResultsProofs` what is handed on one by one
  (`SelectObjectContent`, `RemoveObjects`, `ListObjects`), `ComposeObjectProofs` the
  two operations that must not mix versions (`ComposeObject`, `DownloadObject`).
  Each extends the first of its modules and has the others by `INSTANCE`; a theorem
  such as `Region!Spec => []Region!ExistsIsTrue` is about the instance's own
  specification, and that two instances have variables of one name in common says
  nothing about either.

The modules that compose others are `MultipartUpload`, `SequentialUpload`
(reader, part sizes and server), `ComposeObject` (part sizes and server) and
`BucketConfig` (conversions and requests).

Operators named `X_Something` are deliberate bugs: plausible wrong versions of
`X`, used to show that a property can fail. No specification uses them.

## The runs

All twelve are expected to pass.

| Run | States | Properties | Shows |
|---|---|---|---|
| `put_parallel` | 25 364 | `BufferIntact` `ObjectIntegrity` `SuccessMeansStored` `CancelHonoured` `NoUploadLeftBehind` `AbortAfterDrain` `RefinesAtomicPut` `Termination` | whatever order the threads end in, whatever fails, is lost or late: the put is atomic, cleans up and ends |
| `put_sequential` | 2 045 | `FailureLeavesNothing` `RefinesAtomicPut` | the same promise for the sequential path |
| `compose` | 103 588 | `WholeComposition` `PartsAsCounted` `NoUploadLeftBehind` `Termination` | one version of each source, cut as counted; the mutual recursion ends |
| `remove_objects` | 363 | `ErrorsReported` `AllRemoved` | errors shown once and in order, undisturbed batches remove everything |
| `list_objects` | 62 415 | `ListedInOrder` `ListingComplete` | order up to the lists of a page, and completeness without failures |
| `bucket_region` | 170 784 | `ExistsIsTrue` `CacheHeals` | true answers; a wrong entry disappears |
| `download` | 536 555 | `FileIsVersion` `SuccessIsCurrent` `FailureKeepsFile` | file old or whole, success current, failure harmless |
| `rdma` | 543 400 | `StoredWhole` `GotCurrent` `PutStored` `SecondRailLives` `QuietAfterReturn` | late transfers store no mixture and touch no returned buffer; success is real; the second attempt avoids the dead rail |
| `http` | 35 519 | `RecordsInOrder` `HonestResult` `NothingAfterStop` | records once and in order, none after stop; success is what the server said |
| `select` | 32 385 | `ResultsInOrder` `WaitsOnlyBehindQuiet` `NothingAfterLast` | results in order, waiting only behind a message without payload, nothing after the last |
| `credentials` | 328 016 | `SignedAsIssued` `FreshWhenSigned` `FailsOnlyIfAllFailed` `RequestsEnd` | keys as issued, and fresh unless they expire at a whole second; failure only of all; requests end |
| `requests` | 677 818 | `ReadsBack` `SuccessMeansDone` | what is read was set, up to the losses the property names; success of a change is a change |

Bounds, and why they are enough:

* Uploads: parts of two bytes, at most four (three) parts, two or three buffers.
  The ring wraps, both clamps of `max_inflight_parts` bite, the last part is
  full, short or absent, the stream is empty, exact, one byte over, too short,
  too long, or needs more parts than allowed. The theorems remove the bounds for
  both paths.
* Compose: sources of a byte, of one part, of a part and a byte, and of one and a half
  parts; one, two or three of them; one replacement of each, which is the least that
  can mix two versions. The theorems are about any sources and any limits.
* Removal: batches of two, up to five names (empty, partial, exact, several).
* Listing: up to six keys of the three kinds in turn, pages of one to three keys, any
  key removed at any time. A page may hold all three kinds, and two pages are full.
  The theorems remove these bounds of both iterators, and those of the region cache,
  of the download and of the configurations.
* Region cache: two threads, two regions, two changes of the bucket, one
  unanswered request.
* Download: versions of two, one and no pieces, three calls, three changes: a
  leftover longer than the next body, an empty object, a removal in every gap.
* RDMA: one caller with buffers of its own and one with a pool buffer, two rails
  of which one is dead, two calls in all, two attempts each, one replacement of the object: a
  late transfer of the first call meets the second call of the same or the
  other caller, and the marks of one caller meet the attempt of the other. The
  theorems remove the bounds: any finite set of rails, one of them dead.
* HTTP: bodies of up to three lines, each with records, without a list, empty or
  not JSON, and every cut into chunks: a chunk holds parts of three lines. A
  server that answers 2xx or not, from the headers on.
* Select: all streams of up to four messages of every kind and every cut of them
  into chunks, chunks that complete no segment included. Two messages behind one
  without payload is the least that shows what is delayed.
* Credentials: two threads, three requests, a fixed and a refreshing provider,
  lifetimes of no and one tick with and without a fraction of a second, read as they
  were meant or a tick late, and a margin of two: issue, use, expiry and a concurrent
  refresh fit in.
* Configurations: two threads, three calls (set, delete or set again, read), one
  unanswered request; for every field of a rule a value that sets it, alone or
  with others, and one that does not (`MCGiven`).

Fairness. `WF` of the calling thread and of the upload threads: each request ends,
by an answer or by the stall timeout (http.cc 198-403, 60 seconds), and threads
are scheduled. Nothing is assumed of the outcome of a request, and `late` requests
need never arrive. `BucketRegion` in addition assumes that the application keeps
calling `BucketExists`: `CacheHeals` is about what those calls do to a wrong entry,
and without calls nothing would happen. The bucket is changed finitely often
(`MaxChanges`), so "once it stays where it is" is reached. In `CredentialChain` no
fairness of the mutex is needed, as requests are finitely many. The other
modules state none and have no liveness property.

Runs check for deadlock, except `download`, `credentials`, `rdma`, `http` and
`requests`, whose callers stop after a bounded number of calls or lines; elsewhere
a call that is over stutters.

## What the models made visible

The models do what the code does; no run is kept to refute something, and the
properties are worded for what holds. Where a property has to make an exception,
this is the reason.

Uploads and copies:

* `kMaxPartSize = kMinPartSize * 1024` is computed in `unsigned int` and wraps to
  1 GiB (utils.h:56); the comments and messages say 5 GiB, and 5 TiB for the
  object where the code has 1 TiB.
* `CalculatePartCount` takes the sources by value (client.cc:461), so a
  composition of more than one part, and a `CopyObject` with a range or of an
  object above `kMaxPartSize`, reaches `std::terminate` in `ObjectSize()`
  (args.cc:403) unless the caller built the sources itself.
* A 200 answer to `CompleteMultipartUpload` with an Error document is a success for
  the client (baseclient.cc:405). `ObjectStore` has no such answer; with one,
  `SuccessMeansStored` would fail.
* A stream of unknown size that fails looks like one that ends (utils.cc:707).
* `CompleteMultipartUpload` reads `ChecksumCRC32` into the field for CRC32C.

Iterators, cache and download:

* A `RemoveObjects` request that fails as a whole is dropped (client.cc:434), and
  after a batch with errors no other batch is sent (client.cc:415): `AllRemoved`
  supposes that neither happened. The failure of a listing page is an empty page
  (client.cc:359).
* On every page prefixes come after objects and delete markers after versions
  (response.cc:305-330), and a listing without recursion has a delimiter
  (client.cc:329-333), so that of "a/x" and "b" the caller sees "b", then "a/".
  `ListedInOrder` allows this within a page, and nothing beyond it. Where V1
  sends no `NextMarker`, the last of the Contents is taken (response.cc:307-311); the
  model assumes that this is the greatest key of the page, which is so where there is
  no delimiter.
* `BucketExists` of a removed bucket whose region is cached is an error, because
  the condition for `NoSuchBucket` is inverted (baseclient.cc:180).
* `DownloadObject` does not notice a failed write (client.cc:1189): the truncated
  file is put in place and the call succeeds; `FileIsVersion` and
  `SuccessIsCurrent` suppose that no write failed. Two downloads of one object
  into one file share the temporary file (client.cc:1166); with two elements in
  `Threads`, `FileIsVersion` fails, and the run has one.

Streams:

* A refused select returns success (http.cc:384): the XML error goes to the
  decoder, which cancels the POST, and that counts as status 200. `HonestResult`
  excepts it; a POST with another consumer does not exist.
* Select messages behind one without payload wait for another chunk
  (select.cc:175); in the last chunk they are lost, and the call succeeds.
* `miniocpp_get_object` reports success when the write callback has aborted; with
  a buffer it returns the size of the buffer even if the object is shorter. A
  read callback that returns a negative number ends the stream.

Credentials:

* An expiration in whole seconds counts as none: `expired` begins with
  `if (!expiration) return false` (credentials.cc:31), and `UtcTime::operator bool`
  wants both parts to differ from zero (utils.h:185). STS and the metadata service of
  an instance send such expirations (`...:00Z`), so the provider keeps these keys for ever
  and requests are signed with dead ones. `FreshWhenSigned` excepts them.
* `FromISO8601UTC` calls `mktime` with `tm_isdst` 0 (utils.cc:535-537): under summer
  time an expiration is read an hour late, more than the margin of 10 seconds.
  `FreshWhenSigned` is about the time as it is read, `Shift` later at most.

RDMA:

* A GET that succeeds may hold halves of two versions of the object if an
  attempt that timed out was still writing (`GotCurrent` is about each half), and
  a PUT that timed out may be applied after a later call's.
* A server that ignores `x-amz-rdma-token` answers a direct PUT with 200 and an
  etag, which counts as success although the object is empty; rdma.h:151 takes
  the absent reply header for "not supported", but the etag is looked at first.
  `PutStored` is about servers that know the token.
* A transfer of no bytes at all counts as a failure of the rail, which is why
  `SecondRailLives` excepts misblamed rails. `rdmaGet` sets no etag.

Configurations (all in `ReadsBack` and `SuccessMeansDone`, as what they except):

* Times are not read as they were set. `ToISO8601UTC` prints the microseconds with
  `%03ld` and cuts the text to three characters, `FromISO8601UTC` reads these back as
  microseconds (utils.cc:526-547): 123456 becomes 123, and only less than 1000 survives. A
  time in summer comes back an hour late. A time in whole seconds counts as not set
  (utils.h:185): a lifecycle rule is written without its date (types.cc:524, 594), and
  `SetObjectRetention` refuses it (args.cc:598), while the headers of an object
  carry it. `TimeKept` says all this.
* The tags of an `And` filter and the names of notification events are lost on
  reading, `ExpiredObjectDeleteMarker` reads as true whatever it says. What belongs to
  a part that is not set (the value of a tag without key, the minutes of metrics
  without status, a key for an encryption that is off) is not written, and
  `LifecycleKept`, `DestinationKept` and their like say so.
* `GetBucketLifecycle` throws for a `NoncurrentVersionTransition` without days,
  `GetBucketReplication` for a `ReplicationTime`, and for `Metrics` without minutes:
  such rules can be set and not read. `LifecycleRule::Validate` is never called.
* `SetObjectRetentionArgs::Validate` has its condition inverted (args.cc:595).
* A retention mode or legal hold that is absent from the answer is never assigned:
  the model takes any value.
* `DeleteBucketEncryption` reports success for every error (baseclient.cc:468).
  Error codes are found by searching for a substring of the message. Texts are not
  escaped in XML.

## The proofs

Theorems hold for all values of the constants that the named assumptions allow:
any number of threads, callers, buffers, rails, providers, calls, messages, lines,
names, keys, sources and versions, any stream and part size. The assumptions are on
constants only: sizes and bounds are natural numbers, the least one where the code
divides by them or needs one of them, the set of rails is finite, the chain is a
sequence of providers. Where a module comes in by `INSTANCE`, what its theorems need
of its assumptions is a hypothesis of the theorem. Two of these stand
out: `OneDownload` (one thread, since two downloads of a version into one
file share the temporary file, and `FileIsVersion` is false of them) and, for what is
read back, `GivenIsTyped` (callers set values of the types).
Each proof has an inductive invariant whose parts are named below, and a lemma per
action; hardly any of the properties is inductive by itself.

`PartReaderProofs`: `PartsCover` (an accepted cut covers the object exactly and
respects the limits) and `AutoSizeIsLeast` (without a part size of the caller's,
the least multiple of `kMinPartSize` that fits is taken, and every permitted
object is accepted), about integers of any size; and what one call of
`read_part_data` does: the chunks read follow one another up to the carried byte
(`Contiguous`), and with a known size the parts to come hold what is left
(`Remaining`).

`MultipartUploadProofs`: `TypeCorrect` and `Inductive` (`Spec => []TypeOK`,
`Spec => []IInv`), the six safety properties of `put_parallel`
(`BuffersNeverTorn`, `ObjectAlwaysWhole`, `SuccessIsReal`, `CancelIsHonoured`,
`NothingLeftBehind`, `AbortOnlyAfterDrain`), and the refinement,
`ImplementsAtomicPut`. That a buffer may be refilled depends on the uploads in
flight occupying the consecutive buffers just behind `buf_idx` (`RingInv`), and on
buffers and etags holding the bytes of their part (`DataInv`). That the object is
whole needs, besides, that acknowledged parts followed by parts in flight are the
parts read (`OrderInv`), and that the reader keeps `Contiguous` (`CutInv`) and
`Remaining` (`SizeInv`, the only part with multiplication, for which `CalcPartInfo`
gives the base). `PhaseInv` says what each place in the code may rely on,
`StartInv` what holds before anything has happened. The refinement adds
`LateInv`: a delayed request can only belong to a call that has not succeeded;
every step then is a stutter, the commit or the return of `AtomicPut`.

`SequentialUploadProofs`: `FailureIsClean` and the refinement of the same
`AtomicPut`, `ImplementsAtomicPut`. With one buffer there is no ring: the chunk in
the buffer is the one after the acknowledged parts (`OrderInv`), chunks follow one
another (`CutInv`), and what the key holds follows from the place (`ObjectInv`).
The hard part is `PhaseInv`: the single PUT, the part discovered to be the last
one only when the next read finds nothing, and the abort made by the caller's
frame all have places of their own, and a failure may be reported only where
either no upload is known or its abort has been tried.

`RdmaTransferProofs`: `NothingIsMixed`, `SuccessIsCurrent`, `SuccessIsStored`,
`BufferIsReturned` and `RetriesAvoidTheDeadRail`. The argument for the first four is
one idea in `CallInv` and `WireInv`: the registration of a direct buffer is named
after the call that made it and is there only while that call waits, so that
whenever the server can move data (`reg[x.who] = x.key`), the transfer is one of the
present call (`RegisteredCall`) and reads what that call wrote, or writes what
the object is during that call. A pool buffer stays registered, and a late
transfer can read the next part's data; but it carries the checksum of its own
part, so what it would store is refused. An answer that counts as success is put
on the wire only when the data are in place. `RailsInv` is for the last: as long as
no rail is misblamed the marks are dead rails only, so the mark on the one dead rail
is never forgotten for being a mark on all of them.

`HttpStreamProofs`: `ResultIsHonest`, `StopIsFinal` and `EveryRecordInOrder`. The
status is known before the first byte of the body, so that a consumer is asked only
for a success (`PlaceInv`), and every chunk has gone either to the consumer or into
the response (`KeptInv`). For the listener, lines shown and lines still to be split
off are together those that have arrived, wherever the cuts are (`ListenInv`).

`ResultsProofs`, three ways to hand results on.

* Select: `EveryResultInOrder`, `WaitsForNothingElse` and `LastIsLast`. The segments
  consumed and the segments in the buffer are those that have arrived
  (`PositionInv`), and what has been handed on are the records of the messages
  consumed (`HandedInv`).
* Removal: `EveryErrorReported` and `EverythingRemoved`. The errors shown and those
  the iterator still stands before are the errors answered, in order (`ErrorInv`); as
  long as nothing is refused and no request lost, the names of all batches answered
  are removed, and the iteration is only left with names to come in order to show
  errors (`DoneInv`). A number of names that is a multiple of the batch is where
  this could go wrong.
* Listing: `KeysComeInOrder` and `NoKeyIsMissed`. The page shown, the page that the
  other thread has fetched and the position of the next request follow one another
  (`PageInv`), and without a lost page each key that stays has been
  listed, is on the page or is behind the position (`KeysInv`). A page is described by
  what it is, the keys between two positions, list after list, for any
  assignment of keys to lists. A greater key listed before a smaller one is therefore
  one of the page under iteration and of an earlier list (`OrderInv`, which counts how
  far back it may be).

`ComposeObjectProofs`.

* Compose and copy: `ComposedAsAsked`, `CutAsCounted` and `NoUploadIsLeft`. The loop of
  `CalculatePartCount` and the loop that copies compute the pieces of a source in
  different ways. `Matching` says that there is a function `before`, the parts ahead of
  each source, on which they agree: it adds up what was counted for the sources that
  are still current (a replaced one is never copied, so its count does not matter),
  and the parts put so far are the pieces of the sources done and of the present one
  up to its offset, each of the version that was counted. `PartsInv` is about their
  sizes, `WholeInv` about what is put in place, now or late. The lemmas below are
  the arithmetic: pieces end to end are the range, and all but the last one have
  `kMaxPartSize` bytes.
* Download: `FileIsWhole`, `SuccessIsAVersion`, `FailuresKeepFile`. What a stream has
  received is the beginning of one version that the object had during the call, with
  the rest still to come (`CallInv`), and no two names are one file (`FilesInv`), so
  that the target's name only ever moves to a whole version, unless a write failed.

`SharedStateProofs`.

* Credentials: `KeysBelongTogether`, `MarginSuffices` and `EveryProviderWasAsked`. The
  mutex has one owner (`LockInv`), only the owner can find or leave an assignment
  half done, so that a copy made by it is of a pair issued together (`WholeInv`);
  what is signed with had the margin left when it was checked, by the clock of the
  text as the code reads it and unless the text had no fraction (`SignInv`); and
  providers between the start of the round and the present one have failed in this
  call (`CoverInv`).
* Region cache: `ExistsTellsTheTruth`. What a thread will answer was true when the
  server said it, and that was during the call (`AnswerInv`); the cache only decides
  where the question is sent.
* Configurations: `SuccessWasDone`, since an answer that a call takes for success was
  given when its change had been made (`DoneInv`), and no row of the table forgives a
  refusal or silence but `DeleteBucketEncryption` (`FunctionsModest`).
  `ReadsWhatWasSet` has two halves. The documents: a lemma per type that what is
  read of a document is what was written to it up to what `Reads` names, and that
  reading throws just where `Unreadable` says so (`LifecycleRead`,
  `LifecycleThrows`, `ReplicationRead`, `ReplicationThrows` and so on, put together
  in `RoundTrip`); they rest on no element being written with two texts (`OneText`)
  and on which elements lie in which container (`HasIs`), and hold for any texts and
  any number of rules. The calls: the document is always what was written from the
  value given last (`ServerInv`), and what a reading call has been answered is the
  document of a value that was there while it ran (`AnswerRead`).

Only model-checked: liveness (`Termination` of the parallel upload and of compose,
`CacheHeals`, `RequestsEnd`), which TLAPS cannot do.

## Not modelled, and abstractions

* Signing, headers, SSE, checksums, the multi-part form of a post policy, presigned URLs
  (which make no request), url parsing and the dates of HTTP headers: pure data,
  strings put together character by character. `SelectRequest::ToXML` and the fields of responses that
  no later step reads are left out for the same reason.
* `ListBuckets`, `RemoveObject`, `GetObject` over HTTP and the presigned calls are one
  request each without state; `BucketRegion` has one request that stands for them.
* types.h, response.cc: what concerns configurations is in `ConfigXml`; the vendored
  `tl/expected.hpp` is not this project's code.
* An upload thread's request is one step: it reads its buffer at some moment
  between dispatch and end. `BufferIntact` is about all those moments, since it
  holds in every state in which the thread runs. `RdmaTransfer` reads a part in
  two steps.
* The progress function that the sequential path passes into the transfer itself
  can end a request, which the model sees as a refused or lost request.
* An exception inside an upload thread (of a custom provider's `Fetch`, say) comes out
  of `future.get()` and would unwind `PutObject` without an abort; the models of the
  uploads have requests that fail by their answer only. `CredentialChain` has the throw.
* `ListObjects` abstracts the three listing calls to one position; other clients
  remove keys but do not add any.
* `DownloadObject` writes a chunk when the stream gets it; the stream's own buffer is
  left out. A failed write may be any one.
* libs3rdma and the RDMA server are modelled from what the code asks of them: a
  deregistered buffer is not accessible, rails that fail are marked, and a mark
  on all is a mark on none. CUDA staging copies may fail before or after a request.
* A provider used without `ChainedProvider` by several threads races on `creds_`;
  `CredentialChain` does not model that use.
* The stream buffer that c_api.cc puts over a read callback is part of "the stream
  delivers n bytes".

## Plan

1. `RdmaTransfer` below `MultipartUpload`: a part of the parallel upload sent by RDMA,
   so that the ring's reuse of a buffer and a late read meet in one module.
2. `ObjectStore`: an error in the body of a 200 reply.
3. `CredentialChain`: providers used without the chain, where threads race on `creds_`.
