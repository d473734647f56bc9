------------------------- MODULE SelectObjectContent -------------------------
(***************************************************************************)
(* SelectObjectContent: the answer of the server is a stream of messages,  *)
(* which arrives in chunks that respect no boundary.  SelectHandler cuts   *)
(* it up again and hands one result per message to the caller's function.  *)
(*                                                                         *)
(* A message is four segments: prelude, prelude CRC, data, message CRC.    *)
(* The bytes of a segment matter only once all of them are there, so       *)
(* buffered data is counted in whole segments.                             *)
(***************************************************************************)
EXTENDS Integers, Sequences, FiniteSetsExt

CONSTANT Streams   \* the event streams the server may answer with

\* What process() tells apart.  "records" also stands for Progress and Stats
\* with a payload; "quiet" for Cont and for every message without payload;
\* "bad" for an error message, an unknown event type, headers or XML that cannot
\* be decoded and a wrong message CRC; "badPrelude" for a wrong prelude CRC.
Kinds == {"records", "quiet", "End", "bad", "badPrelude"}

ASSUME StreamsAssumption == Streams \subseteq Seq(Kinds)

VARIABLES
  status,     \* of the HTTP answer: "ok" or "refused" (not 2xx)
  stream,     \* the messages of its body
  received,   \* segments that have arrived
  pc,         \* "receive", "process" (in DataFunction) or "returned"
  next,       \* the message being read; those before it have been consumed
  read,       \* how many of its segments have been taken from response_
  done_,
  results,    \* the messages result_func_ was called for
  result      \* what SelectObjectContent returned: "none", "success", "error"

vars == <<status, stream, received, pc, next, read, done_, results, result>>

Messages == DOMAIN stream
Segments == 4 * Len(stream)

\* Segments in response_.
Buffered == received - 4 * (next - 1) - read

\* The body of a refusal is XML text.  If it has 12 bytes or more, the decoder
\* takes them for a prelude with a wrong CRC.
Init ==
  /\ \/ status = "ok" /\ stream \in Streams
     \/ status = "refused" /\ stream \in {<<>>, <<"badPrelude">>}
  /\ received = 0
  /\ pc = "receive"
  /\ next = 1
  /\ read = 0
  /\ done_ = FALSE
  /\ results = <<>>
  /\ result = "none"

Return(r) ==
  /\ pc' = "returned"
  /\ result' = r

----------------------------------------------------------------------------
(* SelectHandler.                                                           *)

\* A chunk completes n segments, possibly none; http.cc calls DataFunction.
DataFunction(n) ==
  /\ pc = "receive"
  /\ received < Segments
  /\ received + n <= Segments
  /\ received' = received + n
  /\ IF done_ THEN Return("success") ELSE pc' = "process" /\ UNCHANGED result
  /\ UNCHANGED <<status, stream, next, read, done_, results>>

\* How many segments process() reads before it decides about message m.
Need(m) == IF stream[m] = "badPrelude" THEN 2 ELSE 4

\* How many of the current message it has after this call.
Have == Min({Need(next), read + Buffered})

\* ReadPrelude .. ReadMessageCrc take what there is and wait for the rest.
Incomplete ==
  /\ pc = "process"
  /\ next <= Len(stream) => Have < Need(next)
  /\ read' = IF next <= Len(stream) THEN Have ELSE read
  /\ pc' = "receive"
  /\ UNCHANGED <<status, stream, received, next, done_, results, result>>

\* The next message is one of these and as complete as its kind needs.
Complete(kinds) ==
  /\ pc = "process"
  /\ next <= Len(stream)
  /\ stream[next] \in kinds
  /\ Have = Need(next)

\* Message boundaries lost: the buffer is thrown away with the message.
Reset_DropsBuffer ==
  /\ next' = IF 4 * next < received THEN next + 2 ELSE next + 1
  /\ read' = 0

Reset ==
  /\ next' = next + 1
  /\ read' = 0

\* A message without payload: process() leaves cont at false, so DataFunction
\* returns and waits for the next chunk, whatever is still in response_.
Quiet ==
  /\ Complete({"quiet"})
  /\ Reset
  /\ pc' = "receive"
  /\ UNCHANGED <<status, stream, received, done_, results, result>>

\* result_func_ is called with the current message.
Hand == results' = Append(results, next)

\* DataFunction handles one message per chunk.
Records_OnePerChunk(cont) ==
  /\ Complete({"records"})
  /\ Hand
  /\ Reset
  /\ done_' = ~cont
  /\ IF cont THEN pc' = "receive" /\ UNCHANGED result ELSE Return("success")
  /\ UNCHANGED <<status, stream, received>>

\* Records, Progress, Stats: the caller's function says whether to go on.
Records(cont) ==
  /\ Complete({"records"})
  /\ Hand
  /\ Reset
  /\ done_' = ~cont
  /\ IF cont THEN UNCHANGED <<pc, result>> ELSE Return("success")
  /\ UNCHANGED <<status, stream, received>>

\* done_ is not remembered, and the transfer is not cancelled.
Last_GoesOn ==
  /\ Complete({"End", "bad", "badPrelude"})
  /\ Hand
  /\ Reset
  /\ pc' = "receive"
  /\ UNCHANGED <<status, stream, received, done_, result>>

\* End or an error: the last result.  The transfer is cancelled, which http.cc
\* does not count as a failure (and takes for status 200).
Last ==
  /\ Complete({"End", "bad", "badPrelude"})
  /\ Hand
  /\ done_' = TRUE
  /\ read' = Have
  /\ Return("success")
  /\ UNCHANGED <<status, stream, received, next>>

\* The caller's function, or the conversion of a number in Stats, throws.
\* Request::Execute turns the exception into an error.
Throw ==
  /\ Complete({"records", "End", "bad", "badPrelude"})
  /\ \/ Hand
     \/ stream[next] = "records" /\ UNCHANGED results
  /\ done_' = (stream[next] # "records")
  /\ read' = Have
  /\ Return("error")
  /\ UNCHANGED <<status, stream, received, next>>

----------------------------------------------------------------------------
(* The end of the transfer.                                                 *)

\* The whole body has arrived; only now the status counts.
Transferred ==
  /\ pc = "receive"
  /\ received = Segments
  /\ Return(IF status = "ok" THEN "success" ELSE "error")
  /\ UNCHANGED <<status, stream, received, next, read, done_, results>>

\* The connection breaks or stalls for too long.
Broken ==
  /\ pc = "receive"
  /\ Return("error")
  /\ UNCHANGED <<status, stream, received, next, read, done_, results>>

Done ==
  /\ pc = "returned"
  /\ UNCHANGED vars

Decode ==
  \/ Incomplete
  \/ Quiet
  \/ \E cont \in BOOLEAN : Records(cont)
  \/ Last
  \/ Throw

Receive == \E n \in 0 .. Segments : DataFunction(n)

Next == Receive \/ Decode \/ Transferred \/ Broken \/ Done

Spec == Init /\ [][Next]_vars

----------------------------------------------------------------------------
(* Properties.                                                              *)

TypeOK ==
  /\ status \in {"ok", "refused"}
  /\ stream \in Seq(Kinds)
  /\ received \in 0 .. Segments
  /\ pc \in {"receive", "process", "returned"}
  /\ next \in 1 .. Len(stream) + 1
  /\ read \in 0 .. 4
  /\ done_ \in BOOLEAN
  /\ results \in Seq(Messages)
  /\ result \in {"none", "success", "error"}

\* However the stream is cut into chunks, the caller gets the messages in the
\* order of the stream, each once, and every one before the last result it got
\* that has a payload; none is handed over before all of it has arrived
\* (or, with a wrong prelude, before that has).
ResultsInOrder ==
  /\ \A i, j \in DOMAIN results : i < j => results[i] < results[j]
  /\ \A m \in Messages, i \in DOMAIN results :
       m < results[i] /\ stream[m] # "quiet"
         => \E j \in DOMAIN results : results[j] = m
  /\ \A i \in DOMAIN results :
       4 * (results[i] - 1) + Need(results[i]) <= received

\* The decoder waits for more data with a complete message in its buffer only
\* right behind a message without payload (DataFunction's "if (!cont)").
WaitsOnlyBehindQuiet ==
  pc = "receive" /\ next <= Len(stream) /\ Have = Need(next)
    => read = 0 /\ next > 1 /\ stream[next - 1] = "quiet"

\* End, an error or a caller that stops is final: nothing is handed over after
\* it, in this chunk or a later one.
NothingAfterLast ==
  [][results' # results
       => \A i \in DOMAIN results : stream[results[i]] = "records" /\ ~done_]_vars
=============================================================================
