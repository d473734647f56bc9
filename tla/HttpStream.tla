----------------------------- MODULE HttpStream ------------------------------
(***************************************************************************)
(* One request of the HTTP client (Request::execute) whose answer is       *)
(* consumed while it arrives, and its consumers: the listener for bucket   *)
(* notifications, the write callback of the C API, the decoder of          *)
(* SelectObjectContent (of which only its saying stop matters here), and   *)
(* none, which keeps the body.  The server sends a body in chunks that are *)
(* cut anywhere; the consumer may end the transfer, the progress function  *)
(* may, the line may break, and nothing may arrive any more.               *)
(*                                                                         *)
(* A body is a sequence of lines and a line is two halves and a newline,   *)
(* so that a chunk may end inside of a line and hold several.              *)
(***************************************************************************)
EXTENDS Integers, Sequences, Functions

CONSTANTS
  MaxLines,   \* the lines of a body
  Lines       \* the kinds of lines: a subset of LineKinds

\* What the listener finds in a line: records for its function, a list of no
\* records, no list at all, nothing (what keeps the connection open), and what
\* is not JSON.
LineKinds == {"records", "noRecords", "noList", "blank", "notJson"}

ASSUME HttpAssumption == MaxLines \in Nat /\ Lines \subseteq LineKinds

VARIABLES
  consumer,    \* "listen", "write_cb", "select" (the only POST) or "none"
  status,      \* what the server answers
  lines,       \* what it sends
  sent,        \* how much of it has arrived
  pc,          \* "connect", "headers", "body", "lines", then "done"
  stream_to_datafunc,
  datafunc_canceled,
  response,    \* [status_code, body, error]
  data,        \* the listener's: what is not split into lines yet
  calls,       \* the lines whose records the listener's function was given
  bytes_seen,  \* what the write callback has taken
  result       \* "none", then "ok" or "err"

requestVars == <<consumer, status, lines>>
clientVars == <<stream_to_datafunc, datafunc_canceled, response>>
consumerVars == <<data, calls, bytes_seen>>
vars == <<requestVars, sent, pc, clientVars, consumerVars, result>>

Newline == <<0, 0>>

\* The bytes of a sequence of lines.
Bytes(n) == [i \in 1 .. 3 * n |->
               IF i % 3 = 0 THEN Newline ELSE <<(i + 2) \div 3, i % 3>>]
Body == Bytes(Len(lines))

Statuses == {200, 403}
Succeeds(code) == code \in 200 .. 299

Init ==
  /\ consumer \in {"listen", "write_cb", "select", "none"}
  /\ status \in Statuses
  /\ lines \in UNION {[1 .. n -> Lines] : n \in 0 .. MaxLines}
  /\ sent = 0
  /\ pc = "connect"
  /\ stream_to_datafunc = TRUE
  /\ datafunc_canceled = FALSE
  /\ response = [status_code |-> 0, body |-> <<>>, error |-> FALSE]
  /\ data = <<>>
  /\ calls = <<>>
  /\ bytes_seen = 0
  /\ result = "none"

----------------------------------------------------------------------------
(* The request.                                                             *)

\* BaseClient::execute: an error, or a status other than 2xx, is a failure.
Ends(r) ==
  /\ response' = r
  /\ pc' = "done"
  /\ result' = IF r.error \/ ~Succeeds(r.status_code) THEN "err" ELSE "ok"

\* A client of its own for every request, which may not be valid, and whose
\* connection may not come about.
Connect ==
  /\ pc = "connect"
  /\ \/ Ends([response EXCEPT !.error = TRUE])
     \/ pc' = "headers" /\ UNCHANGED <<response, result>>
  /\ UNCHANGED <<requestVars, sent, stream_to_datafunc, datafunc_canceled, consumerVars>>

\* The response handler: the body of a failure is not for the consumer.  Only a
\* GET with a consumer has one; a POST with a consumer is given everything.
response_handler_NoGate ==
  /\ response' = [response EXCEPT !.status_code = status]
  /\ UNCHANGED stream_to_datafunc

response_handler ==
  IF consumer \in {"listen", "write_cb"}
    THEN /\ response' = [response EXCEPT !.status_code = status]
         /\ stream_to_datafunc' = Succeeds(status)
    ELSE UNCHANGED <<response, stream_to_datafunc>>

Headers ==
  /\ pc = "headers"
  /\ response_handler
  /\ pc' = "body"
  /\ UNCHANGED <<requestVars, sent, datafunc_canceled, consumerVars, result>>

\* A chunk arrives.  It is kept, or handed to the consumer.
content_receiver(chunk) ==
  IF consumer = "none" \/ ~stream_to_datafunc
    THEN /\ response' = [response EXCEPT !.body = @ \o chunk]
         /\ UNCHANGED <<pc, datafunc_canceled, consumerVars>>
  ELSE IF consumer = "listen"
    THEN /\ data' = data \o chunk
         /\ pc' = "lines"
         /\ UNCHANGED <<response, datafunc_canceled, calls, bytes_seen>>
  ELSE /\ \/ bytes_seen' = bytes_seen + Len(chunk) /\ UNCHANGED <<pc, datafunc_canceled>>
          \/ datafunc_canceled' = TRUE /\ pc' = "canceled" /\ UNCHANGED bytes_seen
       /\ UNCHANGED <<response, data, calls>>

Chunk ==
  /\ pc = "body"
  /\ \E n \in sent + 1 .. Len(Body) :
       /\ sent' = n
       /\ content_receiver(SubSeq(Body, sent + 1, n))
  /\ UNCHANGED <<requestVars, stream_to_datafunc, result>>

\* The whole body has arrived.  (Without a consumer the status comes with it.)
End ==
  /\ pc = "body"
  /\ sent = Len(Body)
  /\ Ends([response EXCEPT !.status_code = status])
  /\ UNCHANGED <<requestVars, sent, stream_to_datafunc, datafunc_canceled, consumerVars>>

\* The line breaks, nothing arrives for kStallTimeoutSecs, or the progress
\* function says stop: only the consumer's own stop is no error.
Broken ==
  /\ pc \in {"headers", "body"}
  /\ Ends([response EXCEPT !.error = TRUE])
  /\ UNCHANGED <<requestVars, sent, stream_to_datafunc, datafunc_canceled, consumerVars>>

\* The consumer has ended the transfer: the status stays what it was.
Canceled ==
  /\ pc = "canceled"
  /\ datafunc_canceled
  /\ Ends([response EXCEPT !.status_code = IF @ = 0 THEN 200 ELSE @])
  /\ UNCHANGED <<requestVars, sent, stream_to_datafunc, datafunc_canceled, consumerVars>>

----------------------------------------------------------------------------
(* The data function of ListenBucketNotification.                           *)

\* The place of the first newline in what is not split yet, 0 if there is none.
FindNewline ==
  IF \E i \in 1 .. Len(data) : data[i] = Newline
    THEN CHOOSE i \in 1 .. Len(data) :
           data[i] = Newline /\ \A j \in 1 .. i - 1 : data[j] # Newline
    ELSE 0

\* The kind of a line that is split off: two halves of one line, nothing at all,
\* or what is no JSON.
Kind(line) ==
  IF line = <<>> THEN "blank"
  ELSE IF Len(line) = 2 /\ line[1] = <<line[2][1], 1>> /\ line[2][2] = 2
    THEN lines[line[1][1]] ELSE "notJson"

\* What is left of the chunk after its last line is forgotten.
KeepRest_Forgotten == data' = <<>>

\* The rest waits for the next chunk.
KeepRest == UNCHANGED data

NoLineLeft ==
  /\ pc = "lines"
  /\ FindNewline = 0
  /\ KeepRest
  /\ pc' = "body"
  /\ UNCHANGED <<requestVars, sent, clientVars, calls, bytes_seen, result>>

\* The rest of the chunk is still gone through.
StopListening_AfterChunk == UNCHANGED pc /\ datafunc_canceled' = TRUE

StopListening == pc' = "canceled" /\ datafunc_canceled' = TRUE

\* One turn of the loop: a line is split off; its records go to the function,
\* which may say stop; a line without records is skipped.
Line ==
  LET pos == FindNewline
      line == SubSeq(data, 1, pos - 1)
  IN /\ pc = "lines"
     /\ pos # 0
     /\ Kind(line) # "notJson"
     /\ data' = SubSeq(data, pos + 1, Len(data))
     /\ IF Kind(line) = "records"
          THEN /\ calls' = Append(calls, line[1][1])
               /\ StopListening \/ UNCHANGED <<pc, datafunc_canceled>>
          ELSE UNCHANGED <<calls, pc, datafunc_canceled>>
     /\ UNCHANGED <<requestVars, sent, stream_to_datafunc, response, bytes_seen, result>>

\* json::parse throws: Request::Execute makes an error of it.
ParseError ==
  LET pos == FindNewline
  IN /\ pc = "lines"
     /\ pos # 0
     /\ Kind(SubSeq(data, 1, pos - 1)) = "notJson"
     /\ Ends([status_code |-> 0, body |-> <<>>, error |-> TRUE])
     /\ UNCHANGED <<requestVars, sent, stream_to_datafunc, datafunc_canceled, consumerVars>>

Next == Connect \/ Headers \/ Chunk \/ End \/ Broken \/ Canceled \/ NoLineLeft \/ Line
        \/ ParseError

Spec == Init /\ [][Next]_vars

\* What miniocpp_get_object returns to its caller when it streams.
miniocpp_get_object == IF result = "ok" THEN bytes_seen ELSE -1

----------------------------------------------------------------------------
(* Properties.                                                              *)

\* The lines with records among those that have arrived as a whole.
RecordLines ==
  {n \in DOMAIN lines : Succeeds(status) /\ 3 * n <= sent /\ lines[n] = "records"}

\* However the lines are cut into chunks, the listener's function is given the
\* records of every line once and in order, and waits for no later chunk.
RecordsInOrder ==
  consumer = "listen" =>
    /\ \A i, j \in DOMAIN calls : i < j => calls[i] < calls[j]
    /\ Range(calls) \subseteq RecordLines
    /\ \A m \in RecordLines, n \in Range(calls) : m < n => m \in Range(calls)
    /\ pc = "body" => Range(calls) = RecordLines

\* After its function said stop the listener gives it nothing any more, not even
\* what has arrived already.
NothingAfterStop == [][datafunc_canceled => UNCHANGED <<calls, bytes_seen>>]_vars

\* Success means that the server said so, and that the consumer has had all of it
\* or has ended the transfer itself.  A failure the server explains keeps its
\* explanation for GetErrorResponse.
HonestResult ==
  pc = "done" /\ consumer # "select" =>
    /\ result = "ok" => Succeeds(status) /\ (datafunc_canceled \/ sent = Len(Body))
    /\ result = "ok" /\ consumer = "write_cb" /\ ~datafunc_canceled
         => miniocpp_get_object = Len(Body)
    /\ result = "ok" /\ consumer = "none" => response.body = Body
    /\ result = "err" /\ ~response.error => response.body = Body
=============================================================================
