-------------------------- MODULE HttpStreamProofs ---------------------------
(***************************************************************************)
(* Request::execute with a consumer, for bodies of any length and lines of *)
(* any kind: what a result means, and that nothing is delivered after the  *)
(* consumer has said stop.                                                 *)
(***************************************************************************)
EXTENDS HttpStream, SequenceTheorems, TLAPS

Byte == Nat \X Nat

Places == {"connect", "headers", "body", "lines", "canceled", "done"}

StreamTypeOK ==
  /\ consumer \in {"listen", "write_cb", "select", "none"}
  /\ status \in Statuses
  /\ lines \in Seq(Lines)
  /\ sent \in 0 .. Len(Body)
  /\ pc \in Places
  /\ stream_to_datafunc \in BOOLEAN
  /\ datafunc_canceled \in BOOLEAN
  /\ response \in [status_code : Statuses \cup {0}, body : Seq(Byte), error : BOOLEAN]
  /\ bytes_seen \in Nat
  /\ result \in {"none", "ok", "err"}

\* What each place in the request may rely on.  The status of a failure is known
\* before its body, which is why a consumer never sees that body.
PlaceInv ==
  /\ datafunc_canceled => pc \in {"canceled", "done"}
  /\ pc = "canceled" => consumer # "none" /\ stream_to_datafunc
  /\ pc = "lines" => consumer = "listen" /\ stream_to_datafunc
  /\ pc # "done" => ~response.error
  /\ pc \in {"connect", "headers"} =>
       /\ sent = 0 /\ bytes_seen = 0 /\ response.body = <<>> /\ stream_to_datafunc
  /\ pc \in {"body", "lines", "canceled"} /\ consumer \in {"listen", "write_cb"} =>
       /\ response.status_code = status
       /\ stream_to_datafunc <=> Succeeds(status)
  /\ consumer \in {"none", "select"} => stream_to_datafunc

\* Every chunk goes to one place: it is kept, or the consumer has taken it.
KeptInv ==
  pc # "done" =>
    /\ consumer = "none" \/ ~stream_to_datafunc => response.body = SubSeq(Body, 1, sent)
    /\ consumer = "write_cb" /\ stream_to_datafunc /\ ~datafunc_canceled => bytes_seen = sent

StreamInv == StreamTypeOK /\ PlaceInv /\ KeptInv /\ HonestResult

\* A body is a sequence of bytes.
LEMMA BodyFacts ==
  ASSUME lines \in Seq(Lines)
  PROVE  Body \in Seq(Byte) /\ Len(Body) \in Nat
<1>1. Len(lines) \in Nat
  OBVIOUS
<1>2. \A i \in 1 .. 3 * Len(lines) :
        (IF i % 3 = 0 THEN Newline ELSE <<(i + 2) \div 3, i % 3>>) \in Byte
  BY <1>1 DEF Newline, Byte
<1>3. Body \in [1 .. 3 * Len(lines) -> Byte]
  BY <1>2 DEF Body, Bytes
<1>4. 3 * Len(lines) \in Nat
  BY <1>1
<1> QED BY <1>3, <1>4

\* A chunk put behind what has arrived is what has arrived then.
LEMMA ChunkFacts ==
  ASSUME lines \in Seq(Lines), sent \in 0 .. Len(Body), NEW n \in sent + 1 .. Len(Body)
  PROVE  /\ SubSeq(Body, sent + 1, n) \in Seq(Byte)
         /\ Len(SubSeq(Body, sent + 1, n)) = n - sent
         /\ SubSeq(Body, 1, sent) \o SubSeq(Body, sent + 1, n) = SubSeq(Body, 1, n)
<1>1. Body \in Seq(Byte) /\ Len(Body) \in Nat
  BY BodyFacts
<1>2. \A i \in sent + 1 .. n : Body[i] \in Byte
  BY <1>1, ElementOfSeq
<1>3. /\ SubSeq(Body, sent + 1, n) \in Seq(Byte)
      /\ Len(SubSeq(Body, sent + 1, n)) = n - sent
  <2>1. sent + 1 \in Int /\ n \in Int /\ sent + 1 <= n /\ n - (sent + 1) + 1 = n - sent
    BY <1>1
  <2> QED BY <1>2, <2>1, SubSeqProperties
<1>4. SubSeq(Body, 1, sent) \o SubSeq(Body, sent + 1, n) = SubSeq(Body, 1, n)
  <2>1. 1 \in 1 .. Len(Body) + 1 /\ sent \in 1 - 1 .. Len(Body) /\ n \in sent .. Len(Body)
    BY <1>1
  <2> QED BY <1>1, <2>1, ConcatAdjacentSubSeq
<1> QED BY <1>3, <1>4

LEMMA StreamInit == Init => StreamInv
<1> SUFFICES ASSUME Init PROVE StreamInv
  OBVIOUS
<1>1. lines \in Seq(Lines)
  BY DEF Init
<1>2. Body \in Seq(Byte) /\ Len(Body) \in Nat
  BY <1>1, BodyFacts
<1>3. StreamTypeOK
  <2>1. response \in [status_code : Statuses \cup {0}, body : Seq(Byte), error : BOOLEAN]
    BY DEF Init
  <2>2. sent \in 0 .. Len(Body)
    BY <1>2 DEF Init
  <2> QED BY <1>1, <2>1, <2>2 DEF Init, StreamTypeOK, Places
<1>4. SubSeq(Body, 1, 0) = <<>>
  BY SubSeqEmpty
<1>5. PlaceInv /\ KeptInv /\ HonestResult
  BY <1>4 DEF Init, PlaceInv, KeptInv, HonestResult
<1> QED BY <1>3, <1>5 DEF StreamInv

\* A chunk is kept or handed over.
LEMMA ChunkPreserves == StreamInv /\ Chunk => StreamInv'
<1> SUFFICES ASSUME StreamInv, Chunk PROVE StreamInv'
  OBVIOUS
<1> USE DEF StreamInv, StreamTypeOK
<1>1. PICK n \in sent + 1 .. Len(Body) :
        sent' = n /\ content_receiver(SubSeq(Body, sent + 1, n))
  BY DEF Chunk
<1> DEFINE chunk == SubSeq(Body, sent + 1, n)
<1>2. /\ pc = "body" /\ UNCHANGED <<consumer, status, lines, stream_to_datafunc, result>>
      /\ Body' = Body
  BY DEF Chunk, requestVars, Body
<1>3. /\ chunk \in Seq(Byte)
      /\ Len(chunk) = n - sent
      /\ SubSeq(Body, 1, sent) \o chunk = SubSeq(Body, 1, n)
      /\ Len(Body) \in Nat
  BY ChunkFacts, BodyFacts
<1> HIDE DEF chunk
<1>4. CASE consumer = "none" \/ ~stream_to_datafunc
  <2>1. /\ response' = [response EXCEPT !.body = @ \o chunk]
        /\ UNCHANGED <<pc, datafunc_canceled, bytes_seen>>
    BY <1>1, <1>4 DEF content_receiver, consumerVars, chunk
  <2>2. response'.body = SubSeq(Body', 1, sent') /\ response'.body \in Seq(Byte)
    <3>1. response.body = SubSeq(Body, 1, sent)
      BY <1>2, <1>4 DEF KeptInv
    <3>2. response'.body = response.body \o chunk
      BY <2>1
    <3>3. response'.body = SubSeq(Body, 1, n)
      BY <1>3, <3>1, <3>2
    <3>4. response'.body \in Seq(Byte)
      BY <1>3, <3>2
    <3> QED BY <1>1, <1>2, <3>3, <3>4
  <2>3. StreamTypeOK'
    <3>1. response' \in [status_code : Statuses \cup {0}, body : Seq(Byte), error : BOOLEAN]
      BY <2>1, <2>2
    <3>2. sent' \in 0 .. Len(Body')
      BY <1>1, <1>2, <1>3
    <3> QED BY <1>2, <2>1, <3>1, <3>2
  <2>4. PlaceInv' /\ KeptInv'
    BY <1>2, <1>4, <2>1, <2>2 DEF PlaceInv, KeptInv
  <2> QED BY <1>2, <2>1, <2>3, <2>4 DEF HonestResult
<1>5. CASE consumer = "listen" /\ stream_to_datafunc
  <2>1. /\ pc' = "lines"
        /\ UNCHANGED <<response, datafunc_canceled, bytes_seen>>
    BY <1>1, <1>5 DEF content_receiver
  <2>2. StreamTypeOK'
    BY <1>1, <1>2, <1>3, <2>1 DEF Places
  <2>3. PlaceInv' /\ KeptInv'
    BY <1>2, <1>5, <2>1 DEF PlaceInv, KeptInv
  <2> QED BY <2>1, <2>2, <2>3 DEF HonestResult
<1>6. CASE consumer \in {"write_cb", "select"} /\ stream_to_datafunc
  <2>1. /\ UNCHANGED response
        /\ \/ bytes_seen' = bytes_seen + Len(chunk) /\ UNCHANGED <<pc, datafunc_canceled>>
           \/ datafunc_canceled' = TRUE /\ pc' = "canceled" /\ UNCHANGED bytes_seen
    BY <1>1, <1>6 DEF content_receiver, chunk
  <2>2. /\ sent' = n /\ n \in 0 .. Len(Body) /\ sent \in Nat /\ bytes_seen \in Nat
        /\ Len(chunk) = n - sent /\ n - sent \in Nat
    BY <1>1, <1>3
  <2>3. bytes_seen' \in Nat
    BY <2>1, <2>2
  <2>4. pc' \in Places /\ datafunc_canceled' \in BOOLEAN
    BY <2>1 DEF Places
  <2>5. StreamTypeOK'
    BY <1>2, <2>1, <2>2, <2>3, <2>4
  <2>6. PlaceInv'
    BY <1>2, <1>6, <2>1 DEF PlaceInv
  <2>7. consumer = "write_cb" /\ ~datafunc_canceled' => bytes_seen' = sent'
    BY <1>2, <1>6, <2>1, <2>2 DEF KeptInv, PlaceInv
  <2>8. KeptInv'
    BY <1>2, <1>6, <2>7 DEF KeptInv
  <2> QED BY <1>2, <2>1, <2>5, <2>6, <2>8 DEF HonestResult
<1> QED BY <1>4, <1>5, <1>6

\* The actions that end the request, and what the result says then.
LEMMA EndPreserves ==
  StreamInv /\ (Connect \/ End \/ Broken \/ Canceled \/ ParseError) => StreamInv'
<1> SUFFICES ASSUME StreamInv, Connect \/ End \/ Broken \/ Canceled \/ ParseError
             PROVE  StreamInv'
  OBVIOUS
<1> USE DEF StreamInv, StreamTypeOK
<1>1. UNCHANGED <<consumer, status, lines, sent, stream_to_datafunc, datafunc_canceled, bytes_seen>>
      /\ Body' = Body
  BY DEF Connect, End, Broken, Canceled, ParseError, requestVars, consumerVars, Body
<1>2. Len(Body) \in Nat /\ Body \in Seq(Byte) /\ SubSeq(Body, 1, Len(Body)) = Body
  BY BodyFacts, SubSeqFull
<1>3. CASE Connect /\ pc' = "headers"
  <2>1. pc = "connect" /\ UNCHANGED <<response, result>>
    BY <1>3 DEF Connect, Ends
  <2> QED BY <1>1, <1>3, <2>1 DEF Places, PlaceInv, KeptInv, HonestResult
<1>4. CASE \E r \in [status_code : Statuses \cup {0}, body : Seq(Byte), error : {TRUE}] : Ends(r)
  <2>1. /\ response' \in [status_code : Statuses \cup {0}, body : Seq(Byte), error : BOOLEAN]
        /\ response'.error /\ pc' = "done" /\ result' = "err"
    BY <1>4 DEF Ends
  <2> QED BY <1>1, <2>1 DEF Places, PlaceInv, KeptInv, HonestResult
<1>5. CASE Connect /\ pc' # "headers"
  <2>1. Ends([response EXCEPT !.error = TRUE])
    BY <1>5 DEF Connect
  <2> QED BY <1>4, <2>1
<1>6. CASE Broken
  <2>1. Ends([response EXCEPT !.error = TRUE])
    BY <1>6 DEF Broken
  <2> QED BY <1>4, <2>1
<1>7. CASE ParseError
  <2>1. Ends([status_code |-> 0, body |-> <<>>, error |-> TRUE])
    BY <1>7 DEF ParseError
  <2>2. [status_code |-> 0, body |-> <<>>, error |-> TRUE]
          \in [status_code : Statuses \cup {0}, body : Seq(Byte), error : {TRUE}]
    OBVIOUS
  <2> QED BY <1>4, <2>1, <2>2
<1>8. CASE End
  <2>1. /\ pc = "body" /\ sent = Len(Body) /\ pc' = "done"
        /\ response' = [response EXCEPT !.status_code = status]
        /\ result' = IF response'.error \/ ~Succeeds(response'.status_code) THEN "err" ELSE "ok"
    BY <1>8 DEF End, Ends
  <2>2. ~response.error /\ response'.body = response.body /\ response'.status_code = status
    BY <2>1 DEF PlaceInv
  <2>3. consumer = "none" \/ ~stream_to_datafunc => response.body = Body
    BY <1>2, <2>1 DEF KeptInv
  <2>4. result' = "ok" <=> Succeeds(status)
    BY <2>1, <2>2
  <2>5. StreamTypeOK'
    BY <1>1, <2>1 DEF Places
  <2>6. PlaceInv' /\ KeptInv'
    BY <1>1, <2>1 DEF PlaceInv, KeptInv
  <2>7. HonestResult'
    BY <1>1, <2>1, <2>2, <2>3, <2>4
       DEF HonestResult, PlaceInv, KeptInv, miniocpp_get_object
  <2> QED BY <2>5, <2>6, <2>7
<1>9. CASE Canceled
  <2>1. /\ pc = "canceled" /\ datafunc_canceled /\ pc' = "done"
        /\ response' = [response EXCEPT !.status_code = IF @ = 0 THEN 200 ELSE @]
        /\ result' = IF response'.error \/ ~Succeeds(response'.status_code) THEN "err" ELSE "ok"
    BY <1>9 DEF Canceled, Ends
  <2>2. ~response.error /\ consumer # "none"
    BY <2>1 DEF PlaceInv
  <2>3. consumer \in {"listen", "write_cb"} =>
          response'.status_code = status /\ Succeeds(status) /\ result' = "ok"
    BY <2>1, <2>2 DEF PlaceInv, Statuses
  <2>4. StreamTypeOK'
    BY <1>1, <2>1 DEF Places, Statuses
  <2>5. PlaceInv' /\ KeptInv'
    BY <1>1, <2>1 DEF PlaceInv, KeptInv
  <2>6. HonestResult'
    BY <1>1, <2>1, <2>2, <2>3 DEF HonestResult
  <2> QED BY <2>4, <2>5, <2>6
<1> QED BY <1>3, <1>5, <1>6, <1>7, <1>8, <1>9

\* The headers, and the listener's own steps.
LEMMA QuietPreserves == StreamInv /\ (Headers \/ NoLineLeft \/ Line) => StreamInv'
<1> SUFFICES ASSUME StreamInv, Headers \/ NoLineLeft \/ Line PROVE StreamInv'
  OBVIOUS
<1> USE DEF StreamInv, StreamTypeOK
<1>1. UNCHANGED <<consumer, status, lines, sent, bytes_seen, result>> /\ Body' = Body
  BY DEF Headers, NoLineLeft, Line, requestVars, consumerVars, Body
<1>2. CASE Headers
  <2>1. pc = "headers" /\ pc' = "body" /\ UNCHANGED datafunc_canceled
    BY <1>2 DEF Headers
  <2>2. \/ /\ consumer \in {"listen", "write_cb"}
           /\ response' = [response EXCEPT !.status_code = status]
           /\ stream_to_datafunc' = Succeeds(status)
        \/ /\ consumer \notin {"listen", "write_cb"}
           /\ UNCHANGED <<response, stream_to_datafunc>>
    BY <1>2 DEF Headers, response_handler
  <2>3. sent = 0 /\ bytes_seen = 0 /\ response.body = <<>> /\ SubSeq(Body, 1, 0) = <<>>
    BY <2>1, SubSeqEmpty DEF PlaceInv
  <2>4. StreamTypeOK'
    <3>1. response' \in [status_code : Statuses \cup {0}, body : Seq(Byte), error : BOOLEAN]
      BY <2>2
    <3>2. stream_to_datafunc' \in BOOLEAN
      <4>1. Succeeds(status) \in BOOLEAN
        BY SMT DEF Succeeds
      <4>2. stream_to_datafunc' \in {stream_to_datafunc, Succeeds(status)}
        BY <2>2, Zenon
      <4> QED BY <4>1, <4>2, Zenon
    <3> QED BY <1>1, <2>1, <3>1, <3>2 DEF Places
  <2>5. PlaceInv'
    BY <1>1, <2>1, <2>2 DEF PlaceInv
  <2>6. KeptInv'
    BY <1>1, <2>1, <2>2, <2>3 DEF KeptInv
  <2> QED BY <2>1, <2>4, <2>5, <2>6 DEF HonestResult
<1>3. CASE NoLineLeft \/ Line
  <2>1. /\ pc = "lines" /\ UNCHANGED <<stream_to_datafunc, response>>
        /\ \/ pc' \in {"lines", "body"} /\ UNCHANGED datafunc_canceled
           \/ pc' = "canceled" /\ datafunc_canceled' = TRUE
    BY <1>3 DEF NoLineLeft, Line, StopListening, clientVars
  <2>2. StreamTypeOK'
    BY <1>1, <2>1 DEF Places
  <2>3. PlaceInv' /\ KeptInv'
    BY <1>1, <2>1 DEF PlaceInv, KeptInv
  <2> QED BY <2>1, <2>2, <2>3 DEF HonestResult
<1> QED BY <1>2, <1>3

LEMMA StreamNext == StreamInv /\ [Next]_vars => StreamInv'
<1> SUFFICES ASSUME StreamInv, [Next]_vars PROVE StreamInv'
  OBVIOUS
<1>1. CASE UNCHANGED vars
  BY <1>1 DEF StreamInv, StreamTypeOK, PlaceInv, KeptInv, HonestResult, Body,
              miniocpp_get_object, vars, requestVars, clientVars, consumerVars
<1> QED BY <1>1, ChunkPreserves, EndPreserves, QuietPreserves DEF Next

\* Whatever arrives, in whatever chunks, and whoever ends the transfer, a success
\* of Request::Execute is a success of the server whose body the consumer has had
\* whole or did not want, and an error answer keeps its whole explanation.
THEOREM ResultIsHonest == Spec => []HonestResult
<1>1. StreamInv => HonestResult
  BY DEF StreamInv
<1> QED BY <1>1, StreamInit, StreamNext, PTL DEF Spec

\* After the consumer has said stop, no record and no byte is given to it.
THEOREM StopIsFinal == Spec => NothingAfterStop
<1>1. StreamInv /\ [Next]_vars => [datafunc_canceled => UNCHANGED <<calls, bytes_seen>>]_vars
  <2> SUFFICES ASSUME StreamInv, Next, datafunc_canceled
               PROVE  UNCHANGED <<calls, bytes_seen>>
    BY DEF vars, consumerVars
  <2>1. pc \in {"canceled", "done"}
    BY DEF StreamInv, PlaceInv
  <2>2. Canceled
    BY <2>1 DEF Next, Connect, Headers, Chunk, End, Broken, NoLineLeft, Line, ParseError
  <2> QED BY <2>2 DEF Canceled, consumerVars
<1> QED BY <1>1, StreamInit, StreamNext, PTL DEF Spec, NothingAfterStop

----------------------------------------------------------------------------
(* The listener's lines.                                                    *)

\* The first k lines are split off; the rest of what has arrived waits, and is
\* less than a line when the listener waits for more.
ListenedTo(k) ==
  /\ 3 * k <= sent
  /\ data = SubSeq(Body, 3 * k + 1, sent)
  /\ \A i, j \in DOMAIN calls : i < j => calls[i] < calls[j]
  /\ \A i \in DOMAIN calls : calls[i] \in 1 .. k /\ lines[calls[i]] = "records"
  /\ \A n \in 1 .. k : lines[n] = "records" => \E i \in DOMAIN calls : calls[i] = n
  /\ pc \in {"connect", "headers", "body"} => sent < 3 * (k + 1)
  /\ k > 0 => Succeeds(status)

ListenInv ==
  consumer = "listen" =>
    /\ calls \in Seq(Nat)
    /\ IF stream_to_datafunc THEN \E k \in 0 .. Len(lines) : ListenedTo(k) ELSE calls = <<>>

\* A line is two halves and a newline.
LEMMA LineBytes ==
  ASSUME lines \in Seq(Lines), NEW k \in Nat, k < Len(lines)
  PROVE  /\ Len(Body) = 3 * Len(lines)
         /\ Body[3 * k + 1] = <<k + 1, 1>>
         /\ Body[3 * k + 2] = <<k + 1, 2>>
         /\ Body[3 * k + 3] = Newline
<1>1. Len(lines) \in Nat
  OBVIOUS
<1>2. /\ 3 * k + 1 \in 1 .. 3 * Len(lines)
      /\ 3 * k + 2 \in 1 .. 3 * Len(lines)
      /\ 3 * k + 3 \in 1 .. 3 * Len(lines)
  BY <1>1
<1>3. /\ (3 * k + 1) % 3 = 1 /\ (3 * k + 1 + 2) \div 3 = k + 1
      /\ (3 * k + 2) % 3 = 2 /\ (3 * k + 2 + 2) \div 3 = k + 1
      /\ (3 * k + 3) % 3 = 0
  OBVIOUS
<1>4. Len(Body) = 3 * Len(lines)
  BY <1>1 DEF Body, Bytes
<1> QED BY <1>2, <1>3, <1>4 DEF Body, Bytes

\* The rest, when k lines have been split off.
LEMMA RestFacts ==
  ASSUME lines \in Seq(Lines), sent \in 0 .. Len(Body), NEW k \in Nat, 3 * k <= sent
  PROVE  LET rest == SubSeq(Body, 3 * k + 1, sent)
         IN /\ Len(Body) = 3 * Len(lines) /\ Len(lines) \in Nat
            /\ rest \in Seq(Byte)
            /\ Len(rest) = sent - 3 * k
            /\ \A i \in 1 .. sent - 3 * k : rest[i] = Body[3 * k + i]
<1>1. Body \in Seq(Byte) /\ Len(Body) \in Nat /\ Len(lines) \in Nat
  BY BodyFacts
<1>2. Len(Body) = 3 * Len(lines)
  BY <1>1 DEF Body, Bytes
<1>3. PICK m \in Int : m = 3 * k + 1
  OBVIOUS
<1>4. \A i \in m .. sent : Body[i] \in Byte
  BY <1>1, <1>3, ElementOfSeq
<1>5. /\ SubSeq(Body, m, sent) \in Seq(Byte)
      /\ Len(SubSeq(Body, m, sent)) = IF m <= sent THEN sent - m + 1 ELSE 0
      /\ \A i \in 1 .. sent - m + 1 : SubSeq(Body, m, sent)[i] = Body[m + i - 1]
  BY <1>1, <1>4, SubSeqProperties
<1>6. Len(SubSeq(Body, m, sent)) = sent - 3 * k
  BY <1>1, <1>3, <1>5
<1>7. \A i \in 1 .. sent - 3 * k : SubSeq(Body, m, sent)[i] = Body[3 * k + i]
  <2> SUFFICES ASSUME NEW i \in 1 .. sent - 3 * k
               PROVE  SubSeq(Body, m, sent)[i] = Body[3 * k + i]
    OBVIOUS
  <2>1. i \in 1 .. sent - m + 1 /\ m + i - 1 = 3 * k + i
    BY <1>1, <1>3
  <2> QED BY <1>5, <2>1
<1> QED BY <1>1, <1>2, <1>3, <1>5, <1>6, <1>7

\* A sequence without its first line.
LEMMA DropFacts ==
  ASSUME NEW S, NEW s \in Seq(S)
  PROVE  /\ SubSeq(s, 4, Len(s)) \in Seq(S)
         /\ Len(SubSeq(s, 4, Len(s))) = IF 4 <= Len(s) THEN Len(s) - 3 ELSE 0
         /\ \A i \in 1 .. Len(s) - 3 : SubSeq(s, 4, Len(s))[i] = s[3 + i]
<1>1. PICK m \in Int, n \in Int : m = 4 /\ n = Len(s)
  OBVIOUS
<1>2. \A i \in m .. n : s[i] \in S
  <2>1. \A i \in m .. n : i \in 1 .. Len(s)
    BY <1>1
  <2> QED BY <2>1, ElementOfSeq
<1>3. /\ SubSeq(s, m, n) \in Seq(S)
      /\ Len(SubSeq(s, m, n)) = IF m <= n THEN n - m + 1 ELSE 0
      /\ \A i \in 1 .. n - m + 1 : SubSeq(s, m, n)[i] = s[m + i - 1]
  BY <1>2, SubSeqProperties
<1>4. n - m + 1 = Len(s) - 3 /\ \A i \in Int : m + i - 1 = 3 + i
  BY <1>1
<1>5. Len(SubSeq(s, m, n)) = IF 4 <= Len(s) THEN Len(s) - 3 ELSE 0
  BY <1>1, <1>3, <1>4
<1>6. \A i \in 1 .. Len(s) - 3 : SubSeq(s, m, n)[i] = s[3 + i]
  <2>1. \A i \in 1 .. Len(s) - 3 : i \in Int
    OBVIOUS
  <2> QED BY <1>3, <1>4, <2>1, Zenon
<1> QED BY <1>1, <1>3, <1>5, <1>6, Zenon

\* What is left of a body when a line is taken off its rest.
LEMMA RestOfRest ==
  ASSUME lines \in Seq(Lines), sent \in 0 .. Len(Body), NEW k \in Nat, 3 * (k + 1) <= sent,
         data = SubSeq(Body, 3 * k + 1, sent)
  PROVE  SubSeq(data, 4, Len(data)) = SubSeq(Body, 3 * (k + 1) + 1, sent)
<1>1. sent \in Nat /\ k + 1 \in Nat /\ 3 * k <= sent
  BY BodyFacts
<1>2. /\ data \in Seq(Byte) /\ Len(data) = sent - 3 * k
      /\ \A i \in 1 .. sent - 3 * k : data[i] = Body[3 * k + i]
  BY <1>1, RestFacts
<1> DEFINE new == SubSeq(Body, 3 * (k + 1) + 1, sent)
<1>3. /\ new \in Seq(Byte) /\ Len(new) = sent - 3 * (k + 1)
      /\ \A i \in 1 .. sent - 3 * (k + 1) : new[i] = Body[3 * (k + 1) + i]
  BY <1>1, RestFacts
<1> DEFINE old == SubSeq(data, 4, Len(data))
<1>4. /\ old \in Seq(Byte)
      /\ Len(old) = IF 4 <= Len(data) THEN Len(data) - 3 ELSE 0
      /\ \A i \in 1 .. Len(data) - 3 : old[i] = data[3 + i]
  BY <1>2, DropFacts
<1> HIDE DEF new, old
<1>5. Len(old) = Len(new)
  BY <1>1, <1>2, <1>3, <1>4
<1>6. \A i \in 1 .. Len(new) : old[i] = new[i]
  <2> SUFFICES ASSUME NEW i \in 1 .. Len(new) PROVE old[i] = new[i]
    OBVIOUS
  <2>1. i \in 1 .. sent - 3 * (k + 1) /\ i \in 1 .. Len(data) - 3
    BY <1>1, <1>2, <1>3
  <2>2. 3 + i \in 1 .. sent - 3 * k /\ 3 * k + (3 + i) = 3 * (k + 1) + i
    BY <1>1, <2>1
  <2>3. old[i] = data[3 + i] /\ data[3 + i] = Body[3 * (k + 1) + i]
    BY <1>2, <1>4, <2>1, <2>2
  <2> QED BY <1>3, <2>1, <2>3
<1>7. old = new
  BY <1>3, <1>4, <1>5, <1>6, SeqEqual
<1> QED BY <1>7 DEF old, new

LEMMA FirstTwo ==
  ASSUME NEW S, NEW s \in Seq(S), 3 \in 1 .. Len(s)
  PROVE  LET t == SubSeq(s, 1, 2)
         IN Len(t) = 2 /\ t[1] = s[1] /\ t[2] = s[2] /\ t # <<>>
<1>1. PICK m \in Int, n \in Int : m = 1 /\ n = 2
  OBVIOUS
<1>2. \A i \in m .. n : s[i] \in S
  <2>1. \A i \in m .. n : i \in 1 .. Len(s)
    BY <1>1
  <2> QED BY <2>1, ElementOfSeq
<1>3. /\ SubSeq(s, m, n) \in Seq(S)
      /\ Len(SubSeq(s, m, n)) = IF m <= n THEN n - m + 1 ELSE 0
      /\ \A i \in 1 .. n - m + 1 : SubSeq(s, m, n)[i] = s[m + i - 1]
  BY <1>1, <1>2, SubSeqProperties
<1>4. Len(SubSeq(s, m, n)) = 2
  BY <1>1, <1>3
<1>5. SubSeq(s, m, n)[1] = s[1] /\ SubSeq(s, m, n)[2] = s[2]
  <2>1. /\ 1 \in 1 .. n - m + 1 /\ m + 1 - 1 = 1
        /\ 2 \in 1 .. n - m + 1 /\ m + 2 - 1 = 2
    BY <1>1
  <2> QED BY <1>3, <2>1
<1>6. SubSeq(s, m, n) # <<>>
  BY <1>3, <1>4, EmptySeq
<1> QED BY <1>1, <1>4, <1>5, <1>6

\* What the loop of the data function finds: nothing before a whole line is there,
\* and then that line.
LEMMA LineFacts ==
  ASSUME lines \in Seq(Lines), sent \in 0 .. Len(Body), NEW k \in Nat, 3 * k <= sent,
         data = SubSeq(Body, 3 * k + 1, sent)
  PROVE  /\ sent < 3 * (k + 1) => FindNewline = 0
         /\ sent >= 3 * (k + 1) =>
              /\ FindNewline = 3
              /\ k + 1 \in 1 .. Len(lines)
              /\ Kind(SubSeq(data, 1, 2)) = lines[k + 1]
              /\ SubSeq(data, 1, 2)[1][1] = k + 1
<1>1. /\ Len(Body) = 3 * Len(lines) /\ Len(lines) \in Nat /\ sent \in Nat
      /\ data \in Seq(Byte) /\ Len(data) = sent - 3 * k
      /\ \A i \in 1 .. sent - 3 * k : data[i] = Body[3 * k + i]
  BY BodyFacts, RestFacts
<1>2. <<k + 1, 1>> # Newline /\ <<k + 1, 2>> # Newline
  BY DEF Newline
<1>3. sent > 3 * k =>
        /\ Body[3 * k + 1] = <<k + 1, 1>>
        /\ Body[3 * k + 2] = <<k + 1, 2>>
        /\ Body[3 * k + 3] = Newline
        /\ k + 1 \in 1 .. Len(lines)
  <2> SUFFICES ASSUME sent > 3 * k
               PROVE  /\ Body[3 * k + 1] = <<k + 1, 1>>
                      /\ Body[3 * k + 2] = <<k + 1, 2>>
                      /\ Body[3 * k + 3] = Newline
                      /\ k + 1 \in 1 .. Len(lines)
    OBVIOUS
  <2>1. k < Len(lines)
    BY <1>1
  <2> QED BY <1>1, <2>1, LineBytes
<1>4. ASSUME sent < 3 * (k + 1) PROVE FindNewline = 0
  <2>1. ASSUME NEW i \in 1 .. Len(data) PROVE data[i] # Newline
    <3>1. sent > 3 * k /\ i \in {1, 2} /\ i \in 1 .. sent - 3 * k
      BY <1>1, <1>4
    <3> QED BY <1>1, <1>2, <1>3, <3>1
  <2> QED BY <2>1 DEF FindNewline
<1>5. ASSUME sent >= 3 * (k + 1)
      PROVE  /\ FindNewline = 3
             /\ Kind(SubSeq(data, 1, 2)) = lines[k + 1]
             /\ SubSeq(data, 1, 2)[1][1] = k + 1
  <2>1. sent > 3 * k /\ {1, 2, 3} \subseteq 1 .. sent - 3 * k
    BY <1>1, <1>5
  <2>2. data[1] = <<k + 1, 1>> /\ data[2] = <<k + 1, 2>> /\ data[3] = Newline
    BY <1>1, <1>3, <2>1
  <2>3. 3 \in 1 .. Len(data) /\ Len(data) \in Nat
    BY <1>1, <2>1
  <2>4. FindNewline = 3
    <3>1. \A j \in 1 .. 3 - 1 : data[j] # Newline
      <4>1. \A j \in 1 .. 3 - 1 : j = 1 \/ j = 2
        OBVIOUS
      <4> QED BY <1>2, <2>2, <4>1
    <3>2. ASSUME NEW i \in 1 .. Len(data), data[i] = Newline,
                 \A j \in 1 .. i - 1 : data[j] # Newline
          PROVE  i = 3
      <4>1. i # 1 /\ i # 2
        BY <1>2, <2>2, <3>2
      <4>2. ~(i > 3)
        <5>1. i > 3 => 3 \in 1 .. i - 1
          OBVIOUS
        <5> QED BY <2>2, <3>2, <5>1
      <4> QED BY <2>3, <4>1, <4>2
    <3> QED BY <2>2, <2>3, <3>1, <3>2 DEF FindNewline
  <2> DEFINE line == SubSeq(data, 1, 2)
  <2>5. Len(line) = 2 /\ line[1] = data[1] /\ line[2] = data[2] /\ line # <<>>
    BY <1>1, <2>3, FirstTwo
  <2> HIDE DEF line
  <2>6. line[1][1] = k + 1 /\ line[1] = <<line[2][1], 1>> /\ line[2][2] = 2
    BY <2>2, <2>5
  <2>7. Kind(line) = lines[k + 1]
    BY <2>5, <2>6 DEF Kind
  <2> QED BY <2>4, <2>6, <2>7 DEF line
<1> QED BY <1>1, <1>3, <1>4, <1>5

LEMMA ListenInit == Init => ListenInv
<1> SUFFICES ASSUME Init, consumer = "listen" PROVE ListenInv
  BY DEF ListenInv
<1>1. calls = <<>> /\ calls \in Seq(Nat) /\ data = <<>> /\ sent = 0 /\ stream_to_datafunc
  BY DEF Init
<1>2. SubSeq(Body, 3 * 0 + 1, sent) = <<>>
  BY <1>1, SubSeqEmpty
<1>3. ListenedTo(0)
  BY <1>1, <1>2 DEF ListenedTo
<1>4. lines \in Seq(Lines)
  BY DEF Init
<1>5. 0 \in 0 .. Len(lines)
  BY <1>4
<1> QED BY <1>1, <1>3, <1>5 DEF ListenInv

\* Nothing moves but the place of the request.
LEMMA ListenFrame ==
  ASSUME ListenInv, UNCHANGED <<requestVars, sent, stream_to_datafunc, data, calls>>,
         pc' \in {"connect", "headers", "body"} => pc \in {"connect", "headers", "body"}
  PROVE  ListenInv'
<1>1. \A k : ListenedTo(k) => ListenedTo(k)'
  BY DEF ListenedTo, requestVars, Body
<1> QED BY <1>1 DEF ListenInv, requestVars

\* The chunk goes behind the rest.
LEMMA ListenChunk ==
  ASSUME StreamInv, ListenInv, Chunk
  PROVE  ListenInv'
<1> USE DEF StreamInv, StreamTypeOK
<1>1. PICK n \in sent + 1 .. Len(Body) :
        sent' = n /\ content_receiver(SubSeq(Body, sent + 1, n))
  BY DEF Chunk
<1>2. /\ pc = "body" /\ UNCHANGED <<consumer, status, lines, stream_to_datafunc>>
      /\ Body' = Body
  BY DEF Chunk, requestVars, Body
<1> SUFFICES ASSUME consumer = "listen" PROVE ListenInv'
  BY <1>2 DEF ListenInv
<1>3. CASE ~stream_to_datafunc
  BY <1>1, <1>2, <1>3 DEF content_receiver, consumerVars, ListenInv
<1>4. CASE stream_to_datafunc
  <2>1. data' = data \o SubSeq(Body, sent + 1, n) /\ pc' = "lines" /\ UNCHANGED calls
    BY <1>1, <1>4 DEF content_receiver
  <2>2. PICK k \in 0 .. Len(lines) : ListenedTo(k)
    BY <1>4 DEF ListenInv
  <2>3. /\ Body \in Seq(Byte) /\ Len(Body) \in Nat /\ k \in Nat /\ sent \in Nat
        /\ 3 * k <= sent
    BY <2>2, BodyFacts DEF ListenedTo
  <2>4. data' = SubSeq(Body, 3 * k + 1, n)
    <3>1. PICK m : m = 3 * k + 1
      OBVIOUS
    <3>2. m \in 1 .. Len(Body) + 1 /\ sent \in m - 1 .. Len(Body) /\ n \in sent .. Len(Body)
      BY <2>3, <3>1
    <3>3. SubSeq(Body, m, sent) \o SubSeq(Body, sent + 1, n) = SubSeq(Body, m, n)
      BY <2>3, <3>2, ConcatAdjacentSubSeq
    <3> QED BY <2>1, <2>2, <3>1, <3>3 DEF ListenedTo
  <2>5. 3 * k <= n
    BY <2>3
  <2>6. ListenedTo(k)'
    BY <1>1, <1>2, <2>1, <2>2, <2>4, <2>5 DEF ListenedTo
  <2> QED BY <1>2, <1>4, <2>1, <2>6 DEF ListenInv
<1> QED BY <1>3, <1>4

\* One more line is split off, and its records are handed over.
LEMMA ListenLine ==
  ASSUME StreamInv, ListenInv, Line
  PROVE  ListenInv'
<1> USE DEF StreamInv, StreamTypeOK
<1>1. /\ pc = "lines" /\ UNCHANGED <<consumer, status, lines, sent, stream_to_datafunc>>
      /\ pc' \in {"lines", "canceled"} /\ Body' = Body
  BY DEF Line, StopListening, requestVars, Body
<1>2. consumer = "listen" /\ stream_to_datafunc
  BY <1>1 DEF PlaceInv
<1>3. PICK k \in 0 .. Len(lines) : ListenedTo(k)
  BY <1>2 DEF ListenInv
<1>4. k \in Nat /\ 3 * k <= sent /\ data = SubSeq(Body, 3 * k + 1, sent) /\ sent \in Nat
  BY <1>3, BodyFacts DEF ListenedTo
<1>5. sent >= 3 * (k + 1)
  <2>1. ~(sent < 3 * (k + 1))
    BY <1>4, LineFacts DEF Line
  <2> QED BY <1>4, <2>1
<1>6. /\ FindNewline = 3
      /\ k + 1 \in 1 .. Len(lines)
      /\ Kind(SubSeq(data, 1, 2)) = lines[k + 1]
      /\ SubSeq(data, 1, 2)[1][1] = k + 1
  BY <1>4, <1>5, LineFacts
<1>7. data' = SubSeq(Body, 3 * (k + 1) + 1, sent)
  <2>1. data' = SubSeq(data, 4, Len(data))
    <3>1. 3 + 1 = 4
      OBVIOUS
    <3>2. data' = SubSeq(data, FindNewline + 1, Len(data))
      BY DEF Line
    <3> QED BY <1>6, <3>1, <3>2
  <2> QED BY <1>4, <1>5, <2>1, RestOfRest
<1>8. IF lines[k + 1] = "records" THEN calls' = Append(calls, k + 1) ELSE calls' = calls
  <2>1. SubSeq(data, 1, FindNewline - 1) = SubSeq(data, 1, 2)
    BY <1>6
  <2>2. IF Kind(SubSeq(data, 1, FindNewline - 1)) = "records"
          THEN calls' = Append(calls, SubSeq(data, 1, FindNewline - 1)[1][1])
          ELSE calls' = calls
    BY DEF Line
  <2> QED BY <1>6, <2>1, <2>2
<1>9. /\ calls \in Seq(Nat)
      /\ \A i, j \in DOMAIN calls : i < j => calls[i] < calls[j]
      /\ \A i \in DOMAIN calls : calls[i] \in 1 .. k /\ lines[calls[i]] = "records"
      /\ \A n \in 1 .. k : lines[n] = "records" => \E i \in DOMAIN calls : calls[i] = n
  BY <1>2, <1>3 DEF ListenInv, ListenedTo
<1>10. Succeeds(status)
  BY <1>1, <1>2 DEF PlaceInv
<1>11. /\ calls' \in Seq(Nat)
       /\ \A i, j \in DOMAIN calls' : i < j => calls'[i] < calls'[j]
       /\ \A i \in DOMAIN calls' : calls'[i] \in 1 .. k + 1 /\ lines[calls'[i]] = "records"
       /\ \A n \in 1 .. k + 1 : lines[n] = "records" => \E i \in DOMAIN calls' : calls'[i] = n
  <2>1. CASE lines[k + 1] # "records"
    BY <1>4, <1>8, <1>9, <2>1
  <2>2. CASE lines[k + 1] = "records"
    <3>1. /\ Len(calls) \in Nat /\ DOMAIN calls = 1 .. Len(calls) /\ k + 1 \in Nat
          /\ calls' = Append(calls, k + 1)
      BY <1>4, <1>8, <1>9, <2>2
    <3>2. /\ calls' \in Seq(Nat)
          /\ DOMAIN calls' = 1 .. Len(calls) + 1
          /\ \A i \in 1 .. Len(calls) : calls'[i] = calls[i]
          /\ calls'[Len(calls) + 1] = k + 1
      BY <1>9, <3>1, AppendProperties
    <3>3. ASSUME NEW i \in DOMAIN calls', NEW j \in DOMAIN calls', i < j
          PROVE  calls'[i] < calls'[j]
      <4>1. i \in 1 .. Len(calls) /\ (j \in 1 .. Len(calls) \/ j = Len(calls) + 1)
        BY <3>1, <3>2, <3>3
      <4>2. calls'[i] = calls[i] /\ calls[i] \in 1 .. k
        BY <1>9, <3>1, <3>2, <4>1
      <4>3. CASE j = Len(calls) + 1
        BY <1>4, <3>2, <4>2, <4>3
      <4>4. CASE j \in 1 .. Len(calls)
        BY <1>9, <3>1, <3>2, <3>3, <4>1, <4>2, <4>4
      <4> QED BY <4>1, <4>3, <4>4
    <3>4. ASSUME NEW i \in DOMAIN calls'
          PROVE  calls'[i] \in 1 .. k + 1 /\ lines[calls'[i]] = "records"
      <4>1. CASE i = Len(calls) + 1
        BY <1>4, <2>2, <3>2, <4>1
      <4>2. CASE i \in 1 .. Len(calls)
        <5>1. calls'[i] = calls[i] /\ calls[i] \in 1 .. k /\ lines[calls[i]] = "records"
          BY <1>9, <3>1, <3>2, <4>2
        <5> QED BY <1>4, <5>1
      <4>3. i = Len(calls) + 1 \/ i \in 1 .. Len(calls)
        BY <3>1, <3>2
      <4> QED BY <4>1, <4>2, <4>3
    <3>5. ASSUME NEW n \in 1 .. k + 1, lines[n] = "records"
          PROVE  \E i \in DOMAIN calls' : calls'[i] = n
      <4>1. CASE n = k + 1
        BY <3>1, <3>2, <4>1
      <4>2. CASE n # k + 1
        <5>1. n \in 1 .. k
          BY <1>4, <4>2
        <5>2. PICK i \in DOMAIN calls : calls[i] = n
          BY <1>9, <3>5, <5>1
        <5> QED BY <3>1, <3>2, <5>2
      <4> QED BY <4>1, <4>2
    <3> QED BY <3>2, <3>3, <3>4, <3>5
  <2> QED BY <2>1, <2>2
<1>12. ListenedTo(k + 1)'
  BY <1>1, <1>5, <1>7, <1>10, <1>11 DEF ListenedTo, Succeeds
<1>13. k + 1 \in 0 .. Len(lines')
  BY <1>1, <1>6
<1> QED BY <1>1, <1>2, <1>11, <1>12, <1>13 DEF ListenInv

LEMMA ListenNext == StreamInv /\ ListenInv /\ [Next]_vars => ListenInv'
<1> SUFFICES ASSUME StreamInv, ListenInv, [Next]_vars PROVE ListenInv'
  OBVIOUS
<1> USE DEF StreamInv, StreamTypeOK
<1>1. CASE Connect \/ End \/ Broken \/ Canceled \/ ParseError
  <2>1. UNCHANGED <<requestVars, sent, stream_to_datafunc, data, calls>>
    BY <1>1 DEF Connect, End, Broken, Canceled, ParseError, consumerVars
  <2>2. pc' \in {"connect", "headers", "body"} => pc \in {"connect", "headers", "body"}
    BY <1>1 DEF Connect, End, Broken, Canceled, ParseError, Ends
  <2> QED BY <2>1, <2>2, ListenFrame
<1>2. CASE Headers
  <2>1. /\ pc = "headers" /\ UNCHANGED <<requestVars, sent, data, calls>>
        /\ stream_to_datafunc
    BY <1>2 DEF Headers, consumerVars, PlaceInv
  <2>2. CASE stream_to_datafunc'
    <3>1. UNCHANGED stream_to_datafunc
      BY <2>1, <2>2 DEF PlaceInv
    <3> QED BY <2>1, <3>1, ListenFrame
  <2>3. CASE ~stream_to_datafunc'
    <3> SUFFICES ASSUME consumer = "listen" PROVE calls' = <<>> /\ calls' \in Seq(Nat)
      BY <2>1, <2>3 DEF ListenInv, requestVars
    <3>1. PICK k \in 0 .. Len(lines) : ListenedTo(k)
      BY <2>1 DEF ListenInv
    <3>2. k = 0
      BY <2>1, <3>1 DEF ListenedTo, PlaceInv
    <3>3. calls \in Seq(Nat) /\ DOMAIN calls = 1 .. Len(calls)
      BY DEF ListenInv
    <3>4. \A i \in DOMAIN calls : FALSE
      BY <3>1, <3>2 DEF ListenedTo
    <3>5. Len(calls) = 0
      <4>1. Len(calls) \in Nat /\ (Len(calls) > 0 => 1 \in DOMAIN calls)
        BY <3>3
      <4> QED BY <3>4, <4>1
    <3>6. calls = <<>>
      BY <3>3, <3>5, EmptySeq
    <3> QED BY <2>1, <3>6, <3>3
  <2> QED BY <2>2, <2>3
<1>3. CASE NoLineLeft
  <2>1. /\ pc = "lines" /\ pc' = "body" /\ FindNewline = 0
        /\ UNCHANGED <<consumer, status, lines, sent, data, calls, stream_to_datafunc>>
        /\ consumer = "listen" /\ stream_to_datafunc /\ Body' = Body
    BY <1>3 DEF NoLineLeft, KeepRest, requestVars, clientVars, PlaceInv, Body
  <2>2. PICK k \in 0 .. Len(lines) : ListenedTo(k)
    BY <2>1 DEF ListenInv
  <2>3. k \in Nat /\ 3 * k <= sent /\ data = SubSeq(Body, 3 * k + 1, sent) /\ sent \in Nat
    BY <2>2, BodyFacts DEF ListenedTo
  <2>4. sent < 3 * (k + 1)
    <3>1. sent >= 3 * (k + 1) => FindNewline = 3
      BY <2>3, LineFacts
    <3> QED BY <2>1, <2>3, <3>1
  <2>5. ListenedTo(k)'
    BY <2>1, <2>2, <2>4 DEF ListenedTo, Succeeds
  <2> QED BY <2>1, <2>5 DEF ListenInv
<1>4. CASE UNCHANGED vars
  <2>1. UNCHANGED <<requestVars, sent, stream_to_datafunc, data, calls, pc>>
    BY <1>4 DEF vars, clientVars, consumerVars
  <2> QED BY <2>1, ListenFrame
<1> QED BY <1>1, <1>2, <1>3, <1>4, ListenChunk, ListenLine DEF Next

\* The listener's function is given the records of every line that has arrived,
\* once and in order, whatever the cuts between the chunks and whatever the lines
\* in between; and nothing complete waits when the data function returns.
THEOREM EveryRecordInOrder == Spec => []RecordsInOrder
<1>1. StreamInv /\ ListenInv => RecordsInOrder
  <2> SUFFICES ASSUME StreamInv, ListenInv, consumer = "listen"
               PROVE  /\ \A i, j \in DOMAIN calls : i < j => calls[i] < calls[j]
                      /\ Range(calls) \subseteq RecordLines
                      /\ \A m \in RecordLines, n \in Range(calls) : m < n => m \in Range(calls)
                      /\ pc = "body" => Range(calls) = RecordLines
    BY DEF RecordsInOrder
  <2> USE DEF StreamInv, StreamTypeOK
  <2>1. CASE ~stream_to_datafunc
    <3>1. Range(calls) = {} /\ DOMAIN calls = {}
      BY <2>1 DEF ListenInv, Range
    <3>2. pc = "body" => RecordLines = {}
      BY <2>1 DEF PlaceInv, RecordLines
    <3> QED BY <3>1, <3>2
  <2>2. CASE stream_to_datafunc
    <3>1. PICK k \in 0 .. Len(lines) : ListenedTo(k)
      BY <2>2 DEF ListenInv
    <3>2. /\ k \in Nat /\ sent \in Nat /\ 3 * k <= sent /\ Len(lines) \in Nat
          /\ DOMAIN lines = 1 .. Len(lines)
      BY <3>1, BodyFacts DEF ListenedTo
    <3>3. /\ \A n \in Range(calls) : n \in 1 .. k /\ lines[n] = "records"
          /\ \A n \in 1 .. k : lines[n] = "records" => n \in Range(calls)
      BY <3>1 DEF ListenedTo, Range
    <3>4. Range(calls) \subseteq RecordLines
      <4> SUFFICES ASSUME NEW n \in Range(calls) PROVE n \in RecordLines
        OBVIOUS
      <4>1. n \in 1 .. k /\ lines[n] = "records" /\ k > 0
        BY <3>2, <3>3
      <4>2. n \in DOMAIN lines /\ 3 * n <= sent
        BY <3>2, <4>1
      <4>3. Succeeds(status)
        BY <3>1, <4>1 DEF ListenedTo
      <4> QED BY <4>1, <4>2, <4>3 DEF RecordLines
    <3>5. ASSUME NEW m \in RecordLines, NEW n \in Range(calls), m < n PROVE m \in Range(calls)
      <4>1. m \in DOMAIN lines /\ lines[m] = "records" /\ n \in 1 .. k
        BY <3>3 DEF RecordLines
      <4>2. m \in 1 .. k
        BY <3>2, <3>5, <4>1
      <4> QED BY <3>3, <4>1, <4>2
    <3>6. ASSUME pc = "body", NEW m \in RecordLines PROVE m \in Range(calls)
      <4>1. m \in DOMAIN lines /\ lines[m] = "records" /\ 3 * m <= sent
        BY DEF RecordLines
      <4>2. sent < 3 * (k + 1)
        BY <3>1, <3>6 DEF ListenedTo
      <4>3. m \in 1 .. k
        BY <3>2, <4>1, <4>2
      <4> QED BY <3>3, <4>1, <4>3
    <3> QED BY <3>1, <3>4, <3>5, <3>6 DEF ListenedTo
  <2> QED BY <2>1, <2>2
<1>2. ListenInv /\ StreamInv /\ [Next]_vars => ListenInv'
  BY ListenNext
<1> QED BY <1>1, <1>2, ListenInit, StreamInit, StreamNext, PTL DEF Spec
=============================================================================
