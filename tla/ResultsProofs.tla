---------------------------- MODULE ResultsProofs ----------------------------
(***************************************************************************)
(* How results reach their caller one by one: the records of a select, the *)
(* errors of a batched removal, the keys of a listing.                     *)
(*                                                                         *)
(* SelectHandler, on event streams of any length: however the stream is    *)
(* cut into chunks, what is handed over, in which order, and when the      *)
(* decoder waits.                                                          *)
(*                                                                         *)
(* The two iterators (Remove and List) come in by INSTANCE: variables of   *)
(* one name there and here are one symbol, and each theorem speaks of the  *)
(* behaviours of its own specification alone.                              *)
(***************************************************************************)
EXTENDS SelectObjectContent, SequenceTheorems, TLAPS

CONSTANTS
  kBatch, MaxObjects,     \* of RemoveObjects
  MaxKeys, kPage, KindOf  \* of ListObjects

VARIABLES
  supply, taken, objects, errors, removed, refused, reported, lostBatch,
  keys, marker, fetch, from, page, resp, itr_, failed_, listed, lost

Remove == INSTANCE RemoveObjects
List == INSTANCE ListObjects

----------------------------------------------------------------------------
(* The decoder of select.                                                   *)

\* The decoder has taken no more than has arrived, nor more of a message than it
\* needs to decide about it.
PositionInv ==
  /\ 4 * (next - 1) + read <= received
  /\ next <= Len(stream) => read <= Need(next)

Handed(m) == \E i \in DOMAIN results : results[i] = m

\* The messages behind it are handed over or quiet; the last one handed over may
\* be the current one, but only when the call has returned.
HandedInv ==
  /\ \A i, j \in DOMAIN results : i < j => results[i] < results[j]
  /\ \A i \in DOMAIN results :
       results[i] <= next /\ 4 * (results[i] - 1) + Need(results[i]) <= received
  /\ \A m \in Messages : m < next => stream[m] = "quiet" \/ Handed(m)
  /\ pc # "returned" =>
       /\ ~done_
       /\ \A i \in DOMAIN results : results[i] < next /\ stream[results[i]] = "records"

DecoderInv == TypeOK /\ PositionInv /\ HandedInv /\ WaitsOnlyBehindQuiet

----------------------------------------------------------------------------

LEMMA MinOfTwo ==
  ASSUME NEW a \in Int, NEW b \in Int
  PROVE  Min({a, b}) = IF a <= b THEN a ELSE b
<1>1. CASE a <= b
  <2>1. a \in {a, b} /\ \A y \in {a, b} : a =< y
    BY <1>1
  <2>2. \A x \in {a, b} : (\A y \in {a, b} : x =< y) => x = a
    BY <1>1
  <2> QED BY <1>1, <2>1, <2>2 DEF Min
<1>2. CASE ~(a <= b)
  <2>1. b \in {a, b} /\ \A y \in {a, b} : b =< y
    BY <1>2
  <2>2. \A x \in {a, b} : (\A y \in {a, b} : x =< y) => x = b
    BY <1>2
  <2> QED BY <1>2, <2>1, <2>2 DEF Min
<1> QED BY <1>1, <1>2

\* What there is of the current message counts from its beginning, whatever of it
\* has been taken already.
LEMMA HaveFacts ==
  ASSUME TypeOK
  PROVE  /\ received - 4 * (next - 1) \in Int
         /\ Need(next) \in {2, 4}
         /\ Have = IF Need(next) <= received - 4 * (next - 1)
                     THEN Need(next) ELSE received - 4 * (next - 1)
<1>1. /\ received \in Int /\ next \in Int /\ read \in Int /\ Len(stream) \in Nat
  BY DEF TypeOK, Segments
<1>2. Need(next) \in {2, 4}
  BY DEF Need
<1>3. read + Buffered = received - 4 * (next - 1) /\ received - 4 * (next - 1) \in Int
  BY <1>1 DEF Buffered
<1> QED BY <1>2, <1>3, MinOfTwo DEF Have

\* A complete message has arrived as far as it is needed.
LEMMA CompleteFacts ==
  ASSUME DecoderInv, NEW kinds, Complete(kinds)
  PROVE  /\ pc = "process" /\ ~done_ /\ next \in Messages /\ stream[next] \in kinds
         /\ 4 * (next - 1) + Need(next) <= received
         /\ Have = Need(next) /\ Need(next) \in {2, 4}
         /\ stream[next] # "badPrelude" => Need(next) = 4
<1>1. next \in Messages
  BY DEF DecoderInv, TypeOK, Complete, Messages
<1>2. received \in Int /\ next \in Int
  BY DEF DecoderInv, TypeOK, Segments
<1>3. 4 * (next - 1) + Need(next) <= received
  BY <1>2, HaveFacts DEF Complete, DecoderInv
<1> QED BY <1>1, <1>3, HaveFacts DEF Complete, DecoderInv, HandedInv, Need

\* What handing over the current message does to the list of them.
LEMMA HandFacts ==
  ASSUME DecoderInv, next \in Messages, Hand
  PROVE  /\ results' \in Seq(Messages)
         /\ DOMAIN results' = DOMAIN results \cup {Len(results) + 1}
         /\ \A i \in DOMAIN results : results'[i] = results[i] /\ i < Len(results) + 1
         /\ results'[Len(results) + 1] = next
<1>1. results \in Seq(Messages) /\ Len(results) \in Nat /\ DOMAIN results = 1 .. Len(results)
  BY DEF DecoderInv, TypeOK
<1>2. results' = Append(results, next)
  BY DEF Hand
<1> QED BY <1>1, <1>2, AppendProperties

----------------------------------------------------------------------------

LEMMA DecoderInit == Init => DecoderInv
<1> SUFFICES ASSUME Init PROVE DecoderInv
  OBVIOUS
<1>1. <<"badPrelude">> \in Seq(Kinds) /\ <<>> \in Seq(Kinds)
  BY DEF Kinds
<1>2. stream \in Seq(Kinds) /\ Len(stream) \in Nat
  <2>1. stream \in Streams \/ stream \in {<<>>, <<"badPrelude">>}
    BY DEF Init
  <2>2. stream \in Seq(Kinds)
    BY <1>1, <2>1, StreamsAssumption, Zenon
  <2> QED BY <2>2
<1>3. TypeOK
  <2>1. Segments \in Nat /\ received = 0 /\ next = 1 /\ read = 0
    BY <1>2 DEF Init, Segments
  <2>2. received \in 0 .. Segments /\ next \in 1 .. Len(stream) + 1 /\ read \in 0 .. 4
    BY <1>2, <2>1
  <2>3. results \in Seq(Messages)
    BY DEF Init
  <2>4. status \in {"ok", "refused"}
    BY DEF Init
  <2> QED BY <1>2, <2>2, <2>3, <2>4 DEF Init, TypeOK
<1>4. results = <<>> /\ DOMAIN results = {}
  BY DEF Init
<1>5. PositionInv
  BY <1>3, HaveFacts DEF Init, PositionInv
<1>6. HandedInv
  <2>1. \A m \in Messages : ~(m < next)
    BY <1>2 DEF Init, Messages
  <2> QED BY <1>4, <2>1 DEF Init, HandedInv
<1>7. WaitsOnlyBehindQuiet
  <2>1. Have # Need(next)
    BY <1>3, HaveFacts DEF Init
  <2> QED BY <2>1 DEF WaitsOnlyBehindQuiet
<1> QED BY <1>3, <1>5, <1>6, <1>7 DEF DecoderInv

\* More of the stream arrives.
LEMMA ReceivePreserves ==
  ASSUME DecoderInv, NEW n \in 0 .. Segments, DataFunction(n)
  PROVE  DecoderInv'
<1>1. /\ pc = "receive" /\ received' = received + n /\ received + n <= Segments
      /\ UNCHANGED <<status, stream, next, read, done_, results>>
      /\ pc' = "process" /\ UNCHANGED result
  BY DEF DataFunction, DecoderInv, HandedInv
<1>2. received \in Nat /\ n \in Nat /\ Segments \in Nat
  BY DEF DecoderInv, TypeOK, Segments
<1>3. TypeOK'
  BY <1>1, <1>2 DEF DecoderInv, TypeOK, Segments, Messages
<1>4. /\ next \in Int /\ read \in Int
      /\ \A i \in DOMAIN results : results[i] \in Int /\ Need(results[i]) \in Int
  BY DEF DecoderInv, TypeOK, Messages, Need
<1>5. PositionInv'
  BY <1>1, <1>2, <1>4 DEF DecoderInv, PositionInv, Need
<1>6. HandedInv'
  <2>1. \A i \in DOMAIN results : 4 * (results[i] - 1) + Need(results[i]) <= received'
    BY <1>1, <1>2, <1>4 DEF DecoderInv, HandedInv
  <2> QED BY <1>1, <2>1 DEF DecoderInv, HandedInv, Handed, Messages, Need
<1> QED BY <1>1, <1>3, <1>5, <1>6 DEF DecoderInv, WaitsOnlyBehindQuiet

\* What there is is taken, and is not enough.
LEMMA IncompletePreserves ==
  ASSUME DecoderInv, Incomplete
  PROVE  DecoderInv'
<1>1. /\ pc = "process" /\ pc' = "receive"
      /\ UNCHANGED <<status, stream, received, next, done_, results, result>>
  BY DEF Incomplete
<1>2. /\ received \in Int /\ next \in 1 .. Len(stream) + 1 /\ read \in 0 .. 4 /\ Len(stream) \in Nat
      /\ 4 * (next - 1) + read <= received
  BY DEF DecoderInv, TypeOK, Segments, PositionInv
<1>3. /\ Need(next) \in {2, 4}
      /\ Have = IF Need(next) <= received - 4 * (next - 1)
                  THEN Need(next) ELSE received - 4 * (next - 1)
  BY HaveFacts DEF DecoderInv
<1>4. next <= Len(stream) =>
        Have < Need(next) /\ read' = Have /\ Have = received - 4 * (next - 1)
  BY <1>2, <1>3 DEF Incomplete
<1>5. next > Len(stream) => read' = read
  BY <1>2 DEF Incomplete
<1>6. /\ read' \in 0 .. 4 /\ 4 * (next - 1) + read' <= received
      /\ next <= Len(stream) => read' <= Need(next)
  BY <1>2, <1>3, <1>4, <1>5
<1>7. TypeOK'
  BY <1>1, <1>6 DEF DecoderInv, TypeOK, Segments, Messages
<1>8. PositionInv'
  BY <1>1, <1>6 DEF PositionInv, Need
<1>9. HandedInv'
  BY <1>1 DEF DecoderInv, HandedInv, Handed, Messages, Need
<1>10. WaitsOnlyBehindQuiet'
  <2>1. Need(next)' = Need(next)
    BY <1>1 DEF Need
  <2>2. Have' = IF Need(next) <= received - 4 * (next - 1)
                  THEN Need(next) ELSE received - 4 * (next - 1)
    <3>1. /\ read' + Buffered' = received - 4 * (next - 1)
          /\ received - 4 * (next - 1) \in Int
      <4>1. next \in Int /\ read' \in Int /\ received \in Int
        BY <1>2, <1>6
      <4>2. Buffered' = received - 4 * (next - 1) - read'
        BY <1>1 DEF Buffered
      <4>3. \A a, b, c \in Int : c + (a - 4 * (b - 1) - c) = a - 4 * (b - 1) /\ a - 4 * (b - 1) \in Int
        OBVIOUS
      <4> QED BY <4>1, <4>2, <4>3
    <3>2. Have' = Min({Need(next), received - 4 * (next - 1)})
      BY <2>1, <3>1 DEF Have
    <3> QED BY <1>3, <3>1, <3>2, MinOfTwo
  <2>3. next <= Len(stream) => Have' # Need(next)
    BY <1>3, <1>4, <2>2
  <2> QED BY <1>1, <2>1, <2>3 DEF WaitsOnlyBehindQuiet
<1> QED BY <1>7, <1>8, <1>9, <1>10 DEF DecoderInv

\* The decoder has gone on to the next message.
LEMMA ResetFacts ==
  ASSUME DecoderInv, NEW kinds, Complete(kinds), "badPrelude" \notin kinds, Reset,
         UNCHANGED <<stream, received>>
  PROVE  /\ next' = next + 1 /\ next \in Nat \ {0} /\ next <= Len(stream) /\ read' = 0
         /\ next' \in 1 .. Len(stream') + 1 /\ read' \in 0 .. 4
         /\ 4 * next <= received
         /\ PositionInv'
<1>1. /\ next \in 1 .. Len(stream) + 1 /\ Len(stream) \in Nat /\ received \in Int
  BY DEF DecoderInv, TypeOK, Segments
<1>2. next \in Messages /\ 4 * (next - 1) + 4 <= received
  BY CompleteFacts
<1>3. next <= Len(stream) /\ 4 * next <= received
  BY <1>1, <1>2 DEF Complete
<1>4. Need(next') \in {2, 4}
  BY DEF Need
<1>5. next' = next + 1 /\ read' = 0
  BY DEF Reset
<1>6. 4 * (next' - 1) + read' <= received' /\ read' <= Need(next)'
  BY <1>1, <1>3, <1>5 DEF Need
<1> QED BY <1>1, <1>3, <1>5, <1>6 DEF PositionInv

\* A message without payload is passed over, and nothing is handed over.
LEMMA QuietPreserves ==
  ASSUME DecoderInv, Quiet
  PROVE  DecoderInv'
<1>1. /\ Complete({"quiet"}) /\ Reset /\ pc' = "receive"
      /\ UNCHANGED <<status, stream, received, done_, results, result>>
  BY DEF Quiet
<1>2. /\ next' = next + 1 /\ next \in Nat \ {0} /\ next <= Len(stream) /\ read' = 0
      /\ next' \in 1 .. Len(stream') + 1 /\ read' \in 0 .. 4
      /\ PositionInv'
  BY <1>1, ResetFacts
<1>3. pc = "process" /\ stream[next] = "quiet" /\ next \in Messages
  BY <1>1, CompleteFacts
<1>4. TypeOK'
  BY <1>1, <1>2 DEF DecoderInv, TypeOK, Segments, Messages
<1>5. HandedInv'
  <2>1. \A i \in DOMAIN results : results[i] < next + 1
    BY <1>2, <1>3 DEF DecoderInv, HandedInv, TypeOK, Messages
  <2>2. \A m \in Messages : m < next + 1 => m < next \/ m = next
    BY <1>2 DEF Messages, DecoderInv, TypeOK
  <2>3. /\ \A i, j \in DOMAIN results : i < j => results[i] < results[j]
        /\ \A i \in DOMAIN results : 4 * (results[i] - 1) + Need(results[i]) <= received
        /\ \A i \in DOMAIN results : stream[results[i]] = "records"
        /\ ~done_
    BY <1>3 DEF DecoderInv, HandedInv
  <2>4. \A i \in DOMAIN results : results[i] <= next + 1
    BY <1>2, <2>1 DEF DecoderInv, TypeOK, Messages
  <2>5. \A m \in Messages : m < next + 1 => stream[m] = "quiet" \/ Handed(m)
    BY <1>3, <2>2 DEF DecoderInv, HandedInv
  <2> QED BY <1>1, <1>2, <2>1, <2>3, <2>4, <2>5 DEF HandedInv, Handed, Messages, Need
<1>6. WaitsOnlyBehindQuiet'
  <2>1. next' - 1 = next /\ next' > 1
    BY <1>2
  <2> QED BY <1>1, <1>2, <1>3, <2>1 DEF WaitsOnlyBehindQuiet
<1> QED BY <1>2, <1>4, <1>5, <1>6 DEF DecoderInv

\* The current message is handed over behind all the others.
LEMMA HandPreserves ==
  ASSUME DecoderInv, NEW kinds, Complete(kinds), Hand, UNCHANGED <<stream, received>>
  PROVE  /\ results' \in Seq(Messages)
         /\ \A i, j \in DOMAIN results' : i < j => results'[i] < results'[j]
         /\ \A i \in DOMAIN results' :
              results'[i] <= next /\ 4 * (results'[i] - 1) + Need(results'[i]) <= received
         /\ \A m \in Messages : m <= next =>
              stream[m] = "quiet" \/ \E i \in DOMAIN results' : results'[i] = m
         /\ stream[next] = "records" =>
              \A i \in DOMAIN results' : stream[results'[i]] = "records"
<1>1. /\ pc = "process" /\ next \in Messages /\ 4 * (next - 1) + Need(next) <= received
  BY CompleteFacts
<1>2. /\ results' \in Seq(Messages)
      /\ DOMAIN results' = DOMAIN results \cup {Len(results) + 1}
      /\ \A i \in DOMAIN results : results'[i] = results[i] /\ i < Len(results) + 1
      /\ results'[Len(results) + 1] = next
  BY <1>1, HandFacts
<1>3. /\ \A i \in DOMAIN results : results[i] < next /\ stream[results[i]] = "records"
      /\ \A i, j \in DOMAIN results : i < j => results[i] < results[j]
      /\ \A i \in DOMAIN results : 4 * (results[i] - 1) + Need(results[i]) <= received
  BY <1>1 DEF DecoderInv, HandedInv
<1>4. DOMAIN results \subseteq Nat /\ Len(results) \in Nat /\ next \in Nat
  BY <1>1 DEF DecoderInv, TypeOK, Messages
<1>5. \A i \in DOMAIN results : results[i] \in Nat
  BY DEF DecoderInv, TypeOK, Messages
<1>6. ASSUME NEW i \in DOMAIN results', NEW j \in DOMAIN results', i < j
      PROVE  results'[i] < results'[j]
  <2>1. CASE j = Len(results) + 1
    <3>1. i \in DOMAIN results
      BY <1>2, <1>4, <1>6, <2>1
    <3> QED BY <1>2, <1>3, <2>1, <3>1
  <2>2. CASE j # Len(results) + 1
    <3>1. j \in DOMAIN results /\ i \in DOMAIN results
      BY <1>2, <1>4, <1>6, <2>2
    <3> QED BY <1>2, <1>3, <1>6, <3>1
  <2> QED BY <2>1, <2>2
<1>7. \A i \in DOMAIN results' :
        results'[i] <= next /\ 4 * (results'[i] - 1) + Need(results'[i]) <= received
  <2> SUFFICES ASSUME NEW i \in DOMAIN results'
               PROVE  results'[i] <= next /\ 4 * (results'[i] - 1) + Need(results'[i]) <= received
    OBVIOUS
  <2>1. CASE i = Len(results) + 1
    BY <1>1, <1>2, <1>4, <2>1
  <2>2. CASE i \in DOMAIN results
    <3>1. results'[i] = results[i] /\ results[i] < next /\ results[i] \in Nat
      BY <1>2, <1>3, <1>5, <2>2
    <3>2. 4 * (results[i] - 1) + Need(results[i]) <= received
      BY <1>3, <2>2
    <3>3. results[i] <= next
      BY <1>4, <3>1
    <3> QED BY <3>1, <3>2, <3>3
  <2> QED BY <1>2, <2>1, <2>2
<1>8. ASSUME NEW m \in Messages, m <= next, stream[m] # "quiet"
      PROVE  \E i \in DOMAIN results' : results'[i] = m
  <2>1. CASE m = next
    BY <1>2, <2>1
  <2>2. CASE m # next
    <3>1. m < next
      BY <1>4, <1>8, <2>2 DEF Messages, DecoderInv, TypeOK
    <3>2. PICK i \in DOMAIN results : results[i] = m
      BY <1>8, <3>1 DEF DecoderInv, HandedInv, Handed
    <3> QED BY <1>2, <3>2
  <2> QED BY <2>1, <2>2
<1>9. stream[next] = "records" => \A i \in DOMAIN results' : stream[results'[i]] = "records"
  BY <1>2, <1>3
<1> QED BY <1>2, <1>6, <1>7, <1>8, <1>9

\* Records, and the caller's function says whether to go on.
LEMMA RecordsPreserves ==
  ASSUME DecoderInv, NEW cont \in BOOLEAN, Records(cont)
  PROVE  DecoderInv'
<1>1. /\ Complete({"records"}) /\ Hand /\ Reset /\ done_' = ~cont
      /\ UNCHANGED <<status, stream, received>>
      /\ \/ cont /\ UNCHANGED <<pc, result>>
         \/ ~cont /\ pc' = "returned" /\ result' = "success"
  BY DEF Records, Return
<1>2. /\ next' = next + 1 /\ next \in Nat \ {0} /\ next <= Len(stream) /\ read' = 0
      /\ next' \in 1 .. Len(stream') + 1 /\ read' \in 0 .. 4
      /\ PositionInv'
  BY <1>1, ResetFacts
<1>3. pc = "process" /\ stream[next] = "records" /\ next \in Messages
  BY <1>1, CompleteFacts
<1>4. /\ results' \in Seq(Messages)
      /\ \A i, j \in DOMAIN results' : i < j => results'[i] < results'[j]
      /\ \A i \in DOMAIN results' :
           results'[i] <= next /\ 4 * (results'[i] - 1) + Need(results'[i]) <= received
      /\ \A m \in Messages : m <= next =>
           stream[m] = "quiet" \/ \E i \in DOMAIN results' : results'[i] = m
      /\ \A i \in DOMAIN results' : stream[results'[i]] = "records"
  BY <1>1, <1>3, HandPreserves
<1>5. TypeOK'
  <2>1. pc' \in {"receive", "process", "returned"} /\ result' \in {"none", "success", "error"}
    BY <1>1, <1>3 DEF DecoderInv, TypeOK
  <2>2. Messages' = Messages /\ done_' \in BOOLEAN
    BY <1>1 DEF Messages
  <2> QED BY <1>1, <1>2, <1>4, <2>1, <2>2 DEF DecoderInv, TypeOK, Segments
<1>6. HandedInv'
  <2>1. \A i \in DOMAIN results' : results'[i] <= next' /\ results'[i] < next'
    <3>1. \A i \in DOMAIN results' : results'[i] \in Nat
      BY <1>4 DEF Messages, DecoderInv, TypeOK
    <3> QED BY <1>2, <1>4, <3>1
  <2>2. \A m \in Messages : m < next' => m <= next
    BY <1>2 DEF Messages, DecoderInv, TypeOK
  <2>3. \A i \in DOMAIN results' : 4 * (results'[i] - 1) + Need(results[i])' <= received'
    BY <1>1, <1>4 DEF Need
  <2>4. pc' # "returned" => ~done_'
    BY <1>1
  <2> QED BY <1>1, <1>4, <2>1, <2>2, <2>3, <2>4 DEF HandedInv, Handed, Messages, Need
<1>7. WaitsOnlyBehindQuiet'
  BY <1>1, <1>3 DEF WaitsOnlyBehindQuiet
<1> QED BY <1>2, <1>5, <1>6, <1>7 DEF DecoderInv

\* The last result, or an exception: whether the current message was handed over
\* or not, the call has returned.
LEMMA LastPreserves ==
  ASSUME DecoderInv, Last \/ Throw
  PROVE  DecoderInv'
<1>1. /\ Complete({"records", "End", "bad", "badPrelude"})
      /\ pc' = "returned" /\ read' = Have /\ done_' \in BOOLEAN
      /\ result' \in {"none", "success", "error"}
      /\ UNCHANGED <<status, stream, received, next>>
  BY DEF Last, Throw, Complete, Return
<1>2. Hand \/ UNCHANGED results
  BY DEF Last, Throw
<1>3. /\ next \in Messages /\ 4 * (next - 1) + Need(next) <= received
      /\ read' = Need(next) /\ Need(next) \in {2, 4}
  BY <1>1, CompleteFacts
<1>4. PositionInv'
  BY <1>1, <1>3 DEF PositionInv, Need
<1>5. CASE UNCHANGED results
  <2>1. HandedInv'
    BY <1>1, <1>5 DEF DecoderInv, HandedInv, Handed, Messages, Need
  <2>2. TypeOK'
    BY <1>1, <1>3, <1>5 DEF DecoderInv, TypeOK, Segments, Messages
  <2> QED BY <1>1, <1>4, <2>1, <2>2 DEF DecoderInv, WaitsOnlyBehindQuiet
<1>6. CASE Hand
  <2>1. /\ results' \in Seq(Messages)
        /\ \A i, j \in DOMAIN results' : i < j => results'[i] < results'[j]
        /\ \A i \in DOMAIN results' :
             results'[i] <= next /\ 4 * (results'[i] - 1) + Need(results'[i]) <= received
        /\ \A m \in Messages : m <= next =>
             stream[m] = "quiet" \/ \E i \in DOMAIN results' : results'[i] = m
    BY <1>1, <1>6, HandPreserves
  <2>2. \A m \in Messages : m < next => m <= next
    BY <1>3 DEF Messages, DecoderInv, TypeOK
  <2>3. HandedInv'
    BY <1>1, <2>1, <2>2 DEF HandedInv, Handed, Messages, Need
  <2>4. TypeOK'
    BY <1>1, <1>3, <2>1 DEF DecoderInv, TypeOK, Segments, Messages
  <2> QED BY <1>1, <1>4, <2>3, <2>4 DEF DecoderInv, WaitsOnlyBehindQuiet
<1> QED BY <1>2, <1>5, <1>6

LEMMA DecoderNext == DecoderInv /\ [Next]_vars => DecoderInv'
<1> SUFFICES ASSUME DecoderInv, [Next]_vars PROVE DecoderInv'
  OBVIOUS
<1>1. CASE \E r \in {"success", "error"} :
             /\ Return(r) /\ UNCHANGED <<status, stream, received, next, read, done_, results>>
  BY <1>1 DEF Return, DecoderInv, TypeOK, Segments, Messages, PositionInv, HandedInv, Handed,
              Need, WaitsOnlyBehindQuiet
<1>2. CASE Transferred \/ Broken
  BY <1>1, <1>2 DEF Transferred, Broken
<1>3. CASE UNCHANGED vars
  BY <1>3 DEF vars, DecoderInv, TypeOK, Segments, Messages, PositionInv, HandedInv, Handed,
              Need, WaitsOnlyBehindQuiet, Have, Buffered
<1>4. CASE Done
  BY <1>3, <1>4 DEF Done
<1>5. CASE Receive
  BY <1>5, ReceivePreserves DEF Receive
<1>6. CASE Decode
  BY <1>6, IncompletePreserves, QuietPreserves, RecordsPreserves, LastPreserves DEF Decode
<1> QED BY <1>2, <1>3, <1>4, <1>5, <1>6 DEF Next

LEMMA DecoderInvariant == Spec => []DecoderInv
BY DecoderInit, DecoderNext, PTL DEF Spec

\* Whatever the cuts between the chunks, SelectHandler hands over every message
\* with a payload up to the last one the caller gets, each once, in order, and
\* only when it is there as a whole.
THEOREM EveryResultInOrder == Spec => []ResultsInOrder
<1>1. DecoderInv => ResultsInOrder
  <2> SUFFICES ASSUME DecoderInv PROVE ResultsInOrder
    OBVIOUS
  <2>1. ASSUME NEW m \in Messages, NEW i \in DOMAIN results, m < results[i], stream[m] # "quiet"
        PROVE  \E j \in DOMAIN results : results[j] = m
    <3>1. m \in Int /\ results[i] \in Int /\ next \in Int /\ results[i] <= next
      BY DEF DecoderInv, TypeOK, Messages, HandedInv
    <3>2. m < next
      BY <2>1, <3>1
    <3> QED BY <2>1, <3>2 DEF DecoderInv, HandedInv, Handed
  <2>2. /\ \A i, j \in DOMAIN results : i < j => results[i] < results[j]
        /\ \A i \in DOMAIN results : 4 * (results[i] - 1) + Need(results[i]) <= received
    BY DEF DecoderInv, HandedInv
  <2> QED BY <2>1, <2>2 DEF ResultsInOrder
<1> QED BY <1>1, DecoderInvariant, PTL

\* process() leaves a complete message in response_ until the next chunk only
\* behind a message without payload, for which it returns with cont = false.
THEOREM WaitsForNothingElse == Spec => []WaitsOnlyBehindQuiet
<1>1. DecoderInv => WaitsOnlyBehindQuiet
  BY DEF DecoderInv
<1> QED BY <1>1, DecoderInvariant, PTL

\* done_ is final: no result follows the End message, an error or a caller that
\* said stop, in this chunk or in a later one.
THEOREM LastIsLast == Spec => NothingAfterLast
<1>1. DecoderInv /\ [Next]_vars =>
        [results' # results =>
           \A i \in DOMAIN results : stream[results[i]] = "records" /\ ~done_]_vars
  <2> SUFFICES ASSUME DecoderInv, Next, results' # results
               PROVE  \A i \in DOMAIN results : stream[results[i]] = "records" /\ ~done_
    BY DEF vars
  <2>1. pc = "process"
    BY DEF Next, Receive, DataFunction, Decode, Incomplete, Quiet, Records, Last, Throw,
           Complete, Transferred, Broken, Done, vars
  <2> QED BY <2>1 DEF DecoderInv, HandedInv
<1> QED BY <1>1, DecoderInvariant, PTL DEF Spec, NothingAfterLast

----------------------------------------------------------------------------
(* The errors of RemoveObjects: those shown and those still to be shown are *)
(* the ones answered, and what was not refused is gone.                     *)

\* The names the requests answered so far were about.
Answered == IF pc = "send" THEN taken - Len(objects) ELSE taken

Shown == {reported[i] : i \in 1 .. Len(reported)}
Showing == {errors[i] : i \in itr_ .. Len(errors)}

RemoveTypeOK ==
  /\ pc \in {"start", "populate", "send", "iterate", "ended"}
  /\ supply \in Nat
  /\ taken \in 0 .. supply
  /\ objects \in Seq(Nat) /\ Len(objects) <= taken
  /\ done_ \in BOOLEAN /\ lostBatch \in BOOLEAN
  /\ errors \in Seq(Nat)
  /\ itr_ \in 1 .. Len(errors) + 1
  /\ reported \in Seq(Nat)

\* A batch under way is new to the server.
BatchInv ==
  /\ pc = "start" => taken = 0 /\ ~done_
  /\ pc = "send" =>
       /\ errors = <<>> /\ ~done_
       /\ \A i \in 1 .. Len(objects) : objects[i] = Answered + i
  /\ refused \subseteq 1 .. Answered

\* Errors shown and errors still to be shown are those answered, in order.
ErrorInv ==
  /\ Remove!Increasing(reported) /\ Remove!Increasing(errors)
  /\ refused = Shown \cup Showing
  /\ \A i \in 1 .. Len(reported), j \in itr_ .. Len(errors) : reported[i] < errors[j]
  /\ \A j \in 1 .. Len(errors) : errors[j] \in refused
  /\ pc = "ended" => itr_ = Len(errors) + 1

\* What is not refused is removed, and the iteration is left with names to come
\* only to show errors.
DoneInv ==
  /\ refused = {} /\ ~lostBatch => removed = 1 .. Answered
  /\ done_ => taken \in {0, supply}
  /\ pc \in {"iterate", "ended"} => done_ \/ errors # <<>>

RemoveInv == RemoveTypeOK /\ BatchInv /\ ErrorInv /\ DoneInv

LEMMA RemoveInit ==
  ASSUME kBatch \in Nat \ {0}, MaxObjects \in Nat, Remove!Init
  PROVE  RemoveInv
<1>1. RemoveTypeOK
  <2>1. <<>> \in Seq(Nat) /\ Len(<<>>) = 0 /\ supply \in Nat
    BY DEF Remove!Init
  <2>2. taken \in 0 .. supply
    BY <2>1 DEF Remove!Init
  <2>3. itr_ \in 1 .. Len(errors) + 1
    BY <2>1 DEF Remove!Init
  <2>4. Len(objects) <= taken
    BY <2>1 DEF Remove!Init
  <2> QED BY <2>1, <2>2, <2>3, <2>4 DEF Remove!Init, RemoveTypeOK
<1>2. BatchInv
  BY DEF Remove!Init, BatchInv, Answered
<1>3. ErrorInv
  BY DEF Remove!Init, ErrorInv, Shown, Showing, Remove!Increasing
<1>4. DoneInv
  BY DEF Remove!Init, DoneInv, Answered
<1> QED BY <1>1, <1>2, <1>3, <1>4 DEF RemoveInv

\* Nothing but the place changes.
LEMMA RemoveMoves ==
  ASSUME RemoveInv,
         UNCHANGED <<supply, taken, objects, done_, errors, itr_, removed, refused, reported,
                     lostBatch>>,
         pc # "send", pc # "start" \/ ~done_,
         \/ pc' = pc
         \/ pc' = "populate"
         \/ pc' = "iterate" /\ (done_ \/ errors # <<>>)
         \/ pc' = "ended" /\ itr_ = Len(errors) + 1 /\ (done_ \/ errors # <<>>)
  PROVE  RemoveInv'
BY DEF RemoveInv, RemoveTypeOK, BatchInv, ErrorInv, DoneInv, Answered, Shown, Showing,
   Remove!Increasing

LEMMA CollectPreserves ==
  ASSUME kBatch \in Nat \ {0}, MaxObjects \in Nat, RemoveInv, Remove!Collect
  PROVE  RemoveInv'
<1> USE DEF RemoveInv
<1> DEFINE n == IF kBatch <= supply - taken THEN kBatch ELSE supply - taken
<1>0. kBatch \in Int /\ kBatch > 0 /\ supply \in Int /\ taken \in Int /\ 0 <= taken /\ taken <= supply
  BY DEF RemoveTypeOK
<1>1. /\ n \in Nat /\ n <= supply - taken /\ (n = 0 <=> taken = supply)
      /\ Remove!BatchSize = n /\ Remove!Pulled = n
  <2>1. n \in Int /\ 0 <= n /\ n <= supply - taken /\ (n = 0 <=> taken = supply)
    BY <1>0
  <2>2. Remove!BatchSize = n /\ Remove!Pulled = n
    BY DEF Remove!BatchSize, Remove!Pulled, Remove!Lesser
  <2> QED BY <2>1, <2>2
<1>2. /\ pc = "populate" /\ ~done_ /\ errors = <<>>
      /\ objects' = [i \in 1 .. n |-> taken + i]
      /\ taken' = taken + n
      /\ IF objects' # <<>> THEN pc' = "send" /\ UNCHANGED <<done_, itr_>>
         ELSE pc' = "populate" /\ done_' = TRUE /\ itr_' = 1
      /\ UNCHANGED <<supply, errors, removed, refused, reported, lostBatch>>
  BY <1>1 DEF Remove!Collect, Remove!serverVars
<1> HIDE DEF n
<1>3. /\ objects' \in Seq(Nat) /\ Len(objects') = n
      /\ \A i \in 1 .. n : objects'[i] = taken + i
      /\ objects' = <<>> <=> n = 0
  <2>1. \A i \in 1 .. n : taken + i \in Nat
    BY <1>0, <1>1
  <2>2. objects' \in Seq(Nat) /\ Len(objects') = n
    BY <1>1, <1>2, <2>1
  <2> QED BY <1>1, <1>2, <2>2, EmptySeq
<1>4. Answered' = taken /\ Answered = taken
  BY <1>0, <1>1, <1>2, <1>3 DEF Answered
<1>5. RemoveTypeOK'
  <2>1. taken' \in 0 .. supply' /\ supply' \in Nat
    BY <1>0, <1>1, <1>2 DEF RemoveTypeOK
  <2>2. Len(objects') <= taken' /\ errors' \in Seq(Nat) /\ Len(errors') = 0 /\ itr_' = 1
    BY <1>0, <1>1, <1>2, <1>3 DEF RemoveTypeOK
  <2>3. itr_' \in 1 .. Len(errors') + 1
    BY <2>2
  <2>4. done_' \in BOOLEAN /\ lostBatch' \in BOOLEAN
    BY <1>2 DEF RemoveTypeOK
  <2>5. pc' \in {"start", "populate", "send", "iterate", "ended"} /\ reported' \in Seq(Nat)
    BY <1>2 DEF RemoveTypeOK
  <2> QED BY <1>3, <2>1, <2>2, <2>3, <2>4, <2>5 DEF RemoveTypeOK
<1>6. BatchInv'
  BY <1>1, <1>2, <1>3, <1>4 DEF BatchInv
<1>7. ErrorInv'
  <2>1. Len(errors) = 0 /\ itr_ = 1 /\ itr_' = 1 /\ pc' # "ended"
    BY <1>2 DEF RemoveTypeOK
  <2> QED BY <1>2, <2>1 DEF ErrorInv, Shown, Showing, Remove!Increasing
<1>8. DoneInv'
  BY <1>0, <1>1, <1>2, <1>3, <1>4 DEF DoneInv
<1> QED BY <1>5, <1>6, <1>7, <1>8

\* The answer to a batch.
LEMMA SendPreserves ==
  ASSUME MaxObjects \in Nat, RemoveInv, NEW bad \in Seq(Nat), Remove!Send(bad)
  PROVE  RemoveInv'
<1> USE DEF RemoveInv
<1>1. /\ pc = "send" /\ pc' = "populate" /\ errors' = bad /\ itr_' = 1
      /\ removed' = removed \cup (Remove!ToSet(objects) \ Remove!ToSet(bad))
      /\ refused' = refused \cup Remove!ToSet(bad)
      /\ Remove!Increasing(bad) /\ Remove!ToSet(bad) \subseteq Remove!ToSet(objects)
      /\ UNCHANGED <<supply, taken, objects, done_, reported, lostBatch>>
  BY DEF Remove!Send
<1>2. /\ taken \in Int /\ Len(objects) \in Nat /\ Len(objects) <= taken /\ Len(bad) \in Nat
      /\ errors = <<>> /\ Len(errors) = 0 /\ ~done_
  BY <1>1, EmptySeq DEF RemoveTypeOK, BatchInv
<1>3. Answered = taken - Len(objects) /\ Answered' = taken
  BY <1>1 DEF Answered
<1>4. Remove!ToSet(objects) = {i \in 1 .. taken : i > Answered}
  <2>1. \A i \in 1 .. Len(objects) : objects[i] = Answered + i
    BY <1>1 DEF BatchInv
  <2>2. Remove!ToSet(objects) = {objects[i] : i \in 1 .. Len(objects)}
    BY <1>2, LenProperties DEF Remove!ToSet, RemoveTypeOK
  <2>3. \A i \in 1 .. Len(objects) : objects[i] \in 1 .. taken /\ objects[i] > Answered
    BY <1>2, <1>3, <2>1
  <2>4. ASSUME NEW k \in 1 .. taken, k > Answered
        PROVE  \E i \in 1 .. Len(objects) : objects[i] = k
    <3>1. k - Answered \in 1 .. Len(objects) /\ Answered + (k - Answered) = k
      BY <1>2, <1>3, <2>4
    <3> QED BY <2>1, <3>1
  <2> QED BY <2>2, <2>3, <2>4
<1>5. /\ Remove!ToSet(bad) = {bad[i] : i \in 1 .. Len(bad)}
      /\ \A i \in 1 .. Len(bad) : bad[i] \in 1 .. taken /\ bad[i] > Answered
  <2>1. Remove!ToSet(bad) = {bad[i] : i \in 1 .. Len(bad)}
    BY LenProperties DEF Remove!ToSet
  <2> QED BY <1>1, <1>4, <2>1
<1>6. refused \subseteq 1 .. Answered /\ refused = Shown
  <2>1. itr_ = 1 /\ itr_ .. Len(errors) = {}
    BY <1>2 DEF RemoveTypeOK
  <2> QED BY <2>1 DEF BatchInv, ErrorInv, Showing
<1>7. RemoveTypeOK'
  BY <1>1, <1>2 DEF RemoveTypeOK
<1>8. BatchInv'
  <2>1. refused \subseteq 1 .. taken
    BY <1>2, <1>3, <1>6
  <2>2. refused' \subseteq 1 .. taken
    BY <1>1, <1>5, <2>1
  <2> QED BY <1>1, <1>3, <2>2 DEF BatchInv
<1>9. ErrorInv'
  <2>1. Shown' = Shown /\ Showing' = Remove!ToSet(bad)
    BY <1>1, <1>5 DEF Shown, Showing
  <2>2. \A i \in 1 .. Len(reported) : reported[i] \in 1 .. Answered
    BY <1>6 DEF Shown
  <2>3. \A i \in 1 .. Len(reported), j \in 1 .. Len(bad) : reported[i] < bad[j]
    BY <1>2, <1>3, <1>5, <2>2
  <2>4. Remove!Increasing(reported)' /\ Remove!Increasing(errors)'
    BY <1>1 DEF ErrorInv, Remove!Increasing
  <2> QED BY <1>1, <1>5, <1>6, <2>1, <2>3, <2>4 DEF ErrorInv
<1>10. DoneInv'
  <2>1. ASSUME refused' = {}, ~lostBatch' PROVE removed' = 1 .. taken
    <3>1. refused = {} /\ ~lostBatch /\ Remove!ToSet(bad) = {}
      BY <1>1, <2>1
    <3>2. removed = 1 .. Answered
      BY <3>1 DEF DoneInv
    <3>3. 1 .. taken = (1 .. Answered) \cup {i \in 1 .. taken : i > Answered}
      BY <1>2, <1>3
    <3> QED BY <1>1, <1>4, <3>1, <3>2, <3>3
  <2> QED BY <1>1, <1>2, <1>3, <2>1 DEF DoneInv
<1> QED BY <1>7, <1>8, <1>9, <1>10

LEMMA SendFailedPreserves ==
  ASSUME RemoveInv, NEW applied \in BOOLEAN, Remove!SendFailed(applied)
  PROVE  RemoveInv'
<1> USE DEF RemoveInv
<1>1. /\ pc = "send" /\ pc' = "populate" /\ itr_' = 1 /\ lostBatch' = TRUE
      /\ UNCHANGED <<supply, taken, objects, done_, errors, refused, reported>>
  BY DEF Remove!SendFailed
<1>2. /\ taken \in Int /\ Len(objects) \in Nat /\ Len(objects) <= taken
      /\ Len(errors) = 0 /\ itr_ = 1 /\ ~done_
  BY <1>1, EmptySeq DEF RemoveTypeOK, BatchInv
<1>3. Answered = taken - Len(objects) /\ Answered' = taken
  BY <1>1 DEF Answered
<1>4. RemoveTypeOK'
  BY <1>1, <1>2 DEF RemoveTypeOK
<1>5. BatchInv'
  <2>1. refused' \subseteq 1 .. taken
    BY <1>1, <1>2, <1>3 DEF BatchInv
  <2> QED BY <1>1, <1>3, <2>1 DEF BatchInv
<1>6. ErrorInv'
  BY <1>1, <1>2 DEF ErrorInv, Shown, Showing, Remove!Increasing
<1>7. DoneInv'
  BY <1>1, <1>2 DEF DoneInv
<1> QED BY <1>4, <1>5, <1>6, <1>7

\* The caller takes an error.
LEMMA StepPreserves ==
  ASSUME RemoveInv, Remove!Step
  PROVE  RemoveInv'
<1> USE DEF RemoveInv
<1>1. /\ pc = "iterate" /\ itr_ # Len(errors) + 1
      /\ reported' = Append(reported, errors[itr_]) /\ itr_' = itr_ + 1
      /\ pc' = IF ~done_ /\ itr_ = Len(errors) THEN "populate" ELSE "iterate"
      /\ UNCHANGED <<supply, taken, objects, done_, errors, removed, refused, lostBatch>>
  BY DEF Remove!Step, Remove!AtEnd, Remove!serverVars
<1>2. /\ Len(errors) \in Nat /\ Len(reported) \in Nat /\ itr_ \in 1 .. Len(errors)
      /\ errors[itr_] \in Nat /\ errors # <<>>
  <2>1. Len(errors) \in Nat /\ Len(reported) \in Nat
    BY DEF RemoveTypeOK
  <2>2. itr_ \in 1 .. Len(errors)
    BY <1>1, <2>1 DEF RemoveTypeOK
  <2>3. errors[itr_] \in Nat
    BY <2>2, ElementOfSeq DEF RemoveTypeOK
  <2>4. errors # <<>>
    BY <2>1, <2>2, EmptySeq
  <2> QED BY <2>1, <2>2, <2>3, <2>4
<1>3. /\ reported' \in Seq(Nat) /\ Len(reported') = Len(reported) + 1
      /\ reported'[Len(reported) + 1] = errors[itr_]
      /\ \A i \in 1 .. Len(reported) : reported'[i] = reported[i]
  BY <1>1, <1>2, AppendProperties DEF RemoveTypeOK
<1>4. Answered' = Answered
  BY <1>1 DEF Answered
<1>5. RemoveTypeOK'
  BY <1>1, <1>2, <1>3 DEF RemoveTypeOK
<1>6. BatchInv'
  BY <1>1, <1>4 DEF BatchInv
<1>7. ErrorInv'
  <2>1. Remove!Increasing(errors)'
    BY <1>1 DEF ErrorInv, Remove!Increasing
  <2>2. \A i \in 1 .. Len(reported') : i <= Len(reported) \/ i = Len(reported) + 1
    BY <1>2, <1>3
  <2>3. Remove!Increasing(reported)'
    <3> SUFFICES ASSUME NEW i \in 1 .. Len(reported'), NEW j \in 1 .. Len(reported'), i < j
                 PROVE  reported'[i] < reported'[j]
      BY DEF Remove!Increasing
    <3>1. i \in 1 .. Len(reported)
      BY <1>2, <1>3
    <3>2. CASE j \in 1 .. Len(reported)
      BY <1>3, <3>1, <3>2 DEF ErrorInv, Remove!Increasing
    <3>3. CASE j = Len(reported) + 1
      BY <1>2, <1>3, <3>1, <3>3 DEF ErrorInv
    <3>4. j \in 1 .. Len(reported) \/ j = Len(reported) + 1
      BY <1>2, <1>3
    <3> QED BY <3>2, <3>3, <3>4
  <2>4. Shown' = Shown \cup {errors[itr_]}
    BY <1>2, <1>3, <2>2 DEF Shown
  <2>5. Showing = Showing' \cup {errors[itr_]}
    <3>1. \A j \in itr_ .. Len(errors) : j = itr_ \/ j \in itr_ + 1 .. Len(errors)
      BY <1>2
    <3>2. \A j \in itr_ + 1 .. Len(errors) : j \in itr_ .. Len(errors)
      BY <1>2
    <3> QED BY <1>1, <1>2, <3>1, <3>2 DEF Showing
  <2>6. \A i \in 1 .. Len(reported'), j \in itr_' .. Len(errors') : reported'[i] < errors'[j]
    <3> SUFFICES ASSUME NEW i \in 1 .. Len(reported'), NEW j \in itr_ + 1 .. Len(errors)
                 PROVE  reported'[i] < errors[j]
      BY <1>1
    <3>1. j \in itr_ .. Len(errors) /\ j \in 1 .. Len(errors) /\ itr_ < j
      BY <1>2
    <3>2. CASE i \in 1 .. Len(reported)
      BY <1>3, <3>1, <3>2 DEF ErrorInv
    <3>3. CASE i = Len(reported) + 1
      BY <1>2, <1>3, <3>1, <3>3 DEF ErrorInv, Remove!Increasing
    <3>4. i \in 1 .. Len(reported) \/ i = Len(reported) + 1
      BY <1>2, <1>3
    <3> QED BY <3>2, <3>3, <3>4
  <2>7. refused' = Shown' \cup Showing'
    BY <1>1, <2>4, <2>5 DEF ErrorInv
  <2>8. pc' # "ended" /\ \A j \in 1 .. Len(errors') : errors'[j] \in refused'
    BY <1>1 DEF ErrorInv
  <2> QED BY <2>1, <2>3, <2>6, <2>7, <2>8 DEF ErrorInv
<1>8. DoneInv'
  BY <1>1, <1>2, <1>4 DEF DoneInv
<1> QED BY <1>5, <1>6, <1>7, <1>8

LEMMA RemoveNext ==
  ASSUME kBatch \in Nat \ {0}, MaxObjects \in Nat, RemoveInv, [Remove!Next]_(Remove!vars)
  PROVE  RemoveInv'
<1> DEFINE rest == <<supply, taken, objects, errors, itr_, removed, refused, reported, lostBatch>>
<1>1. CASE Remove!Validate
  <2>1. /\ pc = "start" /\ UNCHANGED rest
        /\ \/ pc' = "populate" /\ UNCHANGED done_
           \/ pc' = "iterate" /\ done_' = TRUE
    BY <1>1 DEF Remove!Validate, Remove!serverVars
  <2>2. RemoveTypeOK'
    BY <2>1 DEF RemoveInv, RemoveTypeOK
  <2>3. BatchInv'
    BY <2>1 DEF RemoveInv, BatchInv, Answered
  <2>4. ErrorInv'
    BY <2>1 DEF RemoveInv, ErrorInv, Shown, Showing, Remove!Increasing
  <2>5. DoneInv'
    BY <2>1 DEF RemoveInv, RemoveTypeOK, BatchInv, DoneInv, Answered
  <2> QED BY <2>2, <2>3, <2>4, <2>5 DEF RemoveInv
<1>2. CASE Remove!Collect
  BY <1>2, CollectPreserves
<1>3. ASSUME NEW bad \in Remove!BoundedSeq(1 .. MaxObjects, kBatch), Remove!Send(bad)
      PROVE  RemoveInv'
  <2>1. bad \in Seq(Nat)
    <3>1. PICK m \in 0 .. kBatch : bad \in [1 .. m -> 1 .. MaxObjects]
      BY DEF Remove!BoundedSeq, Remove!SeqOf
    <3>2. m \in Nat /\ \A i \in 1 .. m : bad[i] \in Nat
      BY <3>1
    <3>3. bad \in [1 .. m -> Nat]
      BY <3>1, <3>2
    <3> QED BY <3>2, <3>3, SeqDef
  <2> QED BY <1>3, <2>1, SendPreserves
<1>4. ASSUME NEW applied \in BOOLEAN, Remove!SendFailed(applied) PROVE RemoveInv'
  BY <1>4, SendFailedPreserves
<1>5. CASE Remove!PopulateEnd
  BY <1>5, RemoveMoves DEF Remove!PopulateEnd, Remove!serverVars
<1>6. CASE Remove!Step
  BY <1>6, StepPreserves
<1>7. CASE Remove!End
  <2>1. pc = "iterate" /\ pc' = "ended" /\ itr_ = Len(errors) + 1 /\ UNCHANGED rest /\ UNCHANGED done_
    BY <1>7 DEF Remove!End, Remove!AtEnd, Remove!serverVars
  <2>2. done_ \/ errors # <<>>
    BY <2>1 DEF RemoveInv, DoneInv
  <2> QED BY <2>1, <2>2, RemoveMoves
<1>8. CASE Remove!Ended \/ UNCHANGED Remove!vars
  <2>1. UNCHANGED <<pc, supply, taken, objects, done_, errors, itr_, removed, refused, reported, lostBatch>>
    BY <1>8 DEF Remove!Ended, Remove!vars
  <2>2. RemoveTypeOK'
    BY <2>1 DEF RemoveInv, RemoveTypeOK
  <2>3. BatchInv'
    BY <2>1 DEF RemoveInv, BatchInv, Answered
  <2>4. ErrorInv'
    BY <2>1 DEF RemoveInv, ErrorInv, Shown, Showing, Remove!Increasing
  <2>5. DoneInv'
    BY <2>1 DEF RemoveInv, DoneInv, Answered
  <2> QED BY <2>2, <2>3, <2>4, <2>5 DEF RemoveInv
<1> QED BY <1>1, <1>2, <1>3, <1>4, <1>5, <1>6, <1>7, <1>8 DEF Remove!Next, Remove!Running

\* The caller of RemoveObjects sees every error the server answered, once and in
\* order, and no removed object, however the names fall into batches and whichever
\* requests fail.
THEOREM EveryErrorReported ==
  ASSUME kBatch \in Nat \ {0}, MaxObjects \in Nat
  PROVE  Remove!Spec => []Remove!ErrorsReported
<1>1. RemoveInv => Remove!ErrorsReported
  <2> SUFFICES ASSUME RemoveInv PROVE Remove!ErrorsReported
    OBVIOUS
  <2>1. Remove!ToSet(reported) = Shown
    BY LenProperties DEF RemoveInv, RemoveTypeOK, Remove!ToSet, Shown
  <2>2. pc = "ended" => Showing = {}
    BY DEF RemoveInv, RemoveTypeOK, ErrorInv, Showing
  <2> QED BY <2>1, <2>2 DEF RemoveInv, ErrorInv, Remove!ErrorsReported
<1> QED BY <1>1, RemoveInit, RemoveNext, PTL DEF Remove!Spec

\* Undisturbed, RemoveObjects removes every name it was given, whatever their number
\* is a multiple of.
THEOREM EverythingRemoved ==
  ASSUME kBatch \in Nat \ {0}, MaxObjects \in Nat
  PROVE  Remove!Spec => []Remove!AllRemoved
<1>1. RemoveInv => Remove!AllRemoved
  <2> SUFFICES ASSUME RemoveInv, pc = "ended", taken > 0, refused = {}, ~lostBatch
               PROVE  removed = 1 .. supply
    BY DEF Remove!AllRemoved
  <2>1. removed = 1 .. taken
    BY DEF RemoveInv, DoneInv, Answered
  <2>2. errors = <<>>
    <3>1. Len(errors) \in Nat /\ \A j \in 1 .. Len(errors) : errors[j] \in {}
      BY DEF RemoveInv, RemoveTypeOK, ErrorInv
    <3>2. Len(errors) = 0
      BY <3>1
    <3> QED BY <3>2, EmptySeq DEF RemoveInv, RemoveTypeOK
  <2>3. taken = supply
    BY <2>2 DEF RemoveInv, DoneInv, RemoveTypeOK
  <2> QED BY <2>1, <2>3
<1> QED BY <1>1, RemoveInit, RemoveNext, PTL DEF Remove!Spec

----------------------------------------------------------------------------
(* The keys of ListObjects, a page of which is fetched by a thread while    *)
(* the caller is in the middle of the one before.                           *)

\* The keys the caller has still to see of its page, and those it has seen.
Rest == {resp.contents[j] : j \in itr_ .. Len(resp.contents)}
Seen == {listed[i] : i \in 1 .. Len(listed)}

ListPage == [contents : Seq(Nat), is_truncated : BOOLEAN, next : Nat]

ListTypeOK ==
  /\ pc \in {"start", "populate", "iterate", "ended"}
  /\ keys \subseteq 1 .. MaxKeys
  /\ marker \in Nat /\ from \in Nat
  /\ fetch \in {"none", "running", "ready"}
  /\ page \in ListPage /\ resp \in ListPage
  /\ itr_ \in 1 .. Len(resp.contents) + 1
  /\ failed_ \in BOOLEAN /\ lost \in BOOLEAN
  /\ listed \in Seq(Nat)

\* A page that was fetched from a position starts after it, ends at the position
\* the next one starts from, and leaves out no key in between.
PageInv ==
  fetch = "ready" =>
    /\ List!Parsed(page.contents) /\ Len(page.contents) <= kPage
    /\ \A i \in 1 .. Len(page.contents) : from < page.contents[i]
    /\ page.is_truncated =>
         /\ page.contents # <<>>
         /\ from < page.next
         /\ \A i \in 1 .. Len(page.contents) : page.contents[i] <= page.next
    /\ ~lost => \A k \in keys : k > from =>
         \/ \E i \in 1 .. Len(page.contents) : page.contents[i] = k
         \/ page.is_truncated /\ k > page.next

\* Where the caller is and what the prefetch does.
PlaceInv ==
  /\ pc = "start" => fetch = "none" /\ itr_ = Len(resp.contents) + 1
  /\ pc = "populate" => fetch # "none" /\ itr_ = Len(resp.contents) + 1
  /\ pc \in {"start", "populate"} => ~failed_
  /\ pc = "iterate" => (fetch # "none" <=> ~failed_ /\ resp.is_truncated)
  /\ pc = "iterate" /\ fetch # "none" => itr_ <= Len(resp.contents)
  /\ pc = "ended" => fetch = "none" /\ itr_ = Len(resp.contents) + 1
  /\ fetch # "none" => from = marker

\* What was listed comes before what is left of the page, unless it is on the page
\* itself and in an earlier list (the last itr_ - 1 of those listed are on it); and
\* both come before the page under way.
OrderInv ==
  /\ List!ListedInOrder
  /\ List!Parsed(resp.contents) /\ Len(resp.contents) <= kPage
  /\ \A i \in 1 .. Len(listed), j \in itr_ .. Len(resp.contents) :
       \/ listed[i] < resp.contents[j]
       \/ /\ KindOf[listed[i]] < KindOf[resp.contents[j]]
          /\ Len(listed) - i < itr_ - 1
  /\ pc = "start" => listed = <<>>
  /\ fetch # "none" => \A i \in 1 .. Len(listed) : listed[i] <= marker
  /\ fetch # "none" => \A j \in itr_ .. Len(resp.contents) : resp.contents[j] <= marker

\* A key is listed, on the page or to come.
KeysInv ==
  ~lost => \A k \in keys :
    \/ k \in Seen \/ k \in Rest
    \/ k > marker /\ (pc = "start" \/ fetch # "none")

ListInv == ListTypeOK /\ PageInv /\ PlaceInv /\ OrderInv /\ KeysInv

LEMMA EmptyPageFacts ==
  /\ List!EmptyPage \in ListPage
  /\ List!EmptyPage.contents = <<>> /\ Len(List!EmptyPage.contents) = 0
  /\ List!EmptyPage.is_truncated = FALSE
BY DEF List!EmptyPage, ListPage

LEMMA ListInit ==
  ASSUME MaxKeys \in Nat, kPage \in Nat \ {0}, List!Init
  PROVE  ListInv
<1>1. ListTypeOK
  <2>1. itr_ \in 1 .. Len(resp.contents) + 1
    BY EmptyPageFacts DEF List!Init
  <2>2. listed \in Seq(Nat)
    BY DEF List!Init
  <2> QED BY <2>1, <2>2, EmptyPageFacts DEF List!Init, ListTypeOK
<1>2. PageInv /\ PlaceInv
  BY EmptyPageFacts DEF List!Init, PageInv, PlaceInv
<1>3. OrderInv
  BY EmptyPageFacts DEF List!Init, OrderInv, List!Parsed, List!ListedInOrder
<1>4. KeysInv
  BY DEF List!Init, KeysInv
<1> QED BY <1>1, <1>2, <1>3, <1>4 DEF ListInv

\* A page of the server.
LEMMA PageOfServer ==
  ASSUME MaxKeys \in Nat, keys \subseteq 1 .. MaxKeys, NEW m \in Nat, NEW n \in Nat,
         NEW here \in Seq(Nat), List!OnPage(m, n, here)
  PROVE  LET p == List!PageAfter(n, here)
         IN  /\ p \in ListPage /\ p.contents = here
             /\ List!Parsed(here)
             /\ \A i \in 1 .. Len(here) : m < here[i]
             /\ p.is_truncated =>
                  /\ here # <<>> /\ m < p.next
                  /\ \A i \in 1 .. Len(here) : here[i] <= p.next
             /\ \A k \in keys : k > m =>
                  \/ \E i \in 1 .. Len(here) : here[i] = k
                  \/ p.is_truncated /\ k > p.next
<1> DEFINE p == List!PageAfter(n, here)
<1>1. p = [contents |-> here, is_truncated |-> \E k \in keys : k > n, next |-> n]
  BY DEF List!PageAfter
<1>2. p.contents = here /\ p.next = n /\ (p.is_truncated <=> \E k \in keys : k > n) /\ p \in ListPage
  <2>1. (\E k \in keys : k > n) \in BOOLEAN
    OBVIOUS
  <2> QED BY <1>1, <2>1 DEF ListPage
<1> HIDE DEF p
<1>3. /\ List!Parsed(here)
      /\ List!ToSet(here) = {k \in keys : m < k /\ k <= n}
      /\ here = <<>> => ~p.is_truncated
      /\ here # <<>> => n \in List!ToSet(here)
  BY DEF List!OnPage, p
<1>4. List!ToSet(here) = {here[i] : i \in 1 .. Len(here)}
  BY LenProperties DEF List!ToSet
<1>5. \A i \in 1 .. Len(here) : m < here[i] /\ here[i] <= n
  BY <1>3, <1>4
<1>6. here # <<>> => m < n
  BY <1>3
<1>7. \A k \in keys : k > m => (\E i \in 1 .. Len(here) : here[i] = k) \/ (p.is_truncated /\ k > n)
  <2> SUFFICES ASSUME NEW k \in keys, k > m, ~(\E i \in 1 .. Len(here) : here[i] = k)
               PROVE  p.is_truncated /\ k > n
    OBVIOUS
  <2>1. k \in Int
    OBVIOUS
  <2>2. ~(k <= n)
    BY <1>3, <1>4
  <2> QED BY <1>2, <2>1, <2>2
<1> QED BY <1>2, <1>3, <1>5, <1>6, <1>7 DEF p

LEMMA FetchedPreserves ==
  ASSUME MaxKeys \in Nat, ListInv, NEW n \in Nat, NEW here \in Seq(Nat), Len(here) <= kPage,
         List!Fetched(n, here)
  PROVE  ListInv'
<1> USE DEF ListInv
<1>1. /\ fetch = "running" /\ fetch' = "ready" /\ List!OnPage(from, n, here)
      /\ page' = List!PageAfter(n, here)
      /\ UNCHANGED <<pc, keys, from, marker, resp, itr_, failed_, listed, lost>>
  BY DEF List!Fetched, List!callerVars
<1>2. keys \subseteq 1 .. MaxKeys /\ from \in Nat
  BY DEF ListTypeOK
<1>3. /\ page' \in ListPage /\ page'.contents = here
      /\ List!Parsed(here)
      /\ \A i \in 1 .. Len(here) : from < here[i]
      /\ page'.is_truncated =>
           /\ here # <<>> /\ from < page'.next
           /\ \A i \in 1 .. Len(here) : here[i] <= page'.next
      /\ \A k \in keys : k > from =>
           \/ \E i \in 1 .. Len(here) : here[i] = k
           \/ page'.is_truncated /\ k > page'.next
  BY <1>1, <1>2, PageOfServer
<1>4. ListTypeOK'
  BY <1>1, <1>3 DEF ListTypeOK
<1>5. PageInv'
  <2>1. List!Parsed(page.contents)'
    BY <1>3 DEF List!Parsed
  <2> QED BY <1>1, <1>3, <2>1 DEF PageInv
<1>6. PlaceInv'
  BY <1>1 DEF PlaceInv
<1>7. OrderInv'
  BY <1>1 DEF OrderInv, List!Parsed, List!ListedInOrder
<1>8. KeysInv'
  BY <1>1 DEF KeysInv, Seen, Rest
<1> QED BY <1>4, <1>5, <1>6, <1>7, <1>8

LEMMA FetchFailedPreserves ==
  ASSUME kPage \in Nat \ {0}, ListInv, List!FetchFailed
  PROVE  ListInv'
<1> USE DEF ListInv
<1>1. /\ fetch = "running" /\ fetch' = "ready" /\ lost' = TRUE
      /\ page' = List!EmptyPage
      /\ UNCHANGED <<pc, keys, from, marker, resp, itr_, failed_, listed>>
  BY DEF List!FetchFailed, List!callerVars
<1>4. ListTypeOK'
  BY <1>1, EmptyPageFacts DEF ListTypeOK
<1>5. PageInv'
  BY <1>1, EmptyPageFacts DEF PageInv, List!Parsed
<1>6. PlaceInv'
  BY <1>1 DEF PlaceInv
<1>7. OrderInv'
  BY <1>1 DEF OrderInv, List!Parsed, List!ListedInOrder
<1>8. KeysInv'
  BY <1>1 DEF KeysInv
<1> QED BY <1>4, <1>5, <1>6, <1>7, <1>8

\* The prefetch of the page after m.
LEMMA Prefetched ==
  ASSUME NEW m \in Nat, List!StartPrefetch(m), page \in ListPage, lost \in BOOLEAN
  PROVE  /\ from' = m /\ fetch' \in {"running", "ready"}
         /\ page' \in ListPage /\ lost' \in BOOLEAN
         /\ fetch' = "ready" => lost' /\ page' = List!EmptyPage
         /\ ~lost' => ~lost
<1>1. CASE fetch' = "running" /\ UNCHANGED <<page, lost>>
  BY <1>1 DEF List!StartPrefetch
<1>2. CASE fetch' = "ready" /\ page' = List!EmptyPage /\ lost' = TRUE
  BY <1>2, EmptyPageFacts DEF List!StartPrefetch
<1> QED BY <1>1, <1>2 DEF List!StartPrefetch

LEMMA ConstructPreserves ==
  ASSUME MaxKeys \in Nat, kPage \in Nat \ {0}, ListInv, List!Construct
  PROVE  ListInv'
<1> USE DEF ListInv
<1>0. marker \in Nat /\ page \in ListPage /\ lost \in BOOLEAN
  BY DEF ListTypeOK
<1>1. /\ pc = "start" /\ pc' = "populate" /\ List!StartPrefetch(marker)
      /\ UNCHANGED <<keys, marker, resp, itr_, failed_, listed>>
  BY DEF List!Construct, List!callerVars
<1>2. /\ from' = marker /\ fetch' \in {"running", "ready"}
      /\ page' \in ListPage /\ lost' \in BOOLEAN
      /\ fetch' = "ready" => lost' /\ page' = List!EmptyPage
      /\ ~lost' => ~lost
  BY <1>0, <1>1, Prefetched
<1>4. ListTypeOK'
  BY <1>0, <1>1, <1>2 DEF ListTypeOK
<1>5. PageInv'
  BY <1>2, EmptyPageFacts DEF PageInv, List!Parsed
<1>6. PlaceInv'
  BY <1>1, <1>2 DEF PlaceInv
<1>7. OrderInv'
  <2>1. listed = <<>> /\ Len(listed) = 0 /\ itr_ = Len(resp.contents) + 1 /\ Len(resp.contents) \in Nat
    BY <1>1 DEF OrderInv, PlaceInv, ListTypeOK, ListPage
  <2>2. itr_ .. Len(resp.contents) = {}
    BY <2>1
  <2> QED BY <1>1, <2>1, <2>2 DEF OrderInv, List!Parsed, List!ListedInOrder
<1>8. KeysInv'
  BY <1>1, <1>2 DEF KeysInv, Seen, Rest
<1> QED BY <1>4, <1>5, <1>6, <1>7, <1>8

LEMMA RejectedPreserves ==
  ASSUME ListInv, List!Rejected
  PROVE  ListInv'
<1> USE DEF ListInv
<1>1. /\ pc = "start" /\ pc' = "iterate" /\ lost' = TRUE /\ failed_' = TRUE
      /\ UNCHANGED <<keys, marker, resp, itr_, listed, fetch, from, page>>
  BY DEF List!Rejected, List!fetchVars
<1>4. ListTypeOK'
  BY <1>1 DEF ListTypeOK
<1>6. PlaceInv' /\ PageInv'
  BY <1>1 DEF PlaceInv, PageInv, ListTypeOK
<1>7. OrderInv'
  BY <1>1 DEF OrderInv, List!Parsed, List!ListedInOrder
<1>8. KeysInv'
  BY <1>1 DEF KeysInv
<1> QED BY <1>4, <1>6, <1>7, <1>8

LEMMA PopulatePreserves ==
  ASSUME MaxKeys \in Nat, kPage \in Nat \ {0}, ListInv, List!Populate
  PROVE  ListInv'
<1> USE DEF ListInv
<1> DEFINE more == page.contents # <<>> /\ page.is_truncated
           got == page.contents
<1>1. /\ pc = "populate" /\ pc' = "iterate" /\ fetch = "ready" /\ resp' = page /\ itr_' = 1
      /\ ~failed_ /\ failed_' = (page.contents = <<>>)
      /\ IF more THEN marker' = page.next /\ List!StartPrefetch(marker')
                 ELSE fetch' = "none" /\ UNCHANGED <<marker, from, page, lost>>
      /\ UNCHANGED <<keys, listed>>
  BY DEF List!Populate, List!UpdatePaginationArgs, PlaceInv, ListTypeOK
<1>2. /\ page \in ListPage /\ got \in Seq(Nat) /\ Len(got) \in Nat /\ page.next \in Nat
      /\ page.is_truncated \in BOOLEAN
      /\ marker \in Nat /\ from = marker /\ lost \in BOOLEAN /\ listed \in Seq(Nat)
      /\ \A i \in 1 .. Len(got) : got[i] \in Nat
      /\ \A i \in 1 .. Len(listed) : listed[i] \in Nat
  BY <1>1, ElementOfSeq DEF ListTypeOK, ListPage, PlaceInv
<1>3. /\ more => /\ marker' = page.next /\ from' = page.next /\ fetch' \in {"running", "ready"}
                 /\ page' \in ListPage /\ lost' \in BOOLEAN
                 /\ fetch' = "ready" => lost' /\ page' = List!EmptyPage
                 /\ ~lost' => ~lost
      /\ ~more => fetch' = "none" /\ UNCHANGED <<marker, from, page, lost>>
  <2>1. ASSUME more
        PROVE /\ marker' = page.next /\ from' = page.next /\ fetch' \in {"running", "ready"}
              /\ page' \in ListPage /\ lost' \in BOOLEAN
              /\ fetch' = "ready" => lost' /\ page' = List!EmptyPage
              /\ ~lost' => ~lost
    <3>1. marker' = page.next /\ marker' \in Nat /\ List!StartPrefetch(marker')
      BY <1>1, <1>2, <2>1
    <3> QED BY <1>2, <3>1, Prefetched
  <2> QED BY <1>1, <2>1
<1>4. /\ List!Parsed(got) /\ Len(got) <= kPage
      /\ \A i \in 1 .. Len(got) : marker < got[i]
      /\ page.is_truncated =>
           got # <<>> /\ marker < page.next /\ \A i \in 1 .. Len(got) : got[i] <= page.next
      /\ ~lost => \A k \in keys : k > marker =>
           (\E i \in 1 .. Len(got) : got[i] = k) \/ (page.is_truncated /\ k > page.next)
  BY <1>1, <1>2 DEF PageInv
<1>5. \A i \in 1 .. Len(listed) : listed[i] <= marker
  BY <1>1 DEF OrderInv
<1>6. more <=> page.is_truncated
  BY <1>4
<1> HIDE DEF more
<1>7. ListTypeOK'
  <2>1. itr_' \in 1 .. Len(resp'.contents) + 1
    BY <1>1, <1>2
  <2>2. marker' \in Nat /\ from' \in Nat /\ fetch' \in {"none", "running", "ready"}
        /\ page' \in ListPage /\ lost' \in BOOLEAN
    BY <1>2, <1>3
  <2>3. pc' \in {"start", "populate", "iterate", "ended"} /\ failed_' \in BOOLEAN
    BY <1>1
  <2>4. keys' \subseteq 1 .. MaxKeys
    BY <1>1 DEF ListTypeOK
  <2> QED BY <1>1, <1>2, <2>1, <2>2, <2>3, <2>4 DEF ListTypeOK
<1>8. PageInv'
  BY <1>3, EmptyPageFacts DEF PageInv, List!Parsed
<1>9. PlaceInv'
  <2>1. fetch' # "none" <=> more
    BY <1>3
  <2>2. more => Len(got) > 0
    BY <1>2, <1>4, <1>6, EmptySeq
  <2>3. failed_' <=> got = <<>>
    BY <1>1
  <2>4. ~failed_' /\ resp'.is_truncated <=> more
    BY <1>1, <1>4, <1>6, <2>3
  <2>5. more => itr_' <= Len(resp'.contents) /\ from' = marker'
    BY <1>1, <1>2, <1>3, <2>2
  <2> QED BY <1>1, <2>1, <2>4, <2>5 DEF PlaceInv
<1>10. OrderInv'
  <2>1. List!ListedInOrder' /\ List!Parsed(resp.contents)' /\ Len(resp'.contents) <= kPage
    BY <1>1, <1>4 DEF OrderInv, List!Parsed, List!ListedInOrder
  <2>2. \A i \in 1 .. Len(listed), j \in 1 .. Len(got) : listed[i] < got[j]
    BY <1>2, <1>4, <1>5
  <2>3. more => \A i \in 1 .. Len(listed) : listed[i] <= page.next
    BY <1>2, <1>4, <1>5, <1>6
  <2>4. more => \A j \in 1 .. Len(got) : got[j] <= page.next
    BY <1>4, <1>6
  <2> QED BY <1>1, <1>3, <2>1, <2>2, <2>3, <2>4 DEF OrderInv
<1>11. KeysInv'
  <2> SUFFICES ASSUME ~lost', NEW k \in keys'
               PROVE  (k \in Seen \/ k \in Rest \/ (k > marker /\ (pc = "start" \/ fetch # "none")))'
    BY DEF KeysInv
  <2>1. ~lost /\ k \in keys
    BY <1>1, <1>3
  <2>2. Seen' = Seen /\ Rest' = {got[j] : j \in 1 .. Len(got)}
    BY <1>1 DEF Seen, Rest
  <2>3. Rest = {}
    <3>1. itr_ = Len(resp.contents) + 1 /\ Len(resp.contents) \in Nat
      BY <1>1 DEF PlaceInv, ListTypeOK, ListPage
    <3>2. itr_ .. Len(resp.contents) = {}
      BY <3>1
    <3> QED BY <3>2 DEF Rest
  <2>4. k \in Seen \/ k > marker
    BY <2>1, <2>3 DEF KeysInv
  <2>5. CASE k > marker
    <3>1. (\E i \in 1 .. Len(got) : got[i] = k) \/ (page.is_truncated /\ k > page.next)
      BY <1>4, <2>1, <2>5
    <3>2. page.is_truncated => fetch' # "none" /\ marker' = page.next
      BY <1>3, <1>6
    <3> QED BY <2>2, <3>1, <3>2
  <2> QED BY <2>2, <2>4, <2>5
<1> QED BY <1>7, <1>8, <1>9, <1>10, <1>11

LEMMA ListStepPreserves ==
  ASSUME MaxKeys \in Nat, kPage \in Nat \ {0}, ListInv, List!Step
  PROVE  ListInv'
<1> USE DEF ListInv
<1> DEFINE here == resp.contents
<1>1. /\ pc = "iterate" /\ itr_ # Len(here) + 1
      /\ listed' = Append(listed, here[itr_]) /\ itr_' = itr_ + 1
      /\ pc' = IF List!More THEN "populate" ELSE "iterate"
      /\ UNCHANGED <<keys, marker, resp, failed_, fetch, from, page, lost>>
  BY DEF List!Step, List!AtEnd, List!fetchVars
<1>2. /\ here \in Seq(Nat) /\ Len(here) \in Nat /\ Len(listed) \in Nat /\ listed \in Seq(Nat)
      /\ itr_ \in 1 .. Len(here)
  <2>1. here \in Seq(Nat) /\ Len(here) \in Nat /\ Len(listed) \in Nat /\ listed \in Seq(Nat)
    BY DEF ListTypeOK, ListPage
  <2>2. itr_ \in 1 .. Len(here) + 1
    BY DEF ListTypeOK
  <2>3. \A n \in Nat : \A i \in 1 .. n + 1 : i # n + 1 => i \in 1 .. n
    OBVIOUS
  <2>4. itr_ \in 1 .. Len(here)
    BY <1>1, <2>1, <2>2, <2>3
  <2> QED BY <2>1, <2>4
<1>3. /\ here[itr_] \in Nat
      /\ listed' \in Seq(Nat) /\ Len(listed') = Len(listed) + 1
      /\ listed'[Len(listed) + 1] = here[itr_]
      /\ \A i \in 1 .. Len(listed) : listed'[i] = listed[i]
  BY <1>1, <1>2, ElementOfSeq, AppendProperties
<1>4. List!More <=> fetch # "none" /\ itr_ = Len(here)
  BY <1>1 DEF List!More, PlaceInv
<1>5. ListTypeOK'
  <2>1. itr_' \in 1 .. Len(resp'.contents) + 1
    BY <1>1, <1>2
  <2>2. pc' \in {"start", "populate", "iterate", "ended"}
    BY <1>1
  <2> QED BY <1>1, <1>3, <2>1, <2>2 DEF ListTypeOK
<1>6. PageInv'
  BY <1>1 DEF PageInv, List!Parsed
<1>7. PlaceInv'
  <2>1. fetch # "none" /\ itr_ # Len(here) => itr_ + 1 <= Len(here)
    BY <1>2
  <2> QED BY <1>1, <1>4, <2>1 DEF PlaceInv
<1>8. \A i \in 1 .. Len(listed') : i \in 1 .. Len(listed) \/ i = Len(listed) + 1
  BY <1>2, <1>3
<1>9. \A j \in itr_ .. Len(here) : j = itr_ \/ j \in itr_ + 1 .. Len(here)
  BY <1>2
<1>10. \A j \in itr_ + 1 .. Len(here) : j \in itr_ .. Len(here) /\ j \in 1 .. Len(here) /\ itr_ < j
  BY <1>2
<1>11. OrderInv'
  <2>1. List!Parsed(resp.contents)' /\ Len(resp'.contents) <= kPage
    BY <1>1 DEF OrderInv, List!Parsed
  <2>2. List!ListedInOrder'
    <3> SUFFICES ASSUME NEW i \in 1 .. Len(listed'), NEW j \in 1 .. Len(listed'), i < j
                 PROVE  \/ listed'[i] < listed'[j]
                        \/ KindOf[listed'[i]] < KindOf[listed'[j]] /\ j - i < kPage
      BY DEF List!ListedInOrder
    <3>1. i \in 1 .. Len(listed)
      BY <1>2, <1>3
    <3>2. CASE j \in 1 .. Len(listed)
      BY <1>3, <3>1, <3>2 DEF OrderInv, List!ListedInOrder
    <3>3. CASE j = Len(listed) + 1
      <4>1. itr_ \in itr_ .. Len(here)
        BY <1>2
      <4>2. \/ listed[i] < here[itr_]
            \/ KindOf[listed[i]] < KindOf[here[itr_]] /\ Len(listed) - i < itr_ - 1
        BY <3>1, <4>1 DEF OrderInv
      <4>3. Len(listed) - i < itr_ - 1 => j - i < kPage
        <5>1. Len(here) <= kPage
          BY DEF OrderInv
        <5> QED BY <1>2, <3>1, <3>3, <5>1
      <4> QED BY <1>3, <3>1, <3>3, <4>2, <4>3
    <3> QED BY <1>8, <3>2, <3>3
  <2>3. \A i \in 1 .. Len(listed'), j \in itr_ + 1 .. Len(here) :
          \/ listed'[i] < here[j]
          \/ KindOf[listed'[i]] < KindOf[here[j]] /\ Len(listed') - i < itr_' - 1
    <3> SUFFICES ASSUME NEW i \in 1 .. Len(listed'), NEW j \in itr_ + 1 .. Len(here)
                 PROVE  \/ listed'[i] < here[j]
                        \/ KindOf[listed'[i]] < KindOf[here[j]] /\ Len(listed') - i < itr_' - 1
      OBVIOUS
    <3>1. CASE i \in 1 .. Len(listed)
      <4>1. \/ listed[i] < here[j]
            \/ KindOf[listed[i]] < KindOf[here[j]] /\ Len(listed) - i < itr_ - 1
        BY <1>10, <3>1 DEF OrderInv
      <4>2. Len(listed) - i < itr_ - 1 => Len(listed') - i < itr_' - 1
        BY <1>1, <1>2, <1>3, <3>1
      <4> QED BY <1>3, <3>1, <4>1, <4>2
    <3>2. CASE i = Len(listed) + 1
      <4>1. j \in 1 .. Len(here) /\ itr_ < j
        BY <1>10
      <4>2. here[itr_] < here[j] \/ KindOf[here[itr_]] < KindOf[here[j]]
        BY <1>2, <4>1 DEF OrderInv, List!Parsed
      <4>3. Len(listed') - i < itr_' - 1
        BY <1>1, <1>2, <1>3, <3>2
      <4> QED BY <1>3, <3>2, <4>2, <4>3
    <3> QED BY <1>8, <3>1, <3>2
  <2>4. fetch # "none" => \A i \in 1 .. Len(listed') : listed'[i] <= marker
    <3> SUFFICES ASSUME fetch # "none", NEW i \in 1 .. Len(listed') PROVE listed'[i] <= marker
      OBVIOUS
    <3>1. itr_ \in itr_ .. Len(here)
      BY <1>2
    <3>2. here[itr_] <= marker
      BY <3>1 DEF OrderInv
    <3>3. CASE i \in 1 .. Len(listed)
      BY <1>3, <3>3 DEF OrderInv
    <3>4. CASE i = Len(listed) + 1
      BY <1>3, <3>2, <3>4
    <3> QED BY <1>8, <3>3, <3>4
  <2>5. fetch # "none" => \A j \in itr_ + 1 .. Len(here) : here[j] <= marker
    BY <1>10 DEF OrderInv
  <2> QED BY <1>1, <2>1, <2>2, <2>3, <2>4, <2>5 DEF OrderInv
<1>12. KeysInv'
  <2>1. Seen' = Seen \cup {here[itr_]}
    <3>1. Len(listed) + 1 \in 1 .. Len(listed') /\ \A i \in 1 .. Len(listed) : i \in 1 .. Len(listed')
      BY <1>2, <1>3
    <3>2. Seen' \subseteq Seen \cup {here[itr_]}
      BY <1>3, <1>8 DEF Seen
    <3>3. Seen \subseteq Seen'
      BY <1>3, <3>1 DEF Seen
    <3>4. here[itr_] \in Seen'
      BY <1>3, <3>1 DEF Seen
    <3> QED BY <3>2, <3>3, <3>4
  <2>2. Rest \subseteq Rest' \cup {here[itr_]}
    BY <1>1, <1>9 DEF Rest
  <2>3. pc # "start"
    BY <1>1
  <2> QED BY <1>1, <2>1, <2>2, <2>3 DEF KeysInv
<1> QED BY <1>5, <1>6, <1>7, <1>11, <1>12

LEMMA ListNext ==
  ASSUME MaxKeys \in Nat, kPage \in Nat \ {0}, ListInv, [List!Next]_(List!vars)
  PROVE  ListInv'
<1>1. ASSUME NEW here \in List!BoundedSeq(1 .. MaxKeys, kPage), NEW n \in 0 .. MaxKeys,
             List!Fetched(n, here)
      PROVE  ListInv'
  <2>1. here \in Seq(Nat) /\ Len(here) <= kPage
    <3>1. PICK m \in 0 .. kPage : here \in [1 .. m -> 1 .. MaxKeys]
      BY DEF List!BoundedSeq, List!SeqOf
    <3>2. m \in Nat /\ m <= kPage /\ \A i \in 1 .. m : here[i] \in Nat
      BY <3>1
    <3>3. here \in [1 .. m -> Nat]
      BY <3>1, <3>2
    <3>4. here \in Seq(Nat)
      BY <3>2, <3>3, SeqDef
    <3>5. Len(here) = m
      BY <3>1, <3>2, <3>4, LenProperties
    <3> QED BY <3>2, <3>4, <3>5
  <2> QED BY <1>1, <2>1, FetchedPreserves
<1>2. CASE List!End
  <2>1. /\ pc = "iterate" /\ pc' = "ended" /\ itr_ = Len(resp.contents) + 1
        /\ UNCHANGED <<keys, marker, fetch, from, page, resp, itr_, failed_, listed, lost>>
    BY <1>2 DEF List!End, List!AtEnd, List!callerVars, List!fetchVars
  <2>2. fetch = "none"
    <3>1. Len(resp.contents) \in Nat /\ ~(itr_ <= Len(resp.contents))
      BY <2>1 DEF ListInv, ListTypeOK, ListPage
    <3> QED BY <2>1, <3>1 DEF ListInv, PlaceInv
  <2>3. ListTypeOK'
    BY <2>1 DEF ListInv, ListTypeOK
  <2>4. PageInv' /\ PlaceInv'
    BY <2>1, <2>2 DEF ListInv, PageInv, PlaceInv
  <2>5. OrderInv'
    BY <2>1 DEF ListInv, OrderInv, List!Parsed, List!ListedInOrder
  <2>6. KeysInv'
    BY <2>1 DEF ListInv, KeysInv, Seen, Rest
  <2> QED BY <2>3, <2>4, <2>5, <2>6 DEF ListInv
<1>3. ASSUME NEW k \in keys, List!RemoveKey(k)
      PROVE  ListInv'
  <2>1. /\ keys' \subseteq keys
        /\ UNCHANGED <<pc, marker, fetch, from, page, resp, itr_, failed_, listed, lost>>
    BY <1>3 DEF List!RemoveKey, List!callerVars, List!fetchVars
  <2>3. ListTypeOK'
    BY <2>1 DEF ListInv, ListTypeOK
  <2>4. PageInv'
    BY <2>1 DEF ListInv, PageInv, List!Parsed
  <2>5. PlaceInv'
    BY <2>1 DEF ListInv, PlaceInv
  <2>6. OrderInv'
    BY <2>1 DEF ListInv, OrderInv, List!Parsed, List!ListedInOrder
  <2>7. KeysInv'
    BY <2>1 DEF ListInv, KeysInv, Seen, Rest
  <2> QED BY <2>3, <2>4, <2>5, <2>6, <2>7 DEF ListInv
<1>4. CASE List!Ended \/ UNCHANGED List!vars
  <2>1. UNCHANGED <<pc, keys, marker, fetch, from, page, resp, itr_, failed_, listed, lost>>
    BY <1>4 DEF List!Ended, List!vars
  <2>3. ListTypeOK'
    BY <2>1 DEF ListInv, ListTypeOK
  <2>4. PageInv'
    BY <2>1 DEF ListInv, PageInv, List!Parsed
  <2>5. PlaceInv'
    BY <2>1 DEF ListInv, PlaceInv
  <2>6. OrderInv'
    BY <2>1 DEF ListInv, OrderInv, List!Parsed, List!ListedInOrder
  <2>7. KeysInv'
    BY <2>1 DEF ListInv, KeysInv, Seen, Rest
  <2> QED BY <2>3, <2>4, <2>5, <2>6, <2>7 DEF ListInv
<1>5. CASE List!FetchFailed
  BY <1>5, FetchFailedPreserves
<1>6. CASE List!Construct
  BY <1>6, ConstructPreserves
<1>7. CASE List!Rejected
  BY <1>7, RejectedPreserves
<1>8. CASE List!Populate
  BY <1>8, PopulatePreserves
<1>9. CASE List!Step
  BY <1>9, ListStepPreserves
<1> QED BY <1>1, <1>2, <1>3, <1>4, <1>5, <1>6, <1>7, <1>8, <1>9 DEF List!Next, List!Caller,
           List!Thread

\* The caller of ListObjects sees each key at most once, and a key before a smaller one
\* only inside of a page, from an earlier one of its lists (ParseXML): whatever size the
\* server gives its pages, whenever the prefetch runs and whatever is removed meanwhile.
THEOREM KeysComeInOrder ==
  ASSUME MaxKeys \in Nat, kPage \in Nat \ {0}
  PROVE  List!Spec => []List!ListedInOrder
<1>1. ListInv => List!ListedInOrder
  BY DEF ListInv, OrderInv
<1> QED BY <1>1, ListInit, ListNext, PTL DEF List!Spec

\* A listing no page of which was lost shows every key that was there from its
\* beginning to its end: no key falls between two pages.
THEOREM NoKeyIsMissed ==
  ASSUME MaxKeys \in Nat, kPage \in Nat \ {0}
  PROVE  List!Spec => []List!ListingComplete
<1>1. ListInv => List!ListingComplete
  <2> SUFFICES ASSUME ListInv, pc = "ended", ~lost PROVE keys \subseteq List!ToSet(listed)
    BY DEF List!ListingComplete
  <2>1. fetch = "none" /\ Rest = {}
    <3>1. itr_ = Len(resp.contents) + 1 /\ Len(resp.contents) \in Nat /\ fetch = "none"
      BY DEF ListInv, PlaceInv, ListTypeOK, ListPage
    <3>2. itr_ .. Len(resp.contents) = {}
      BY <3>1
    <3> QED BY <3>1, <3>2 DEF Rest
  <2>2. List!ToSet(listed) = Seen
    BY LenProperties DEF List!ToSet, Seen, ListInv, ListTypeOK
  <2> QED BY <2>1, <2>2 DEF ListInv, KeysInv
<1> QED BY <1>1, ListInit, ListNext, PTL DEF List!Spec
=============================================================================
