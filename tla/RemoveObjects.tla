---------------------------- MODULE RemoveObjects ----------------------------
(***************************************************************************)
(* Client::RemoveObjects and the RemoveObjectsResult it returns: an        *)
(* iterator over the objects that could not be removed, which pulls names  *)
(* from the caller's function and sends them in batches while the caller   *)
(* iterates.                                                               *)
(*                                                                         *)
(* Objects are numbered in the order the function names them.              *)
(***************************************************************************)
EXTENDS Integers, Sequences, SequencesExt

CONSTANTS
  kBatch,       \* names per request, 1000 in the code
  MaxObjects    \* the function names at most this many

ASSUME BatchAssumption == kBatch \in Nat \ {0} /\ MaxObjects \in Nat

VARIABLES
  pc,        \* "start", "populate", "send", "iterate", "ended"
  supply,    \* how many names the function will give
  taken,     \* how many it has given
  objects,   \* args.objects, the batch under way
  done_,
  errors,    \* resp_.errors
  itr_,      \* a position in errors; Len(errors) + 1 is end()
  removed,   \* the objects the server has removed
  refused,   \* the objects the server has answered an error for
  reported,  \* the errors the caller has seen, in order
  lostBatch  \* history: a whole request failed

vars == <<pc, supply, taken, objects, done_, errors, itr_, removed, refused,
          reported, lostBatch>>
serverVars == <<removed, refused>>

Init ==
  /\ pc = "start"
  /\ supply \in 0 .. MaxObjects
  /\ taken = 0
  /\ objects = <<>>
  /\ done_ = FALSE
  /\ errors = <<>>
  /\ itr_ = 1
  /\ removed = {}
  /\ refused = {}
  /\ reported = <<>>
  /\ lostBatch = FALSE

AtEnd == itr_ = Len(errors) + 1

\* args.Validate: a rejected call is an iterator that is at its end, and the
\* error is dropped.
Validate ==
  /\ pc = "start"
  /\ \/ pc' = "populate" /\ UNCHANGED done_
     \/ pc' = "iterate" /\ done_' = TRUE
  /\ UNCHANGED <<supply, taken, objects, errors, itr_, serverVars, reported,
                 lostBatch>>

Lesser(a, b) == IF a <= b THEN a ELSE b

\* for (i < kBatch) if (!func(object)) break; else objects.push_back(object)
BatchSize == Lesser(kBatch, supply - taken)

\* A full batch is noticed only after one more name was taken.
Pulled_OneMore == Lesser(kBatch + 1, supply - taken)

Pulled == BatchSize

\* Populate's loop, up to the request ...
Collect ==
  /\ pc = "populate"
  /\ ~done_ /\ errors = <<>>
  /\ objects' = [i \in 1 .. BatchSize |-> taken + i]
  /\ taken' = taken + Pulled
  /\ IF objects' # <<>> THEN pc' = "send" /\ UNCHANGED <<done_, itr_>>
                        ELSE UNCHANGED pc /\ done_' = TRUE /\ itr_' = 1
  /\ UNCHANGED <<supply, errors, serverVars, reported, lostBatch>>

Increasing(s) == \A i, j \in 1 .. Len(s) : i < j => s[i] < s[j]

\* ... the request: some objects of the batch are removed, and the errors, in
\* the order of the batch, name the others ...
Send(bad) ==
  /\ pc = "send"
  /\ Increasing(bad) /\ ToSet(bad) \subseteq ToSet(objects)
  /\ errors' = bad
  /\ removed' = removed \cup (ToSet(objects) \ ToSet(bad))
  /\ refused' = refused \cup ToSet(bad)
  /\ itr_' = 1
  /\ pc' = "populate"
  /\ UNCHANGED <<supply, taken, objects, done_, reported, lostBatch>>

\* ... or it fails as a whole, applied or not, and resp_ stays as it was.
SendFailed(applied) ==
  /\ pc = "send"
  /\ removed' = IF applied THEN removed \cup ToSet(objects) ELSE removed
  /\ lostBatch' = TRUE
  /\ itr_' = 1
  /\ pc' = "populate"
  /\ UNCHANGED <<supply, taken, objects, done_, errors, refused, reported>>

\* The loop ends with errors to show, or at the end of the names.
PopulateEnd ==
  /\ pc = "populate"
  /\ done_ \/ errors # <<>>
  /\ pc' = "iterate"
  /\ UNCHANGED <<supply, taken, objects, done_, errors, itr_, serverVars,
                 reported, lostBatch>>

\* The last error of a batch is stepped over.
Step_SkipLast ==
  /\ pc = "iterate"
  /\ ~AtEnd
  /\ reported' = IF itr_ = Len(errors) /\ itr_ > 1 THEN reported ELSE Append(reported, errors[itr_])
  /\ itr_' = itr_ + 1
  /\ pc' = IF ~done_ /\ itr_ = Len(errors) THEN "populate" ELSE "iterate"
  /\ UNCHANGED <<supply, taken, objects, done_, errors, serverVars, lostBatch>>

\* The caller's loop: for (; result; result++) use *result
Step ==
  /\ pc = "iterate"
  /\ ~AtEnd
  /\ reported' = Append(reported, errors[itr_])
  /\ itr_' = itr_ + 1
  /\ pc' = IF ~done_ /\ itr_ = Len(errors) THEN "populate" ELSE "iterate"
  /\ UNCHANGED <<supply, taken, objects, done_, errors, serverVars, lostBatch>>

End ==
  /\ pc = "iterate"
  /\ AtEnd
  /\ pc' = "ended"
  /\ UNCHANGED <<supply, taken, objects, done_, errors, itr_, serverVars,
                 reported, lostBatch>>

Ended == pc = "ended" /\ UNCHANGED vars

Running ==
  \/ Validate \/ Collect
  \/ \E bad \in BoundedSeq(1 .. MaxObjects, kBatch) : Send(bad)
  \/ \E applied \in BOOLEAN : SendFailed(applied)
  \/ PopulateEnd \/ Step \/ End

Next == Running \/ Ended

\* One thread runs the call and the caller's loop.
Spec == Init /\ [][Next]_vars

----------------------------------------------------------------------------
TypeOK ==
  /\ pc \in {"start", "populate", "send", "iterate", "ended"}
  /\ supply \in 0 .. MaxObjects
  /\ taken \in 0 .. supply
  /\ objects \in Seq(1 .. MaxObjects)
  /\ done_ \in BOOLEAN /\ lostBatch \in BOOLEAN
  /\ errors \in Seq(1 .. MaxObjects)
  /\ itr_ \in 1 .. Len(errors) + 1
  /\ removed \subseteq 1 .. MaxObjects
  /\ refused \subseteq 1 .. MaxObjects
  /\ reported \in Seq(1 .. MaxObjects)

\* The caller is shown every error the server answered, once and in order, and
\* no object that was removed.
ErrorsReported ==
  /\ Increasing(reported)
  /\ ToSet(reported) \subseteq refused
  /\ pc = "ended" => ToSet(reported) = refused

\* When every request got through and no object was refused, the names given by
\* the function have all been removed, whatever their number is a multiple of.
AllRemoved ==
  pc = "ended" /\ taken > 0 /\ refused = {} /\ ~lostBatch => removed = 1 .. supply
=============================================================================
