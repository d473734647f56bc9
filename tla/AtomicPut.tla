------------------------------ MODULE AtomicPut ------------------------------
(***************************************************************************)
(* What Client::PutObject promises its caller, whatever path it takes      *)
(* (parallel multipart, sequential multipart or a single PUT): the object  *)
(* is replaced as a whole or not at all, a partial object is never         *)
(* visible, and success is reported only for an object that is in place.   *)
(* An error is ambiguous: the request that commits the object may have     *)
(* been applied although its reply was lost, and may even be applied after *)
(* the error was reported.                                                 *)
(***************************************************************************)

VARIABLES
  object,   \* "old" until the upload replaces it, then "new"
  result    \* "pending" until the call ends; "threw" when it ended by an
            \* exception of the caller's own callback

vars == <<object, result>>

Init == object = "old" /\ result = "pending"

Commit ==
  /\ object = "old"
  /\ result \in {"pending", "err"}
  /\ object' = "new"
  /\ UNCHANGED result

\* The answer may be the very one that says the object was committed.
Return(r) ==
  /\ result = "pending"
  /\ object' \in {object, "new"}
  /\ r = "ok" => object' = "new"
  /\ result' = r

Next == Commit \/ \E r \in {"ok", "err", "threw"} : Return(r)

Spec == Init /\ [][Next]_vars
=============================================================================
