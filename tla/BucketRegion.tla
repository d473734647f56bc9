---------------------------- MODULE BucketRegion -----------------------------
(***************************************************************************)
(* The region cache of BaseClient (region_map_, one bucket of it) under    *)
(* concurrent calls on one client: GetRegion, Execute with its single      *)
(* retry, the handling of error answers, and the bucket operations         *)
(* BucketExists, MakeBucket, RemoveBucket and one that stands for every    *)
(* other request on the bucket or its objects that is not a HEAD.  Other   *)
(* clients create and remove the bucket as well, possibly in another       *)
(* region.                                                                 *)
(*                                                                         *)
(* The locks of region_map_ are held for one access only, so each access   *)
(* is a step of its own.  The client has credentials and no fixed region.  *)
(***************************************************************************)
EXTENDS Integers, FiniteSets

CONSTANTS
  Threads,
  Regions,      \* where a bucket may be
  None,         \* no entry in the cache, or no such bucket
  MaxChanges,   \* how often the bucket is created or removed
  MaxFaults     \* how many requests fail without an answer

ASSUME RegionAssumption ==
  /\ None \notin Regions
  /\ MaxChanges \in Nat
  /\ MaxFaults \in Nat

VARIABLES
  bucket,       \* the server: the region of the bucket, or None
  region_map_,  \* the client's cache
  pc,           \* per thread: where its call is
  op,           \* "exists", "make", "remove" or "other"
  region,       \* the region its request is signed for
  attempt,      \* 1, or 2 after RetryHead
  reply,        \* the answer it is about to handle
  result,       \* what its last call returned
  seen,         \* history: the states of the bucket during its last call
  changes, faults

threadVars == <<pc, op, region, attempt, reply, result, seen>>
vars == <<bucket, region_map_, threadVars, changes, faults>>

Init ==
  /\ bucket \in Regions \cup {None}
  /\ region_map_ = None
  /\ pc = [t \in Threads |-> "idle"]
  /\ op = [t \in Threads |-> "other"]
  /\ region = [t \in Threads |-> None]
  /\ attempt = [t \in Threads |-> 1]
  /\ reply = [t \in Threads |-> "none"]
  /\ result = [t \in Threads |-> "none"]
  /\ seen = [t \in Threads |-> {}]
  /\ changes = 0
  /\ faults = 0

Goto(t, label) == pc' = [pc EXCEPT ![t] = label]

Return(t, r) ==
  /\ Goto(t, "idle")
  /\ result' = [result EXCEPT ![t] = r]

----------------------------------------------------------------------------
(* The server.                                                              *)

\* The bucket becomes b, and every call under way may have noticed.
Becomes(b) ==
  /\ bucket' = b
  /\ seen' = [t \in Threads |-> seen[t] \cup {b}]

\* Another client creates or removes the bucket.
OtherClient(b) ==
  /\ changes < MaxChanges
  /\ b # bucket
  /\ bucket = None \/ b = None
  /\ changes' = changes + 1
  /\ Becomes(b)
  /\ UNCHANGED <<region_map_, pc, op, region, attempt, reply, result, faults>>

\* The answer to a request signed for a region.  A request other than HEAD gets
\* an error with a body that names its code; an answer to HEAD has no body.
Answer(o, r) ==
  IF o = "make" THEN IF bucket = None THEN "ok" ELSE "conflict"
  ELSE IF bucket = None THEN IF o = "exists" THEN "404" ELSE "NoSuchBucket"
  ELSE IF bucket = r THEN "ok"
  ELSE IF o = "exists" THEN "redirect" ELSE "wrongRegion"

----------------------------------------------------------------------------
(* A call.                                                                  *)

\* MakeBucket takes the region it is given; all others ask GetRegion.
Call(t, o, r) ==
  /\ pc[t] = "idle"
  /\ o \in {"make", "remove"} => changes < MaxChanges
  /\ changes' = IF o \in {"make", "remove"} THEN changes + 1 ELSE changes
  /\ op' = [op EXCEPT ![t] = o]
  /\ region' = [region EXCEPT ![t] = IF o = "make" THEN r ELSE None]
  /\ attempt' = [attempt EXCEPT ![t] = 1]
  /\ reply' = [reply EXCEPT ![t] = "none"]
  /\ result' = [result EXCEPT ![t] = "none"]
  /\ seen' = [seen EXCEPT ![t] = {bucket}]
  /\ Goto(t, IF o = "make" THEN "request" ELSE "lookup")
  /\ UNCHANGED <<bucket, region_map_, faults>>

\* GetRegion: an entry of the cache is used ...
Lookup(t) ==
  /\ pc[t] = "lookup"
  /\ region' = [region EXCEPT ![t] = region_map_]
  /\ Goto(t, IF region_map_ # None THEN "request" ELSE "location")
  /\ UNCHANGED <<bucket, region_map_, op, attempt, reply, result, seen, changes, faults>>

\* ... otherwise the server is asked; the answer is stored by a later step.
Location(t) ==
  /\ pc[t] = "location"
  /\ IF bucket = None
       THEN /\ reply' = [reply EXCEPT ![t] = "NoSuchBucket"]
            /\ Goto(t, "erase")
            /\ UNCHANGED region
       ELSE /\ region' = [region EXCEPT ![t] = bucket]
            /\ Goto(t, "store")
            /\ UNCHANGED reply
  /\ UNCHANGED <<bucket, region_map_, op, attempt, result, seen, changes, faults>>

Store(t) ==
  /\ pc[t] = "store"
  /\ region_map_' = region[t]
  /\ IF op[t] = "make" THEN Return(t, "ok") ELSE Goto(t, "request") /\ UNCHANGED result
  /\ UNCHANGED <<bucket, op, region, attempt, reply, seen, changes, faults>>

\* The request reaches the server.
Perform(t) ==
  LET a == Answer(op[t], region[t])
  IN /\ pc[t] = "request"
     /\ reply' = [reply EXCEPT ![t] = a]
     /\ IF a = "ok" /\ op[t] = "make" THEN Becomes(region[t])
        ELSE IF a = "ok" /\ op[t] = "remove" THEN Becomes(None)
        ELSE UNCHANGED <<bucket, seen>>
     /\ Goto(t, "handle")
     /\ UNCHANGED <<region_map_, op, region, attempt, result, changes, faults>>

\* No answer, to the request or to the question for the location.
Fault(t) ==
  /\ pc[t] \in {"request", "location"}
  /\ faults < MaxFaults
  /\ faults' = faults + 1
  /\ Return(t, "err")
  /\ UNCHANGED <<bucket, region_map_, op, region, attempt, reply, seen, changes>>

\* Success: MakeBucket puts the region into the cache, RemoveBucket leaves the
\* cache alone.
Succeeded(t) ==
  /\ pc[t] = "handle"
  /\ reply[t] = "ok"
  /\ IF op[t] = "make"
       THEN Goto(t, "store") /\ UNCHANGED result
       ELSE Return(t, IF op[t] = "exists" THEN "true" ELSE "ok")
  /\ UNCHANGED <<bucket, region_map_, op, region, attempt, reply, seen, changes, faults>>

\* A redirected HEAD drops no entry.
ErasingReplies_NoRetry == {"NoSuchBucket"}

\* The errors that make execute drop the cache entry.
ErasingReplies == {"NoSuchBucket", "RetryHead"}

\* GetErrorResponse and HandleRedirectResponse: a redirected HEAD becomes
\* RetryHead if the cache has an entry at that moment.
Failed(t) ==
  LET code == IF reply[t] = "redirect" /\ region_map_ # None THEN "RetryHead" ELSE reply[t]
  IN /\ pc[t] = "handle"
     /\ reply[t] # "ok"
     /\ reply' = [reply EXCEPT ![t] = code]
     /\ Goto(t, IF code \in ErasingReplies THEN "erase" ELSE "error")
     /\ UNCHANGED <<bucket, region_map_, op, region, attempt, result, seen, changes, faults>>

Erase(t) ==
  /\ pc[t] = "erase"
  /\ region_map_' = None
  /\ Goto(t, "error")
  /\ UNCHANGED <<bucket, op, region, attempt, reply, result, seen, changes, faults>>

\* BucketExists takes a NoSuchBucket from GetRegion for its answer.
NextAfterError_AlwaysFalse(t) == IF op[t] = "exists" THEN "false" ELSE "err"

NextAfterError(t) ==
  IF op[t] = "exists" /\ reply[t] = "NoSuchBucket" THEN "false" ELSE "err"

\* Execute retries once, with the same request.
Error(t) ==
  /\ pc[t] = "error"
  /\ IF reply[t] = "RetryHead" /\ attempt[t] = 1
       THEN /\ attempt' = [attempt EXCEPT ![t] = 2]
            /\ Goto(t, "request")
            /\ UNCHANGED result
       ELSE Return(t, NextAfterError(t)) /\ UNCHANGED attempt
  /\ UNCHANGED <<bucket, region_map_, op, region, reply, seen, changes, faults>>

Step(t) == Lookup(t) \/ Location(t) \/ Store(t) \/ Perform(t) \/ Succeeded(t)
           \/ Failed(t) \/ Erase(t) \/ Error(t)

AnyCall(t) ==
  \/ \E o \in {"exists", "remove", "other"} : Call(t, o, None)
  \/ \E r \in Regions : Call(t, "make", r)

Next ==
  \/ \E t \in Threads : AnyCall(t) \/ Step(t) \/ Fault(t)
  \/ \E b \in Regions \cup {None} : OtherClient(b)

\* Every request gets an answer or a timeout, and each thread goes on asking
\* whether the bucket exists.
Spec == /\ Init /\ [][Next]_vars
        /\ \A t \in Threads : /\ WF_vars(Step(t))
                              /\ SF_vars(Call(t, "exists", None))

----------------------------------------------------------------------------
TypeOK ==
  /\ bucket \in Regions \cup {None}
  /\ region_map_ \in Regions \cup {None}
  /\ pc \in [Threads -> {"idle", "lookup", "location", "store", "request", "handle",
                         "erase", "error"}]
  /\ op \in [Threads -> {"exists", "make", "remove", "other"}]
  /\ region \in [Threads -> Regions \cup {None}]
  /\ attempt \in [Threads -> 1 .. 2]
  /\ result \in [Threads -> {"none", "ok", "true", "false", "err"}]
  /\ seen \in [Threads -> SUBSET (Regions \cup {None})]
  /\ changes \in 0 .. MaxChanges
  /\ faults \in 0 .. MaxFaults

\* What BucketExists answers was true at some moment of the call, however stale
\* the cache it used and whatever other threads and clients did meanwhile.
ExistsIsTrue ==
  \A t \in Threads : op[t] = "exists" /\ pc[t] = "idle" =>
    /\ result[t] = "true" => seen[t] # {None}
    /\ result[t] = "false" => None \in seen[t]

\* Once the bucket stays where it is, the cache stops contradicting it: a HEAD
\* that was redirected drops the entry, and late answers run out.
CacheHeals == <>[](bucket # None => region_map_ \in {None, bucket})
=============================================================================
