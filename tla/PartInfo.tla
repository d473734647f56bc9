------------------------------ MODULE PartInfo ------------------------------
(***************************************************************************)
(* How an upload is cut into parts: utils::CalcPartInfo.  The limits are   *)
(* constants so that a model may scale them down; the code has 5 MiB,      *)
(* 5 GiB, 5 TiB and 10000.                                                 *)
(***************************************************************************)
EXTENDS Integers

CONSTANTS
  kMinPartSize,
  kMaxPartSize,
  kMaxObjectSize,
  kMaxMultipartCount,
  None                \* an unset std::optional

ASSUME LimitsAssumption ==
  /\ kMinPartSize \in Nat \ {0}
  /\ kMaxPartSize \in Nat
  /\ kMinPartSize <= kMaxPartSize
  /\ kMaxObjectSize \in Nat
  /\ kMaxMultipartCount \in Nat \ {0}
  /\ None \notin Int

CeilDiv(a, b) == (a + b - 1) \div b

\* The part size chosen for the caller: the least multiple of kMinPartSize
\* that covers the object in at most kMaxMultipartCount parts.
AutoPartSize(object_size) ==
  CeilDiv(CeilDiv(object_size, kMaxMultipartCount), kMinPartSize) * kMinPartSize

PartInfoError(object_size, part_size) ==
  \/ part_size > 0 /\ (part_size < kMinPartSize \/ part_size > kMaxPartSize)
  \/ object_size # None /\ object_size > kMaxObjectSize
  \/ object_size = None /\ part_size <= 0

ChosenPartSize(object_size, part_size) ==
  LET wanted == IF part_size <= 0 THEN AutoPartSize(object_size) ELSE part_size
  IN  IF wanted > object_size THEN object_size ELSE wanted

PartCount(object_size, part_size) ==
  IF part_size > 0 THEN CeilDiv(object_size, part_size) ELSE 1

\* CalcPartInfo updates part_size and part_count in place; part_count is None
\* when the size of the object is not known.
CalcPartInfo(object_size, part_size) ==
  IF object_size = None
    THEN [err |-> PartInfoError(object_size, part_size),
          part_size |-> part_size, part_count |-> None]
    ELSE LET ps == ChosenPartSize(object_size, part_size)
             pc == PartCount(object_size, ps)
         IN  [err |-> \/ PartInfoError(object_size, part_size)
                      \/ pc > kMaxMultipartCount,
              part_size |-> ps, part_count |-> pc]
=============================================================================
