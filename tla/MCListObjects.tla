---------------------------- MODULE MCListObjects ----------------------------
(***************************************************************************)
(* Keys of the three kinds in turn: the buckets are their subsets, so that *)
(* a page may hold any of them beside any other.                           *)
(***************************************************************************)
EXTENDS ListObjects

MCKindOf == [k \in 1 .. MaxKeys |-> 3 - (k % 3)]
=============================================================================
