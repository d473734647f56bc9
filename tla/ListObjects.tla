----------------------------- MODULE ListObjects -----------------------------
(***************************************************************************)
(* ListObjectsResult: an iterator over the keys of a bucket.  While the    *)
(* caller consumes one page, a thread already fetches the next one, with   *)
(* the position that the current page gave.  Meanwhile other clients       *)
(* remove keys.                                                            *)
(*                                                                         *)
(* What a listing shows (objects or versions, common prefixes, delete      *)
(* markers) are numbers in the order of the server, called keys.  It cuts  *)
(* pages in that order, but on a page each of the three has its list, and  *)
(* the lists follow one another: of "a/x" and "b" a page without recursion *)
(* shows "b", then "a/".                                                   *)
(*                                                                         *)
(* The three listing calls (V1, V2, versions) differ in the names of the   *)
(* position fields only; a position is the key the next page starts after. *)
(***************************************************************************)
EXTENDS Integers, Sequences, SequencesExt

CONSTANTS
  MaxKeys,     \* the bucket holds at most the keys 1 .. MaxKeys
  kPage,       \* most keys the server puts on a page (max-keys)
  KindOf       \* of a key: the list of a page it is in

\* Contents (or Version), CommonPrefixes and DeleteMarker, in the order they are read.
Kinds == 1 .. 3

ASSUME PageAssumption ==
  /\ MaxKeys \in Nat /\ kPage \in Nat \ {0}
  /\ KindOf \in [1 .. MaxKeys -> Kinds]

VARIABLES
  pc,        \* the caller: "start", "populate", "iterate", "ended"
  keys,      \* the bucket's keys
  marker,    \* args_: where the next page starts
  fetch,     \* prefetch_future_: "none", "running" or "ready"
  from,      \* the position the prefetch thread was given
  page,      \* what the prefetch thread returned
  resp,      \* resp_: the page under iteration
  itr_,      \* position in resp.contents; Len + 1 is end()
  failed_,
  listed,    \* the keys the caller has seen
  lost       \* history: the call was rejected or a page request failed

vars == <<pc, keys, marker, fetch, from, page, resp, itr_, failed_, listed, lost>>
callerVars == <<marker, resp, itr_, failed_, listed>>
fetchVars == <<fetch, from, page>>

\* A default-constructed ListObjectsResponse.
EmptyPage == [contents |-> <<>>, is_truncated |-> FALSE, next |-> 0]

Init ==
  /\ pc = "start"
  /\ keys \in SUBSET (1 .. MaxKeys)
  /\ marker = 0
  /\ fetch = "none"
  /\ from = 0
  /\ page = EmptyPage
  /\ resp = EmptyPage
  /\ itr_ = 1
  /\ failed_ = FALSE
  /\ listed = <<>>
  /\ lost = FALSE

----------------------------------------------------------------------------
(* The prefetch thread.                                                     *)

\* What ParseXML makes of a page: list after list, each in the server's order.
Parsed(s) ==
  \A i, j \in 1 .. Len(s) : i < j =>
    KindOf[s[i]] < KindOf[s[j]] \/ (KindOf[s[i]] = KindOf[s[j]] /\ s[i] < s[j])

\* The server's answer: the keys after m up to next, the greatest on the page; none
\* only when there are none.  (NextMarker of V1 is left out only where there are no
\* prefixes; the last of the Contents, which is taken then, is the greatest.)
PageAfter(next, here) ==
  [contents |-> here, is_truncated |-> \E k \in keys : k > next, next |-> next]

OnPage(m, next, here) ==
  /\ Parsed(here)
  /\ ToSet(here) = {k \in keys : m < k /\ k <= next}
  /\ IF here = <<>> THEN next = m /\ ~PageAfter(next, here).is_truncated
                    ELSE next \in ToSet(here)

Fetched(next, here) ==
  /\ fetch = "running"
  /\ OnPage(from, next, here)
  /\ page' = PageAfter(next, here)
  /\ fetch' = "ready"
  /\ UNCHANGED <<pc, keys, from, callerVars, lost>>

\* Any failure, of the region lookup, the request, the parser or an exception,
\* becomes a page without keys.
FetchFailed ==
  /\ fetch = "running"
  /\ page' = EmptyPage
  /\ fetch' = "ready"
  /\ lost' = TRUE
  /\ UNCHANGED <<pc, keys, from, callerVars>>

----------------------------------------------------------------------------
(* The caller's thread.                                                     *)

\* StartPrefetch copies the arguments; a thread that cannot be started counts as
\* a page without keys.
StartPrefetch(m) ==
  /\ from' = m
  /\ \/ fetch' = "running" /\ UNCHANGED <<page, lost>>
     \/ fetch' = "ready" /\ page' = EmptyPage /\ lost' = TRUE

\* The constructor, unless args.Validate fails: that error is dropped, and the
\* iterator is at its end.
Construct ==
  /\ pc = "start"
  /\ StartPrefetch(marker)
  /\ pc' = "populate"
  /\ UNCHANGED <<keys, callerVars>>

Rejected ==
  /\ pc = "start"
  /\ failed_' = TRUE
  /\ pc' = "iterate"
  /\ lost' = TRUE
  /\ UNCHANGED <<keys, marker, resp, itr_, listed, fetchVars>>

\* The next page is asked for with the arguments of the current one.
UpdatePaginationArgs_Late(p) == UNCHANGED marker

UpdatePaginationArgs(p) == marker' = p.next

\* Populate blocks on the future.  A page without keys ends the listing; a
\* truncated one starts the next prefetch.
Populate ==
  /\ pc = "populate"
  /\ fetch = "ready"
  /\ resp' = page
  /\ itr_' = 1
  /\ failed_' = (failed_ \/ page.contents = <<>>)
  /\ pc' = "iterate"
  /\ IF ~failed_' /\ page.is_truncated
       THEN UpdatePaginationArgs(page) /\ StartPrefetch(marker')
       ELSE fetch' = "none" /\ UNCHANGED <<marker, from, page, lost>>
  /\ UNCHANGED <<keys, listed>>

AtEnd == itr_ = Len(resp.contents) + 1

\* The page's last key ends the listing.
More_Never == FALSE

\* operator++ after the last key of a truncated page.
More == ~failed_ /\ itr_ = Len(resp.contents) /\ resp.is_truncated

\* The caller's loop: for (; result; result++) use *result
Step ==
  /\ pc = "iterate"
  /\ ~AtEnd
  /\ listed' = Append(listed, resp.contents[itr_])
  /\ itr_' = itr_ + 1
  /\ pc' = IF More THEN "populate" ELSE "iterate"
  /\ UNCHANGED <<keys, marker, resp, failed_, fetchVars, lost>>

End ==
  /\ pc = "iterate"
  /\ AtEnd
  /\ pc' = "ended"
  /\ UNCHANGED <<keys, callerVars, fetchVars, lost>>

----------------------------------------------------------------------------
\* Another client removes a key.
RemoveKey(k) ==
  /\ k \in keys
  /\ keys' = keys \ {k}
  /\ UNCHANGED <<pc, callerVars, fetchVars, lost>>

Ended == pc = "ended" /\ UNCHANGED vars

Caller == Construct \/ Rejected \/ Populate \/ Step \/ End
Thread ==
  \/ \E here \in BoundedSeq(1 .. MaxKeys, kPage), next \in 0 .. MaxKeys : Fetched(next, here)
  \/ FetchFailed

Next == Caller \/ Thread \/ (\E k \in keys : RemoveKey(k)) \/ Ended

Spec == Init /\ [][Next]_vars

----------------------------------------------------------------------------
Page == [contents : Seq(1 .. MaxKeys), is_truncated : BOOLEAN, next : 0 .. MaxKeys]

TypeOK ==
  /\ pc \in {"start", "populate", "iterate", "ended"}
  /\ keys \subseteq 1 .. MaxKeys
  /\ marker \in 0 .. MaxKeys
  /\ fetch \in {"none", "running", "ready"}
  /\ from \in 0 .. MaxKeys
  /\ page \in Page /\ resp \in Page
  /\ itr_ \in 1 .. Len(resp.contents) + 1
  /\ failed_ \in BOOLEAN /\ lost \in BOOLEAN
  /\ listed \in Seq(1 .. MaxKeys)

\* The caller sees no key twice, and keys in order but for the lists of a page: a
\* key comes before a smaller one only if they are on one page, the smaller one in a
\* later list.  Every page but the first was asked for before the previous one was
\* consumed.
ListedInOrder ==
  \A i, j \in 1 .. Len(listed) : i < j =>
    \/ listed[i] < listed[j]
    \/ KindOf[listed[i]] < KindOf[listed[j]] /\ j - i < kPage

\* A listing that ended without a failure has shown every key that was
\* there all along (keys only ever disappear), wherever the pages were cut.
ListingComplete ==
  pc = "ended" /\ ~lost => keys \subseteq ToSet(listed)
=============================================================================
