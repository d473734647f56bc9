------------------------ MODULE MCSelectObjectContent ------------------------
(***************************************************************************)
(* Every event stream of up to MaxMessages messages, each of which may be  *)
(* damaged on the way.  An intact End is the last one.                     *)
(***************************************************************************)
EXTENDS SelectObjectContent

CONSTANT MaxMessages

MCStreams ==
  UNION {{[i \in 1 .. n |-> IF i = n THEN last ELSE f[i]] :
            f \in [1 .. n - 1 -> Kinds \ {"End"}],
            last \in {"End", "bad", "badPrelude"}} : n \in 1 .. MaxMessages}
=============================================================================
