-------------------------- MODULE MCDownloadObject ---------------------------
(***************************************************************************)
(* Three versions: two pieces, one piece, and an empty object.             *)
(***************************************************************************)
EXTENDS DownloadObject

MCSize == <<2, 1, 0>>
=============================================================================
