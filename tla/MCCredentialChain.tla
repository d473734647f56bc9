-------------------------- MODULE MCCredentialChain --------------------------
(***************************************************************************)
(* Two threads and a chain of two providers: the environment and the       *)
(* metadata service of an instance, whose failures include those of STS.   *)
(***************************************************************************)
EXTENDS CredentialChain

CONSTANTS env, iam, t1, t2

MCproviders == <<env, iam>>
MCKind == [p \in {env, iam} |-> IF p = env THEN "fixed" ELSE "iam"]
=============================================================================
