---------------------------- MODULE MCAgentClient ---------------------------
(***************************************************************************)
(* A small instance of AgentClient for TLC: two kernels and two calls of a *)
(* client that was created with the default number of retries.  A read is  *)
(* retried once even so, a mutation never.                                 *)
(***************************************************************************)
EXTENDS AgentClient

DefaultRetries == {0}
=============================================================================
