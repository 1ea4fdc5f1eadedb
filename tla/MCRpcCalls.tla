----------------------------- MODULE MCRpcCalls -----------------------------
(***************************************************************************)
(* RpcCalls with a oneway call, an ordinary one, two pipelined `next` and  *)
(* one `return` of the generator.                                          *)
(***************************************************************************)
EXTENDS RpcCalls, TLC
=============================================================================
