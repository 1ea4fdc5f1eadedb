---------------------------- MODULE MCPluginHost ----------------------------
(***************************************************************************)
(* PluginHost on a small instance: two requests and a fault, or two faults *)
(* and a request. No behaviour of it gets to MaxLoads hosts.               *)
(***************************************************************************)
EXTENDS PluginHost
=============================================================================
