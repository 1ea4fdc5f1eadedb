--------------------------- MODULE MCSessionGuard ---------------------------
(***************************************************************************)
(* SessionGuard with two runners, two attempts to connect and one restart. *)
(***************************************************************************)
EXTENDS SessionGuard
=============================================================================
