--------------------------- MODULE MCDoorbellCast ---------------------------
(***************************************************************************)
(* DoorbellCast with one doorbell event handled twice (the second time     *)
(* while casts of the first session may still be retried), a display that  *)
(* answers and one that may hang.                                          *)
(***************************************************************************)
EXTENDS DoorbellCast, TLC
=============================================================================
