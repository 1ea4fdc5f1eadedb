---------------------------- MODULE MCAsyncQueue ----------------------------
(***************************************************************************)
(* AsyncQueue with five items, one of each way to submit and two plain     *)
(* ones, and two consumers.                                                *)
(***************************************************************************)
EXTENDS AsyncQueue, TLC

ConsumerSymmetry == Permutations(Consumers)
=============================================================================
