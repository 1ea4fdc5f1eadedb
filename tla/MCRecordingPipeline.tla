------------------------ MODULE MCRecordingPipeline ------------------------
(***************************************************************************)
(* RecordingPipeline with time for three rotations, a size limit that two  *)
(* segments exceed, and one crash.                                         *)
(***************************************************************************)
EXTENDS RecordingPipeline
=============================================================================
