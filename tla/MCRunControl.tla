---------------------------- MODULE MCRunControl ----------------------------
(***************************************************************************)
(* RunControl for TLC.  The specification is finite: no bound is needed    *)
(* beyond the sizes of a callback, a sample and a frame.                   *)
(***************************************************************************)
EXTENDS RunControl
=============================================================================
