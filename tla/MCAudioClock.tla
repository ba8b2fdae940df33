---------------------------- MODULE MCAudioClock ----------------------------
(***************************************************************************)
(* AudioClock with ratios that leave remainders: 7 cycles for 3 samples    *)
(* and 5 dots for 7 cycles, so that a sample takes two cycles or three,    *)
(* and an instruction of 4 cycles overshoots a whole sample.               *)
(***************************************************************************)
EXTENDS AudioClock
=============================================================================
