----------------------------- MODULE MC_TMC2660 -----------------------------
(***************************************************************************)
(* Model-checking instance of TMC2660: two drivers (three requested, the   *)
(* array holds two), one supply failure, a couple of configuration calls.  *)
(* StepClockRate 400 gives a stall window of 400/200 = 2 ticks by default, *)
(* so intervals 2 (honoured) and 3 (suppressed) sit on its boundary.       *)
(***************************************************************************)
EXTENDS TMC2660

\* A legal and an illegal (TOFF = 1 with TBL = 0) chopper payload
MC_ChopInputs ==
  { [toff |-> 5, tbl |-> 1, chm |-> TRUE, rndtf |-> FALSE],
    [toff |-> 1, tbl |-> 0, chm |-> FALSE, rndtf |-> FALSE] }

\* Stall thresholds below the chip's -64 (clamped) and inside its range
MC_ThresholdInputs == {-70, 5}
=============================================================================
