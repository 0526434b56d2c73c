---------------------------- MODULE MCTimeStepper ----------------------------
(***************************************************************************)
(* Instances of TimeStepper whose frames are as its properties require.    *)
(***************************************************************************)
EXTENDS TimeStepper

ASSUME FramesAssumption == FramesAreEven /\ FramesAreFew /\ MinDelta <= Milli * Ms(MaxDelta)
=============================================================================
