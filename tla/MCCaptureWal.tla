---------------------------- MODULE MCCaptureWal ----------------------------
(* Finite instances of CaptureWal.  The one range has two frames and was    *)
(* captured at the first tick, so that it can be too old when it arrives.   *)
EXTENDS CaptureWal

CONSTANTS range

MCSources == {range}
MCRangeLength == [s \in MCSources |-> 2]
MCRangeStart == [s \in MCSources |-> 1]
=============================================================================
