--------------------------- MODULE MCCaptureDrain ---------------------------
(* Finite instances of CaptureDrain.  The one range has two frames.         *)
EXTENDS CaptureDrain

CONSTANTS range

MCSources == {range}
MCRangeLength == [s \in MCSources |-> 2]
MCRangeStart == [s \in MCSources |-> 1]

NoFrames == {}
=============================================================================
