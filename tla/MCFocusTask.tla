---------------------------- MODULE MCFocusTask ----------------------------
(* The model of FocusTask that TLC checks: two cameras, the one with the   *)
(* greater id first.                                                       *)
EXTENDS FocusTask

TwoCameras == <<2, 1>>
ThreeEnds  == <<1, 2>>
=============================================================================
