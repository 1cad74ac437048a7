------------------------------ MODULE MCStage -------------------------------
(* Stage with negative numbers, which a .cfg cannot write.                 *)
EXTENDS Stage

Targets == {-1, 1, 2}
Steps   == {-1, 1}
Limits  == {-1, 1}
=============================================================================
