------------------------------- MODULE MCHarness --------------------------------
(* An execution lane behind a design whose pull request is somebody else's.      *)
EXTENDS DevHarness
CONSTANTS work, design
OneLane == {work}
TwoBranches == {work, design}
BehindDesign == [l \in {work} |-> design]
================================================================================
