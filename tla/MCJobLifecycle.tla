-------------------------- MODULE MCJobLifecycle --------------------------
(* Instances of JobLifecycle for TLC.                                      *)
EXTENDS JobLifecycleBoard, TLC

CONSTANTS j1, j2

OneJob == {j1}
TwoJobs == {j1, j2}
NoChild == {}
JobSymmetry == Permutations(TwoJobs)
=============================================================================
