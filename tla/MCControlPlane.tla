-------------------------- MODULE MCControlPlane --------------------------
(* Instances of ControlPlane for TLC: two jobs in one office, and perhaps  *)
(* one in another.                                                         *)
EXTENDS ControlPlane, TLC

CONSTANTS c1, c2, j1, j2, j3

TwoOffices == {c1, c2}
ThreeJobs == {j1, j2, j3}
OneOffice == {c1}
TwoJobs == {j1, j2}
ThreeHomes == (j1 :> c1) @@ (j2 :> c1) @@ (j3 :> c2)
TwoHomes == (j1 :> c1) @@ (j2 :> c1)
JobSymmetry == Permutations({j1, j2})
=============================================================================
