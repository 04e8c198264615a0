------------------------ MODULE MCControllerLease ------------------------
(* Instances of ControllerLease for TLC.  Processes are interchangeable, so *)
(* a run of safety properties alone may use symmetry.                       *)
EXTENDS ControllerLease, TLC

HolderSymmetry == Permutations(Holder)
=============================================================================
