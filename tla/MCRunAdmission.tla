--------------------------- MODULE MCRunAdmission ---------------------------
(* TLC instance of RunAdmission: a parent with a cap, a child with a
   cap and a child without one. *)
EXTENDS RunAdmission, TLC

CONSTANTS child, parent, free

MCParent == child :> parent @@ parent :> None @@ free :> parent
MCDayCap == child :> 5 @@ parent :> 4 @@ free :> None

Symmetry == Permutations(Dispatches)
=============================================================================
