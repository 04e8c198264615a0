-------------------------- MODULE MCAutomationRun --------------------------
(* Instances of AutomationRun for TLC. *)
EXTENDS AutomationRun, TLC

RunSymmetry == Permutations(Job) \cup Permutations(Request) \cup Permutations(User)
=============================================================================
