---------------------------- MODULE MCChatTask ----------------------------
(* Instances of ChatTask for TLC. *)
EXTENDS ChatTask, TLC

ChatSymmetry == Permutations(Task)
=============================================================================
