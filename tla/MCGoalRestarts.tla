--------------------------- MODULE MCGoalRestarts ---------------------------
(* Small instances of GoalRestarts for TLC. *)
EXTENDS GoalRestarts

ClientSymmetry == Permutations(Clients)
=============================================================================
