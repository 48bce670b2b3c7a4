---------------------------- MODULE MCGoalServer ----------------------------
(* Small instances of GoalServer for TLC. *)
EXTENDS GoalServer

ClientSymmetry == Permutations(Clients)
=============================================================================
