------------------------------ MODULE MCConfig ------------------------------
(* Small instances of Config for TLC. *)
EXTENDS Config, TLC

CONSTANT fit     \* the size that suits every model

MCRecommended == [m \in Models |-> fit]

ShellSymmetry == Permutations(Shells)
=============================================================================
