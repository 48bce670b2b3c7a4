------------------------- MODULE MCSelfImprovement -------------------------
(* Small instances of SelfImprovement for TLC. *)
EXTENDS SelfImprovement
=============================================================================
