---------------------------- MODULE MCSelfModify ----------------------------
(* Two revisions that pass the gate and one whose tests fail.               *)
EXTENDS SelfModify

CONSTANTS good, better, untested

MCRevs == {good, better, untested}
MCPasses == [step \in {"build", "vet", "test"} |->
               IF step = "test" THEN {good, better} ELSE MCRevs]
=============================================================================
