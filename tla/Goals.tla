------------------------------- MODULE Goals -------------------------------
(***************************************************************************)
(* types.Goal and the memory goal objects live in.                         *)
(*                                                                         *)
(* The program passes *types.Goal pointers around: the tracker's map, the  *)
(* prioritizer's slice, an HTTP handler's local variable and the run loop  *)
(* may all hold one, and they need not hold the same one for one goal ID,  *)
(* because a refinement may build a second struct with the same ID.  A     *)
(* pointer is therefore <<ID, version>>, and heap is what it points to.    *)
(* IDs are numbered in the order of CreatedAt, which every version of a    *)
(* goal shares.                                                            *)
(*                                                                         *)
(* Of a goal's fields only the state and whether a clarification question  *)
(* is pending decide anything; description and timestamps are left out.    *)
(***************************************************************************)
EXTENDS Integers

CONSTANTS
    MaxGoals,       \* bound: how many goals are ever submitted
    MaxVersions     \* bound: how many structs one goal ID may get between restarts

ASSUME GoalsAssumption == /\ MaxGoals \in Nat \ {0}
                          /\ MaxVersions \in Nat \ {0}

VARIABLE heap       \* what each pointer points to

Ids == 1 .. MaxGoals
Versions == 1 .. MaxVersions
Pointers == Ids \X Versions
Nil == <<0, 0>>

GoalStates == {"refining", "active", "done", "blocked", "cancelled"}
Goal == [state : GoalStates, question : BOOLEAN]
NoGoal == [state |-> "none", question |-> FALSE]

\* A submitted goal whose State is left at its zero value.
MutNewGoal == [state |-> "", question |-> FALSE]

NewGoal == [state |-> "refining", question |-> FALSE]

IsActive(p) == heap[p].state = "active"
=============================================================================
