------------------------------ MODULE JsonFile ------------------------------
(***************************************************************************)
(* The persistence both stores share: the whole in-memory map is marshalled *)
(* and os.WriteFile overwrites one file, with no temporary file and no      *)
(* rename.  A write may                                                     *)
(*    "written"  replace the contents,                                      *)
(*    "refused"  fail to open the file and leave it as it was,              *)
(*    "torn"     fail after O_TRUNC (disk full), leaving a prefix that no   *)
(*               longer parses.                                             *)
(***************************************************************************)
CONSTANT WriteOutcomes      \* the outcomes a run allows

ASSUME WriteAssumption == /\ WriteOutcomes \subseteq {"written", "refused", "torn"}
                          /\ "written" \in WriteOutcomes

\* The contents of a truncated file: a map of nothing, unlike any map of goals.
Torn == <<>>

AfterWrite(old, image, out) ==
    CASE out = "written" -> image
      [] out = "refused" -> old
      [] OTHER           -> Torn
=============================================================================
