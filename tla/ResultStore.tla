---------------------------- MODULE ResultStore ----------------------------
(***************************************************************************)
(* processor.ResultStore: the last outcome of each goal, mirrored to        *)
(* agent_results.json by a whole-map write under its own lock.              *)
(***************************************************************************)
EXTENDS Goals, JsonFile

VARIABLES
    results,        \* per ID: the outcome held in memory
    resultsDisk     \* agent_results.json, or Torn

resultVars == <<results, resultsDisk>>

Outcomes == {"ok", "failed"}
NoResult == "none"

PersistResults(r, out) == resultsDisk' = AfterWrite(resultsDisk, r, out)

SaveResult(id, outcome, out) ==
    LET r == [results EXCEPT ![id] = outcome]
    IN  results' = r /\ PersistResults(r, out)

\* A Delete that keeps the entry in memory.
MutDeleteResult(id, out) == UNCHANGED resultVars

DeleteResult(id, out) ==
    \/ /\ results[id] = NoResult
       /\ UNCHANGED resultVars
    \/ /\ results[id] # NoResult
       /\ LET r == [results EXCEPT ![id] = NoResult]
          IN  results' = r /\ PersistResults(r, out)

LoadResults ==
    /\ resultsDisk # Torn
    /\ results' = resultsDisk
    /\ UNCHANGED resultsDisk

ForgetResults == results' = [id \in Ids |-> NoResult]

ResultsInit ==
    /\ results = [id \in Ids |-> NoResult]
    /\ resultsDisk = [id \in Ids |-> NoResult]

ResultsTypeOK ==
    /\ results \in [Ids -> Outcomes \cup {NoResult}]
    /\ resultsDisk \in [Ids -> Outcomes \cup {NoResult}] \cup {Torn}
=============================================================================
