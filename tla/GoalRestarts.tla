---------------------------- MODULE GoalRestarts ----------------------------
(***************************************************************************)
(* GoalServer with a memory of what a restart has found: the queue is not   *)
(* kept in a file, so a goal that was active when the process ended is      *)
(* active again after the next start, and in no queue.                      *)
(***************************************************************************)
EXTENDS GoalServer

VARIABLES
    inherited,  \* history: the goals found active at the start, and left alone since
    crossed     \* history: two requests have been in progress at once since the start

historyVars == <<inherited, crossed>>

\* The goals that somebody is going to run, or to queue.
Scheduled == {id \in Ids : \/ \E i \in DOMAIN queue : queue[i] = TrackedPtr(id)
                           \/ runner.pc = "run" /\ runner.ptr[1] = id
                           \/ OnItsWay(id)}
Active == {id \in Ids : StateOf(id) = "active"}

HistoryInit == inherited = {} /\ crossed = FALSE

HistoryNext ==
    /\ inherited' = (IF up THEN inherited ELSE Active') \cap (Active \ Scheduled)'
    /\ crossed' = /\ up
                  /\ crossed \/ Cardinality({c \in Clients : handler'[c] # Idle}) > 1

Serves == Serving /\ HistoryNext
Ends == Crash /\ HistoryNext
Starts == Restart /\ HistoryNext

RestartNext == Serves \/ Ends \/ Starts

RestartSpec == Init /\ HistoryInit /\ [][RestartNext]_<<vars, historyVars>>

\* A restart is all that takes a goal out of the queue for good: as long as requests
\* come one at a time, every goal shown as active is scheduled or was found active at
\* the start and has not been run, answered or deleted since.
OnlyRestartsStrand ==
    up /\ ~crossed => Active \subseteq Scheduled \cup inherited
=============================================================================
