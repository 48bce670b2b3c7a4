-------------------------- MODULE SelfImprovement --------------------------
(***************************************************************************)
(* self_improvement.SelfImprovement in the running server.  recordResult    *)
(* puts each outcome into a buffer and starts a goroutine that drains the   *)
(* buffer, asks the model what to learn from it, submits what the model     *)
(* proposes as goals and stores its rules as directives.  Any number of     *)
(* these goroutines run at once, beside the run loop and the user, who      *)
(* submits, runs and dismisses goals and removes what was learned.          *)
(*                                                                         *)
(* The goal pipeline is seen through its tracker; queueing, which           *)
(* GoalServer has step by step, is one step here.                           *)
(***************************************************************************)
EXTENDS Tracker, FiniteSets, Functions

CONSTANTS
    MaxResults,     \* bound: how many goal runs there are
    MaxRequests,    \* bound: a user's goal has an ID up to this one
    MaxIdeas,       \* bound: goals, code changes included, and rules one analysis proposes
    Rules           \* the texts of directives

ASSUME ImprovementAssumption == MaxResults \in Nat /\ MaxRequests \in Nat /\ MaxIdeas \in Nat

Results == 1 .. MaxResults      \* numbered in the order they are recorded

VARIABLES
    issued,     \* goal IDs handed out
    waiting,    \* the IDs in the queue of the run loop
    runner,     \* the RunLoop goroutine
    recorded,   \* number of results recorded, by this and earlier processes
    pending,    \* si.pending
    analysis,   \* per result, the goroutine recordResult started after it
    stats,      \* outcomes counted by this process
    lastError,  \* whether Health reports an error
    directives, \* the learned directives in memory
    revoked,    \* history: texts learned and since removed by the user
    origin,     \* history: the analysis that submitted a goal, 0 for the user
    refused,    \* history: goals of analyses whose submission met a failed write
    dismissed,  \* history: goals the user has asked to delete
    read, lost, \* history: results the model has answered on, and those it never will
    earlier     \* history: number of results recorded by earlier processes

siVars == <<recorded, pending, analysis, stats, lastError, read, lost>>
ruleVars == <<directives, revoked>>
goalVars == <<origin, refused, dismissed>>
vars == <<heap, tracked, disk, issued, waiting, runner, recorded, pending, analysis,
          stats, lastError, directives, revoked, origin, refused, dismissed, read, lost, earlier>>

Pcs == {"off", "drain", "ask", "submit", "learn", "finish", "done"}

\* left and rules are what is still to be submitted of the proposed goals and rules;
\* errs is whether the errors collected are any, and failed, a history, the rules
\* that could not be stored.
Analysis == [pc : Pcs, batch : SUBSET Results, goals : 0 .. MaxIdeas, left : 0 .. MaxIdeas,
             texts : SUBSET Rules, rules : SUBSET Rules, failed : SUBSET Rules, errs : BOOLEAN]
Off == [pc |-> "off", batch |-> {}, goals |-> 0, left |-> 0,
        texts |-> {}, rules |-> {}, failed |-> {}, errs |-> FALSE]

Polling == [pc |-> "poll", id |-> 0, ok |-> FALSE]
Runner == [pc : {"poll", "run", "record"}, id : Ids \cup {0}, ok : BOOLEAN]

\* A learned directive is known by the hash of its text, a user's by another ID even if
\* the text is the same.
LearnedID(text) == <<"learned", text>>

DirectiveIDs == {LearnedID(text) : text \in Rules}

\* Bound: the IDs that analyses at work will still take.
Reserved == SumFunction([r \in Results |-> analysis[r].left])

-----------------------------------------------------------------------------
(* Users and the run loop.                                                  *)

\* A goal of the user's, accepted by the refiner and queued.
RequestGoal ==
    /\ issued < MaxRequests /\ issued + Reserved < MaxGoals
    /\ LET p == <<issued + 1, 1>>
       IN  TrackGoal([heap EXCEPT ![p] = [NewGoal EXCEPT !.state = "active"]], p, "written")
    /\ issued' = issued + 1
    /\ waiting' = waiting \cup {issued + 1}
    /\ UNCHANGED <<runner, siVars, ruleVars, goalVars, earlier>>

\* POST /api/goals/{id}/run on a goal that waits or has failed.
RunGoal(id) ==
    /\ StateOf(id) \in {"refining", "blocked"}
    /\ UpdateGoalState(id, "active", "written")
    /\ waiting' = waiting \cup {id}
    /\ UNCHANGED <<issued, runner, siVars, ruleVars, goalVars, earlier>>

\* DELETE /api/goals/{id}: the map entry goes even when the write fails; the queue and
\* a run at work keep the goal they have.
DismissGoal(id, out) ==
    /\ DeleteGoal(id, out)
    /\ dismissed' = dismissed \cup {id}
    /\ UNCHANGED <<issued, waiting, runner, siVars, ruleVars, origin, refused, earlier>>

\* DELETE /api/directives/{id}.
RemoveDirective(id) ==
    /\ id \in directives
    /\ directives' = directives \ {id}
    /\ revoked' = revoked \cup {id[2]}
    /\ UNCHANGED <<trackerVars, issued, waiting, runner, siVars, goalVars, earlier>>

RunNext ==
    /\ runner = Polling /\ recorded < MaxResults
    /\ \E id \in waiting :
          /\ \A i \in waiting : id <= i
          /\ waiting' = waiting \ {id}
          /\ runner' = [Polling EXCEPT !.pc = "run", !.id = id]
    /\ UNCHANGED <<trackerVars, issued, siVars, ruleVars, goalVars, earlier>>

FinishRun(ok) ==
    /\ runner.pc = "run"
    /\ UpdateGoalState(runner.id, IF ok THEN "done" ELSE "blocked", "written")
    /\ runner' = [runner EXCEPT !.pc = "record", !.ok = ok]
    /\ UNCHANGED <<issued, waiting, siVars, ruleVars, goalVars, earlier>>

\* A server that starts no second analysis beside one at work.
MutRecordResult ==
    /\ runner.pc = "record"
    /\ recorded' = recorded + 1
    /\ pending' = pending \cup {recorded + 1}
    /\ stats' = stats + 1
    /\ analysis' = IF \E r \in Results : analysis[r].pc \notin {"off", "done"} THEN analysis
                   ELSE [analysis EXCEPT ![recorded + 1] = [Off EXCEPT !.pc = "drain"]]
    /\ runner' = Polling
    /\ UNCHANGED <<trackerVars, issued, waiting, lastError, ruleVars, goalVars, read, lost, earlier>>

\* Buffer and counters change under one lock; then the goroutine is started.
RecordResult ==
    /\ runner.pc = "record"
    /\ recorded' = recorded + 1
    /\ pending' = pending \cup {recorded + 1}
    /\ stats' = stats + 1
    /\ analysis' = [analysis EXCEPT ![recorded + 1] = [Off EXCEPT !.pc = "drain"]]
    /\ runner' = Polling
    /\ UNCHANGED <<trackerVars, issued, waiting, lastError, ruleVars, goalVars, read, lost, earlier>>

-----------------------------------------------------------------------------
(* Analyze, by the goroutine of result r.                                   *)

\* A loop that goes round once more than there are goals.
MutNextPc(left, rules) ==
    IF left >= 0 THEN "submit" ELSE IF rules # {} THEN "learn" ELSE "finish"

NextPc(left, rules) ==
    IF left > 0 THEN "submit" ELSE IF rules # {} THEN "learn" ELSE "finish"

\* A drain that leaves the buffer as it is.
MutDrain(r) ==
    /\ analysis[r].pc = "drain"
    /\ analysis' = [analysis EXCEPT ![r].pc = IF pending = {} THEN "done" ELSE "ask",
                                    ![r].batch = pending]
    /\ UNCHANGED <<trackerVars, issued, waiting, runner, recorded, pending, stats, lastError,
                   ruleVars, goalVars, read, lost, earlier>>

\* Whoever drains first takes everything; the others find nothing and return.
Drain(r) ==
    /\ analysis[r].pc = "drain"
    /\ pending' = {}
    /\ analysis' = [analysis EXCEPT ![r].pc = IF pending = {} THEN "done" ELSE "ask",
                                    ![r].batch = pending]
    /\ UNCHANGED <<trackerVars, issued, waiting, runner, recorded, stats, lastError,
                   ruleVars, goalVars, read, lost, earlier>>

Answered(r, n, texts) ==
    /\ analysis[r].pc = "ask"
    /\ issued + Reserved + n <= MaxGoals /\ n + Cardinality(texts) <= MaxIdeas
    /\ analysis' = [analysis EXCEPT ![r] = [@ EXCEPT !.pc = NextPc(n, texts), !.batch = {},
                       !.goals = n, !.left = n, !.texts = texts, !.rules = texts]]
    /\ read' = read \cup analysis[r].batch
    /\ UNCHANGED <<trackerVars, issued, waiting, runner, recorded, pending, stats, lastError,
                   ruleVars, goalVars, lost, earlier>>

\* A failed analysis that puts its results back into the buffer.
MutNoAnswer(r) ==
    /\ analysis[r].pc = "ask"
    /\ pending' = pending \cup analysis[r].batch
    /\ analysis' = [analysis EXCEPT ![r] = [@ EXCEPT !.pc = "done", !.batch = {}, !.errs = TRUE]]
    /\ lastError' = TRUE
    /\ UNCHANGED <<trackerVars, issued, waiting, runner, recorded, stats,
                   ruleVars, goalVars, read, lost, earlier>>

\* No model, no connection, or no JSON: the drained results are dropped.
NoAnswer(r) ==
    /\ analysis[r].pc = "ask"
    /\ lost' = lost \cup analysis[r].batch
    /\ analysis' = [analysis EXCEPT ![r] = [@ EXCEPT !.pc = "done", !.batch = {}, !.errs = TRUE]]
    /\ lastError' = TRUE
    /\ UNCHANGED <<trackerVars, issued, waiting, runner, recorded, pending, stats,
                   ruleVars, goalVars, read, earlier>>

\* A cycle that ends with the first submission that fails.
MutSubmitIdea(r, out) ==
    LET a == analysis[r]
        p == <<issued + 1, 1>>
    IN  /\ a.pc = "submit" /\ issued < MaxGoals
        /\ TrackGoal([heap EXCEPT ![p] = NewGoal], p, out)
        /\ issued' = issued + 1
        /\ origin' = [origin EXCEPT ![issued + 1] = r]
        /\ refused' = IF out = "written" THEN refused ELSE refused \cup {issued + 1}
        /\ analysis' = [analysis EXCEPT ![r] = [a EXCEPT
               !.pc = IF out = "written" THEN NextPc(a.left - 1, a.rules) ELSE "finish",
               !.left = a.left - 1, !.errs = a.errs \/ out # "written"]]
        /\ UNCHANGED <<waiting, runner, recorded, pending, stats, lastError, ruleVars,
                       dismissed, read, lost, earlier>>

\* gf.SubmitGoal and no more: the goal is tracked and left in "refining".  A failed
\* write is an error of the cycle, not its end.
SubmitIdea(r, out) ==
    LET a == analysis[r]
        p == <<issued + 1, 1>>
    IN  /\ a.pc = "submit" /\ issued < MaxGoals
        /\ TrackGoal([heap EXCEPT ![p] = NewGoal], p, out)
        /\ issued' = issued + 1
        /\ origin' = [origin EXCEPT ![issued + 1] = r]
        /\ refused' = IF out = "written" THEN refused ELSE refused \cup {issued + 1}
        /\ analysis' = [analysis EXCEPT ![r] = [a EXCEPT !.pc = NextPc(a.left - 1, a.rules),
                           !.left = a.left - 1, !.errs = a.errs \/ out # "written"]]
        /\ UNCHANGED <<waiting, runner, recorded, pending, stats, lastError, ruleVars,
                       dismissed, read, lost, earlier>>

\* A learned rule is stored under its own ID, and overwrites what is there: the same
\* rule, learned before.
Learn(r, text, written) ==
    LET a == analysis[r]
    IN  /\ a.pc = "learn" /\ text \in a.rules
        /\ directives' = IF written THEN directives \cup {LearnedID(text)} ELSE directives
        /\ revoked' = IF written THEN revoked \ {text} ELSE revoked
        /\ analysis' = [analysis EXCEPT ![r] = [a EXCEPT !.pc = NextPc(0, a.rules \ {text}),
                           !.rules = a.rules \ {text}, !.errs = a.errs \/ ~written,
                           !.failed = IF written THEN a.failed ELSE a.failed \cup {text}]]
        /\ UNCHANGED <<trackerVars, issued, waiting, runner, recorded, pending, stats, lastError,
                       goalVars, read, lost, earlier>>

Finish(r) ==
    /\ analysis[r].pc = "finish"
    /\ lastError' = analysis[r].errs
    /\ analysis' = [analysis EXCEPT ![r].pc = "done"]
    /\ UNCHANGED <<trackerVars, issued, waiting, runner, recorded, pending, stats,
                   ruleVars, goalVars, read, lost, earlier>>

-----------------------------------------------------------------------------
(* The process dies and is started again: goals and directives stay, the    *)
(* buffer, the counters and the goroutines go.                              *)

Restart ==
    /\ earlier' = recorded
    /\ LoadGoals
    /\ waiting' = {} /\ runner' = Polling
    /\ pending' = {} /\ analysis' = [r \in Results |-> Off]
    /\ stats' = 0 /\ lastError' = FALSE
    /\ lost' = (1 .. recorded) \ read
    /\ revoked' = {} /\ refused' = {} /\ dismissed' = {}
    /\ UNCHANGED <<issued, recorded, directives, origin, read>>

-----------------------------------------------------------------------------
Init ==
    /\ TrackerInit
    /\ issued = 0 /\ waiting = {} /\ runner = Polling
    /\ recorded = 0 /\ pending = {} /\ analysis = [r \in Results |-> Off]
    /\ stats = 0 /\ lastError = FALSE
    /\ directives = {} /\ revoked = {}
    /\ origin = [id \in Ids |-> 0] /\ refused = {} /\ dismissed = {}
    /\ read = {} /\ lost = {} /\ earlier = 0

AnalysisStep(r) ==
    \/ Drain(r) \/ NoAnswer(r) \/ Finish(r)
    \/ \E n \in 0 .. MaxIdeas, texts \in SUBSET Rules : Answered(r, n, texts)
    \/ \E out \in WriteOutcomes : SubmitIdea(r, out)
    \/ \E text \in Rules, written \in BOOLEAN : Learn(r, text, written)

RunnerStep == RunNext \/ RecordResult \/ \E ok \in BOOLEAN : FinishRun(ok)

Next ==
    \/ RequestGoal
    \/ \E id \in Ids : RunGoal(id)
    \/ \E id \in Ids, out \in WriteOutcomes : DismissGoal(id, out)
    \/ \E id \in DirectiveIDs : RemoveDirective(id)
    \/ RunnerStep
    \/ \E r \in Results : AnalysisStep(r)
    \/ Restart

Spec == Init /\ [][Next]_vars

\* An analysis that can go on does, and a call of the model ends: the HTTP clients
\* have timeouts.  Nobody has to submit or run a goal.
FairSpec == Spec /\ \A r \in Results : WF_vars(AnalysisStep(r))

\* The run loop, too, runs what is queued.
FairRunnerSpec == FairSpec /\ WF_vars(RunnerStep)

-----------------------------------------------------------------------------
TypeOK ==
    /\ TrackerTypeOK
    /\ issued \in 0 .. MaxGoals /\ waiting \subseteq Ids /\ runner \in Runner
    /\ recorded \in 0 .. MaxResults /\ earlier \in 0 .. recorded
    /\ pending \subseteq Results /\ read \subseteq Results /\ lost \subseteq Results
    /\ analysis \in [Results -> Analysis]
    /\ stats \in Nat /\ lastError \in BOOLEAN
    /\ directives \subseteq DirectiveIDs /\ revoked \subseteq Rules
    /\ origin \in [Ids -> 0 .. MaxResults] /\ refused \subseteq Ids /\ dismissed \subseteq Ids

\* Every recorded result is in exactly one place: in the buffer, in the batch of one
\* analysis, answered on by the model, or dropped with a failed call or the process.
\* However many analyses run at once, none is analysed twice and none disappears,
\* and the counters of the process agree.
Batched == {x \in Results : \E r \in Results : x \in analysis[r].batch}

AnalysedOnce ==
    /\ 1 .. recorded = pending \cup Batched \cup read \cup lost
    /\ read \cap lost = {} /\ pending \cap (Batched \cup read \cup lost) = {}
    /\ Batched \cap (read \cup lost) = {}
    /\ \A q, r \in Results : q # r => analysis[q].batch \cap analysis[r].batch = {}
    /\ stats = recorded - earlier

\* A result never stays in the buffer with nobody coming for it: while the buffer
\* is not empty, some analysis is still to drain it (server.go:150-157 starts one
\* after every result).
NoneStranded == pending # {} => \E r \in Results : analysis[r].pc = "drain"

\* One item of a cycle that fails takes none of the others with it and is not passed
\* over.  When an analysis is done, everything it proposed has been tried: each goal
\* whose own write was no failure is in goals.json, unless the user has dismissed it,
\* although users, the run loop and other analyses rewrite that file; each rule that
\* could be stored is a directive, unless the user has removed it since; and what did
\* fail is among the errors the cycle returns (self_improvement.go Analyze, :124-126).
IdeasLand ==
    \A r \in Results : analysis[r].pc = "done" =>
        LET a == analysis[r]
            submitted == {id \in Ids : origin[id] = r}
        IN  /\ Cardinality(submitted) = a.goals
            /\ \A id \in submitted \ (refused \cup dismissed) : disk[id] # NoGoal
            /\ \A text \in a.texts \ (a.failed \cup revoked) : LearnedID(text) \in directives
            /\ submitted \cap refused # {} \/ a.failed # {} => a.errs

\* Every recorded result is sooner or later answered on by the model or lost with a
\* failing call; it takes no further goal to get it out of the buffer.
EventuallyAnalysed ==
    \A r \in Results : r \in pending ~> r \in read \cup lost

\* self_improvement.go:159: improvement goals are "re-submitted as regular goals, run
\* once": a goal an analysis has submitted does not stay in "refining" for ever.
ImprovementGoalsRun ==
    \A id \in Ids : origin[id] # 0 /\ StateOf(id) = "refining" ~> StateOf(id) # "refining"
=============================================================================
