----------------------------- MODULE GoalServer -----------------------------
(***************************************************************************)
(* The goal pipeline of the running server: HTTP handlers (one goroutine    *)
(* per request), the tracker, the prioritizer's queue, the single RunLoop   *)
(* goroutine with its agent, and the result store, over two files that      *)
(* outlive the process.                                                     *)
(*                                                                         *)
(* Every step is what one goroutine does under one lock, or between two     *)
(* locks: a handler that calls RefineGoal and then QueueGoal is a sequence  *)
(* of steps other goroutines run between.                                   *)
(***************************************************************************)
EXTENDS Tracker, Prioritizer, ResultStore

CONSTANTS
    Clients,            \* the requests that may be in progress at once
    RefineOutcomes,     \* what the refining model may answer, see RefineOutcomeSet
    MaxQueue            \* bound: entries in the queue

RefineOutcomeSet == {"error", "question", "blank", "accept", "rewrite"}

ASSUME ServerAssumption == /\ RefineOutcomes \subseteq RefineOutcomeSet
                           /\ MaxQueue \in Nat
                           /\ IsFiniteSet(Clients)

VARIABLES
    issued,     \* IDs handed out so far; an ID is never used twice
    handler,    \* per client, the request in progress
    runner,     \* the RunLoop goroutine
    up          \* whether the process is running

serverVars == <<issued, handler, runner, up>>
vars == <<heap, tracked, disk, queue, results, resultsDisk, issued, handler, runner, up>>

HandlerPcs == {"idle", "refine", "track", "queue", "activate", "enqueue",
               "fold", "trackAnswer", "dropResult"}

\* ptr is the handler's variable "goal", ref the refined goal RefineGoal is
\* about to track, asks whether that refinement ended in a question.
Handler == [pc : HandlerPcs, ptr : Pointers \cup {Nil},
            ref : Pointers \cup {Nil}, asks : BOOLEAN]
Idle == [pc |-> "idle", ptr |-> Nil, ref |-> Nil, asks |-> FALSE]
At(pc, p) == [Idle EXCEPT !.pc = pc, !.ptr = p]
Tracking(p, r, asks) == [At("track", p) EXCEPT !.ref = r, !.asks = asks]

Runner == [pc : {"poll", "run", "record"}, ptr : Pointers \cup {Nil}, ok : BOOLEAN]
Polling == [pc |-> "poll", ptr |-> Nil, ok |-> FALSE]

Goto(c, h) == handler' = [handler EXCEPT ![c] = h]

\* Bound: a request that may end in Enqueue starts only while there is room.
Room == Len(queue) + Cardinality({c \in Clients : handler[c].pc # "idle"}) < MaxQueue

-----------------------------------------------------------------------------
(* POST /api/goals.  A draft is only submitted; self-improvement submits    *)
(* its goals the same way.  When the write fails the client gets a 500, and *)
(* the goal stays in the map.                                               *)

SubmitGoal(c, draft, out) ==
    /\ handler[c] = Idle /\ issued < MaxGoals
    /\ draft \/ Room
    /\ LET p == <<issued + 1, 1>>
       IN  /\ TrackGoal([heap EXCEPT ![p] = NewGoal], p, out)
           /\ IF draft \/ out # "written" THEN UNCHANGED handler
                                          ELSE Goto(c, At("refine", p))
    /\ issued' = issued + 1
    /\ UNCHANGED <<queue, results, resultsDisk, runner, up>>

(* Refiner.RefineGoal returns: the model's answer decides which struct it   *)
(* leaves in which state.  No lock is held.                                 *)

RefineFails(c) ==
    /\ handler[c].pc = "refine" /\ "error" \in RefineOutcomes
    /\ Goto(c, At("queue", handler[c].ptr))
    /\ UNCHANGED <<heap, tracked, disk, queue, results, resultsDisk, issued, runner, up>>

RefineLeaves(c, p, g, asks) ==
    /\ handler[c].pc = "refine"
    /\ heap' = [heap EXCEPT ![p] = g]
    /\ Goto(c, Tracking(handler[c].ptr, p, asks))
    /\ UNCHANGED <<tracked, disk, queue, results, resultsDisk, issued, runner, up>>

\* The model may ask without saying what: the question is then empty, and a goal
\* with an empty question has none pending.
RefineAsks(c) ==
    \E q \in BOOLEAN :
        /\ (IF q THEN "question" ELSE "blank") \in RefineOutcomes
        /\ RefineLeaves(c, handler[c].ptr, [state |-> "refining", question |-> q], TRUE)

RefineAccepts(c) ==
    /\ "accept" \in RefineOutcomes
    /\ RefineLeaves(c, handler[c].ptr, [state |-> "active", question |-> FALSE], FALSE)

RefineRewrites(c) ==
    /\ handler[c].pc = "refine" /\ "rewrite" \in RefineOutcomes
    /\ \E v \in Versions :
          LET p == <<handler[c].ptr[1], v>>
          IN  /\ \A w \in Versions : heap[<<p[1], w>>] = NoGoal <=> w >= v
              /\ RefineLeaves(c, p, [state |-> "active", question |-> FALSE], FALSE)

(* GoalFulfillment.RefineGoal tracks what the refiner returned.  A failed   *)
(* write is an ordinary error to the handler, which then goes on with the   *)
(* goal it had; a question ends the request without queueing.               *)

TrackRefined(c, out) ==
    /\ handler[c].pc = "track"
    /\ TrackGoal(heap, handler[c].ref, out)
    /\ Goto(c, CASE out # "written"   -> At("queue", handler[c].ptr)
                 [] out = "written" /\ handler[c].asks -> Idle
                 [] OTHER           -> At("queue", handler[c].ref))
    /\ UNCHANGED <<queue, results, resultsDisk, issued, runner, up>>

(* Processor.QueueGoal: look at the state without a lock, move the tracked  *)
(* goal to active if the pointer at hand is not, ignore the answer, enqueue *)
(* the pointer.                                                             *)

QueueCheck(c) ==
    /\ handler[c].pc = "queue"
    /\ Goto(c, At(IF IsActive(handler[c].ptr) THEN "enqueue" ELSE "activate",
                  handler[c].ptr))
    /\ UNCHANGED <<heap, tracked, disk, queue, results, resultsDisk, issued, runner, up>>

QueueActivate(c, out) ==
    /\ handler[c].pc = "activate"
    /\ UpdateGoalState(handler[c].ptr[1], "active", out)
    /\ Goto(c, At("enqueue", handler[c].ptr))
    /\ UNCHANGED <<queue, results, resultsDisk, issued, runner, up>>

\* A QueueGoal that only activates and never enqueues.
MutQueueEnqueue(c) ==
    /\ handler[c].pc = "enqueue"
    /\ Goto(c, Idle)
    /\ UNCHANGED <<heap, tracked, disk, queue, results, resultsDisk, issued, runner, up>>

QueueEnqueue(c) ==
    /\ handler[c].pc = "enqueue"
    /\ Enqueue(handler[c].ptr)
    /\ Goto(c, Idle)
    /\ UNCHANGED <<heap, tracked, disk, results, resultsDisk, issued, runner, up>>

(* POST /api/goals/{id}/run *)

RunGoal(c, id) ==
    /\ handler[c] = Idle /\ Room
    /\ IsTracked(id)
    /\ Goto(c, At("queue", TrackedPtr(id)))
    /\ UNCHANGED <<heap, tracked, disk, queue, results, resultsDisk, issued, runner, up>>

(* POST /api/goals/{id}/answer: AnswerGoal checks for a pending question,   *)
(* folds the answer into the goal and tracks it again, each without holding *)
(* a lock across; then the goal is refined once more.                       *)

AnswerGoal(c, id) ==
    /\ handler[c] = Idle /\ Room
    /\ IsTracked(id) /\ heap[TrackedPtr(id)].question
    /\ Goto(c, At("fold", TrackedPtr(id)))
    /\ UNCHANGED <<heap, tracked, disk, queue, results, resultsDisk, issued, runner, up>>

FoldAnswer(c) ==
    /\ handler[c].pc = "fold"
    /\ heap' = [heap EXCEPT ![handler[c].ptr].question = FALSE]
    /\ Goto(c, At("trackAnswer", handler[c].ptr))
    /\ UNCHANGED <<tracked, disk, queue, results, resultsDisk, issued, runner, up>>

TrackAnswer(c, out) ==
    /\ handler[c].pc = "trackAnswer"
    /\ TrackGoal(heap, handler[c].ptr, out)
    /\ Goto(c, IF out = "written" THEN At("refine", handler[c].ptr) ELSE Idle)
    /\ UNCHANGED <<queue, results, resultsDisk, issued, runner, up>>

(* DELETE /api/goals/{id}: the goal, then its result.  The queue is left    *)
(* alone.  A failed write is answered 404 and the result is kept.           *)

DismissGoal(c, id, out) ==
    /\ handler[c] = Idle
    /\ DeleteGoal(id, out)
    /\ IF out = "written" THEN Goto(c, At("dropResult", TrackedPtr(id)))
                          ELSE UNCHANGED handler
    /\ UNCHANGED <<queue, results, resultsDisk, issued, runner, up>>

DropResult(c, out) ==
    /\ handler[c].pc = "dropResult"
    /\ DeleteResult(handler[c].ptr[1], out)
    /\ Goto(c, Idle)
    /\ UNCHANGED <<heap, tracked, disk, queue, issued, runner, up>>

-----------------------------------------------------------------------------
(* RunLoop.  RunNext pops a goal, runs the agent to its end and moves the   *)
(* goal with that ID, whichever struct is tracked by then, to done or       *)
(* blocked; recordResult then saves the outcome under that ID.              *)

RunNext ==
    /\ runner = Polling
    /\ \E i \in DOMAIN queue :
          /\ PopNext(i)
          /\ runner' = [Polling EXCEPT !.pc = "run", !.ptr = queue[i]]
    /\ UNCHANGED <<heap, tracked, disk, results, resultsDisk, issued, handler, up>>

FinishRun(ok, out) ==
    /\ runner.pc = "run"
    /\ UpdateGoalState(runner.ptr[1], IF ok THEN "done" ELSE "blocked", out)
    /\ runner' = [runner EXCEPT !.pc = "record", !.ok = ok]
    /\ UNCHANGED <<queue, results, resultsDisk, issued, handler, up>>

\* A recordResult that reports the last failure as a success.
MutRecordResult(out) ==
    /\ runner.pc = "record"
    /\ SaveResult(runner.ptr[1], "ok", out)
    /\ runner' = Polling
    /\ UNCHANGED <<heap, tracked, disk, queue, issued, handler, up>>

RecordResult(out) ==
    /\ runner.pc = "record"
    /\ SaveResult(runner.ptr[1], IF runner.ok THEN "ok" ELSE "failed", out)
    /\ runner' = Polling
    /\ UNCHANGED <<heap, tracked, disk, queue, issued, handler, up>>

-----------------------------------------------------------------------------
(* SIGTERM, the re-exec of a self-modification and a crash all end the      *)
(* process without waiting for the run loop; a write in progress may be cut *)
(* short.  A start reads the two files and starts with an empty queue.      *)

CutShort(contents) ==
    IF "torn" \in WriteOutcomes THEN {contents, Torn} ELSE {contents}

Crash ==
    /\ up /\ up' = FALSE
    /\ ForgetGoals /\ ForgetResults
    /\ disk' \in CutShort(disk) /\ resultsDisk' \in CutShort(resultsDisk)
    /\ queue' = <<>>
    /\ handler' = [c \in Clients |-> Idle]
    /\ runner' = Polling
    /\ UNCHANGED issued

Restart ==
    /\ ~up /\ up' = TRUE
    /\ LoadGoals /\ LoadResults
    /\ UNCHANGED <<queue, issued, handler, runner>>

-----------------------------------------------------------------------------
Init ==
    /\ TrackerInit /\ ResultsInit
    /\ queue = <<>>
    /\ issued = 0
    /\ handler = [c \in Clients |-> Idle]
    /\ runner = Polling
    /\ up = TRUE

HandlerStep(c) ==
    \/ RefineFails(c) \/ RefineAsks(c) \/ RefineAccepts(c) \/ RefineRewrites(c)
    \/ QueueCheck(c) \/ QueueEnqueue(c) \/ FoldAnswer(c)
    \/ \E out \in WriteOutcomes :
          TrackRefined(c, out) \/ QueueActivate(c, out) \/ TrackAnswer(c, out) \/ DropResult(c, out)

Request(c) ==
    \/ \E draft \in BOOLEAN, out \in WriteOutcomes : SubmitGoal(c, draft, out)
    \/ \E id \in Ids :
          \/ RunGoal(c, id) \/ AnswerGoal(c, id)
          \/ \E out \in WriteOutcomes : DismissGoal(c, id, out)

RunnerStep ==
    \/ RunNext
    \/ \E out \in WriteOutcomes :
          \/ \E ok \in BOOLEAN : FinishRun(ok, out)
          \/ RecordResult(out)

Serving ==
    \/ up /\ \E c \in Clients : Request(c) \/ HandlerStep(c)
    \/ up /\ RunnerStep

Next == Serving \/ Crash \/ Restart

Spec == Init /\ [][Next]_vars

\* A process that lives.
ServingSpec == Init /\ [][Serving]_vars

\* The Go scheduler runs every goroutine that can run, the model answers or its
\* call times out, and an agent run ends.  Clients are free to do nothing.
Fairness ==
    /\ \A c \in Clients : WF_vars(up /\ HandlerStep(c))
    /\ WF_vars(up /\ RunnerStep)

FairSpec == ServingSpec /\ Fairness

-----------------------------------------------------------------------------
(* The type invariant: the shape of each variable, what a request at work   *)
(* must hold, and that no pointer in use dangles.                           *)

HandlerOK(h) ==
    /\ h.pc # "idle" => h.ptr \in Pointers
    /\ h.pc = "track" => h.ref \in Pointers /\ h.ref[1] = h.ptr[1]

HandlersOK ==
    /\ handler \in [Clients -> Handler]
    /\ \A c \in Clients : HandlerOK(handler[c])

RunnerOK == runner \in Runner /\ (runner.pc # "poll" => runner.ptr \in Pointers)

QueueOK == queue \in Seq(Pointers)

IssuedOK == issued \in 0 .. MaxGoals

Shapes == /\ TrackerTypeOK /\ ResultsTypeOK /\ QueueOK /\ IssuedOK
          /\ HandlersOK /\ RunnerOK /\ up \in BOOLEAN

\* The pointers some goroutine, the queue or the tracker's map holds.
InUse(p) ==
    \/ tracked[p[1]] = p[2]
    \/ \E i \in DOMAIN queue : queue[i] = p
    \/ \E c \in Clients : p \in {handler[c].ptr, handler[c].ref}
    \/ runner.ptr = p

NoDanglingPointer == \A p \in Pointers : InUse(p) => heap[p] # NoGoal

\* Every variable keeps its shape, a request holds the goal it works on, and every
\* goal pointer in use leads to a goal: no handler or runner meets a nil *Goal.
TypeOK == Shapes /\ NoDanglingPointer

-----------------------------------------------------------------------------
(* Safety.                                                                  *)

\* The requests between a field assignment without a lock and the TrackGoal
\* that will persist it.
AboutToTrack(p) ==
    \E c \in Clients : \/ handler[c].pc = "track" /\ handler[c].ref = p
                       \/ handler[c].pc = "trackAnswer" /\ handler[c].ptr = p

\* As long as writes succeed, goals.json holds every tracked goal as memory has it
\* and no other, except a goal some handler has changed in place and is about to
\* track; agent_results.json always agrees with memory.  Any number of handlers,
\* the run loop and restarts write the one file (tracker.go TrackGoal,
\* UpdateGoalState, DeleteGoal; refiner.go assigns fields without the lock).
DiskMirror ==
    WriteOutcomes = {"written"} /\ up =>
        /\ results = resultsDisk
        /\ \A id \in Ids : \/ disk[id] = Image(heap, tracked)[id]
                           \/ IsTracked(id) /\ AboutToTrack(TrackedPtr(id))

\* A goal the tracker shows as active is waiting in the queue, being run, or on its
\* way into the queue: nothing the user sees as active is forgotten.
OnItsWay(id) ==
    \E c \in Clients : /\ handler[c].pc \in {"refine", "track", "queue", "activate", "enqueue"}
                       /\ handler[c].ptr[1] = id

ActiveIsScheduled ==
    up => \A id \in Ids : StateOf(id) = "active" =>
        \/ \E i \in DOMAIN queue : queue[i] = TrackedPtr(id)
        \/ runner.pc = "run" /\ runner.ptr[1] = id
        \/ OnItsWay(id)

\* A goal that is done or blocked and not being recorded has the result that says
\* so: a blocked goal is never without its reason, nor with a success.  This needs
\* one struct per goal: a rewritten goal's stale twin may still wait in the queue,
\* run, and leave its outcome under the same ID.
BeingRecorded(id) == runner.pc = "record" /\ runner.ptr[1] = id
NeverRewritten(id) == \A v \in Versions : v > 1 => heap[<<id, v>>] = NoGoal

ResultExplainsState ==
    up => \A id \in Ids : NeverRewritten(id) /\ ~BeingRecorded(id) =>
        /\ StateOf(id) = "done" => results[id] = "ok"
        /\ StateOf(id) = "blocked" => results[id] = "failed"

\* The active entries of the queue stand in the order of their goals' creation.  The
\* slice is sorted on Enqueue only, so an entry whose goal turns active where it lies
\* may be out of place, but then a handler is about to enqueue that goal and sort.
QueueInOrder ==
    \A i, j \in DOMAIN queue :
        /\ i < j /\ IsActive(queue[i]) /\ IsActive(queue[j])
        /\ queue[i][1] > queue[j][1]
        => OnItsWay(queue[j][1])

(* What the proofs in GoalServerProofs carry along.                         *)

\* A goal the tracker, its file or a request knows has an ID that was handed out.
KnownIds ==
    /\ \A id \in Ids : id > issued =>
          tracked[id] = 0 /\ (disk # Torn => disk[id] = NoGoal)
    /\ \A c \in Clients : handler[c].pc # "idle" => handler[c].ptr[1] <= issued

\* A process that is not running holds nothing.
DownIsEmpty ==
    ~up => /\ queue = <<>> /\ runner = Polling
           /\ \A c \in Clients : handler[c] = Idle

\* The inductive invariant.
IInv == TypeOK /\ KnownIds /\ DownIsEmpty /\ DiskMirror

(* Actions.                                                                 *)

\* A done goal stays done until it is deleted: the tracker refuses every transition
\* out of done, whoever asks (a stale run, a second /run, a queued duplicate).  Only
\* a refinement that began before the end of the run, or after an answer, replaces
\* it, because the refiner writes the state past the tracker's transition table.
Refines(c, id) ==
    /\ handler[c].pc \in {"refine", "track"} /\ handler[c].ptr[1] = id
    /\ handler'[c].pc # handler[c].pc

DoneIsFinal ==
    [][up /\ up' => \A id \in Ids : StateOf(id) = "done" =>
          \/ StateOf(id)' \in {"done", "none"}
          \/ \E c \in Clients : Refines(c, id)
          \/ \E c \in Clients : handler[c].pc = "trackAnswer" /\ handler[c].ptr[1] = id]_vars

\* One request at a time never puts an older struct of a goal back into the map,
\* and never brings a deleted goal back: no update is lost.
NoLostUpdate ==
    [][up /\ up' => \A id \in Ids :
          /\ tracked'[id] # 0 => tracked'[id] >= tracked[id]
          /\ tracked[id] = 0 /\ id <= issued => tracked'[id] = 0]_vars

(* Liveness.                                                                *)

\* An active goal stops being active, unless the run loop keeps finding older goals
\* to run: only earlier goals can starve a goal.
OnlyOlderGoalsStarve ==
    \A id \in Ids :
        <>[](StateOf(id) = "active") => []<>(runner.ptr[1] \in 1 .. id - 1)

(* A claim of the source that the code does not keep.                      *)

\* results_store.go:11-13: "the failure reason for a blocked goal survives a process
\* restart".
BlockedHasReason ==
    up => \A id \in Ids : StateOf(id) = "blocked" /\ ~BeingRecorded(id) =>
        results[id] = "failed"

(* Refinement.                                                              *)

\* The handler that holds the struct the card will show, if any.
Refining(id) == {c \in Clients : handler[c].pc = "track" /\ handler[c].ref[1] = id}

Shown(id) ==
    IF Refining(id) # {} THEN heap[handler[CHOOSE c \in Refining(id) : TRUE].ref]
    ELSE IF IsTracked(id) THEN heap[TrackedPtr(id)] ELSE NoGoal

PhaseOf(id) ==
    LET at(pcs) == \E c \in Clients : handler[c].ptr[1] = id /\ handler[c].pc \in pcs
        accepted == \E c \in Refining(id) : ~handler[c].asks
    IN  IF at({"refine", "trackAnswer"}) THEN "refining"
        ELSE IF at({"queue", "activate", "enqueue"}) \/ (at({"track"}) /\ accepted) THEN "queueing"
        ELSE "free"

Board == INSTANCE GoalBoard WITH
    Cards    <- Ids,
    state    <- [id \in Ids |-> Shown(id).state],
    question <- [id \in Ids |-> Shown(id).question],
    phase    <- [id \in Ids |-> PhaseOf(id)]

\* With one request at a time, no crash and a working disk, every step of the
\* pipeline is a step of some card, or none.
ImplementsBoard == Board!BoardSpec
=============================================================================
