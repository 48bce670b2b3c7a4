-------------------------- MODULE OneRequestProofs --------------------------
(***************************************************************************)
(* Proofs about GoalServer and GoalRestarts while requests come one at a    *)
(* time.  Requests that overlap can put an older struct of a goal back into *)
(* the map or take a goal from under each other; what is proved here is     *)
(* that nothing else in the pipeline can: not the run loop, which works     *)
(* beside every request, nor stale entries of its queue.  The last part     *)
(* shows that the pipeline implements the board of GoalBoard then.          *)
(***************************************************************************)
EXTENDS GoalRestarts, GoalServerProofs, FiniteSetTheorems

-----------------------------------------------------------------------------
(* A request and the struct it holds.                                       *)

Busy(c) == handler[c].pc # "idle"

\* No request but c's is in progress.
Alone(c) == \A d \in Clients : Busy(d) => d = c

\* The request holds the struct the map holds, and the one it is about to track is that
\* one or a newer one; a goal the model asks about is not active.  After a failed write
\* a request may go on with an older struct, but it does not track that one again.
Fits(h) ==
    /\ h.pc \in {"refine", "track", "fold", "trackAnswer"} => tracked[h.ptr[1]] = h.ptr[2]
    /\ h.pc = "track" => h.ref[2] >= h.ptr[2]
    /\ h.pc = "track" /\ h.asks => h.ref = h.ptr /\ ~IsActive(h.ref)
    /\ h.pc = "dropResult" => tracked[h.ptr[1]] = 0
    /\ WriteOutcomes = {"written"} /\ h.pc \in {"queue", "activate", "enqueue"} =>
          tracked[h.ptr[1]] = h.ptr[2]

HandlersFit == \A c \in Clients : Fits(handler[c])

LEMMA IdleFits == Fits(Idle)
BY DEF Fits, Idle

\* The only request at work moves to h, and h fits.
LEMMA MoveFits ==
    ASSUME HandlersOK, NEW c \in Clients, Alone(c), NEW h, Goto(c, h), Fits(h)'
    PROVE  HandlersFit'
<1>1. handler'[c] = h /\ \A d \in Clients \ {c} : handler'[d] = handler[d]
  BY DEF Goto, HandlersOK
<1>2. \A d \in Clients \ {c} : handler'[d].pc = "idle"
  BY <1>1 DEF Alone, Busy
<1> QED
  BY <1>1, <1>2 DEF HandlersFit, Fits

\* What a step may do elsewhere without disturbing the requests at work.
LEMMA FitsKept ==
    ASSUME HandlersOK, HandlersFit, UNCHANGED handler,
           \A c \in Clients : Busy(c) => tracked'[handler[c].ptr[1]] = tracked[handler[c].ptr[1]],
           \A c \in Clients : handler[c].pc = "track" /\ IsActive(handler[c].ref)' =>
              IsActive(handler[c].ref)
    PROVE  HandlersFit'
BY DEF HandlersFit, Fits, HandlersOK, Busy, IsActive

LEMMA FitsHandler ==
    ASSUME Shapes, NoDanglingPointer, HandlersFit, NEW c \in Clients, HandlerStep(c), Alone(c)
    PROVE  HandlersFit'
<1>0. /\ TrackerTypeOK /\ HandlersOK /\ Fits(handler[c])
      /\ handler[c].pc # "idle" =>
            /\ handler[c].ptr \in Pointers /\ handler[c].ptr[1] \in Ids
            /\ handler[c].ptr[2] \in Int
      /\ handler[c].pc = "track" =>
            handler[c].ref \in Pointers /\ handler[c].ref[1] = handler[c].ptr[1]
  BY DEF Shapes, HandlersOK, HandlerOK, Pointers, Versions, HandlersFit
<1> PICK p : p = handler[c].ptr
  OBVIOUS
<1>1. CASE RefineFails(c) \/ QueueCheck(c)
  <2>1. p \in Pointers /\ UNCHANGED <<tracked, heap>>
    BY <1>0, <1>1 DEF RefineFails, QueueCheck
  <2>2. PICK pc \in {"queue", "enqueue", "activate"} : Goto(c, At(pc, p))
    BY <1>1 DEF RefineFails, QueueCheck
  <2>3. At(pc, p).pc = pc /\ At(pc, p).ptr = p
    BY <2>1, AtShape DEF HandlerPcs
  <2>4. WriteOutcomes = {"written"} => tracked[p[1]] = p[2]
    BY <1>0, <1>1 DEF RefineFails, QueueCheck, Fits
  <2>5. Fits(At(pc, p))'
    BY <2>1, <2>3, <2>4 DEF Fits, At, Idle
  <2> QED
    BY <1>0, <2>2, <2>5, MoveFits
<1>2. CASE RefineAsks(c) \/ RefineAccepts(c) \/ RefineRewrites(c)
  <2>1. p \in Pointers /\ tracked[p[1]] = p[2]
    BY <1>0, <1>2 DEF RefineAsks, RefineAccepts, RefineRewrites, RefineLeaves, Fits
  <2>2. PICK r \in Pointers, g \in Goal, asks \in BOOLEAN :
           /\ RefineLeaves(c, r, g, asks)
           /\ r[1] = p[1] /\ r[2] >= p[2]
           /\ asks => r = p /\ g.state # "active"
    <3>1. CASE RefineAsks(c)
      <4>1. PICK q \in BOOLEAN :
               RefineLeaves(c, p, [state |-> "refining", question |-> q], TRUE)
        BY <3>1 DEF RefineAsks
      <4>2. /\ [state |-> "refining", question |-> q] \in Goal
            /\ [state |-> "refining", question |-> q].state # "active"
        BY DEF Goal, GoalStates
      <4>3. p[2] >= p[2]
        BY <2>1 DEF Pointers, Versions
      <4> QED
        BY <2>1, <4>1, <4>2, <4>3
    <3>2. CASE RefineAccepts(c)
      <4>1. RefineLeaves(c, p, [state |-> "active", question |-> FALSE], FALSE)
        BY <3>2 DEF RefineAccepts
      <4>2. [state |-> "active", question |-> FALSE] \in Goal
        BY DEF Goal, GoalStates
      <4>3. p[2] >= p[2]
        BY <2>1 DEF Pointers, Versions
      <4> QED
        BY <2>1, <4>1, <4>2, <4>3
    <3>3. CASE RefineRewrites(c)
      <4>1. PICK v \in Versions :
               /\ \A w \in Versions : heap[<<p[1], w>>] = NoGoal <=> w >= v
               /\ RefineLeaves(c, <<p[1], v>>, [state |-> "active", question |-> FALSE], FALSE)
        BY <3>3 DEF RefineRewrites
      <4>2. heap[p] # NoGoal
        BY <2>1 DEF NoDanglingPointer, InUse
      <4>3. p = <<p[1], p[2]>> /\ p[2] \in Versions /\ p[1] \in Ids
        BY <2>1 DEF Pointers
      <4>4. v >= p[2]
        BY <4>1, <4>2, <4>3 DEF Versions
      <4>5. <<p[1], v>> \in Pointers /\ [state |-> "active", question |-> FALSE] \in Goal
        BY <4>3 DEF Pointers, Goal, GoalStates
      <4> QED
        BY <4>1, <4>4, <4>5
    <3> QED
      BY <1>2, <3>1, <3>2, <3>3
  <2>3. PICK h : h = Tracking(p, r, asks)
    OBVIOUS
  <2>4. h.pc = "track" /\ h.ptr = p /\ h.ref = r /\ h.asks = asks
    BY <2>3 DEF Tracking, At, Idle
  <2>5. Goto(c, h) /\ tracked' = tracked /\ heap'[r] = g
    BY <1>0, <2>2, <2>3 DEF RefineLeaves, TrackerTypeOK
  <2>6. Fits(h)'
    BY <2>1, <2>2, <2>4, <2>5 DEF Fits, IsActive
  <2> QED
    BY <1>0, <2>5, <2>6, MoveFits
<1>3. CASE QueueEnqueue(c)
  BY <1>0, <1>3, IdleFits, MoveFits DEF QueueEnqueue, Fits, Idle
<1>4. CASE FoldAnswer(c)
  <2>1. p \in Pointers /\ tracked'[p[1]] = p[2]
    BY <1>0, <1>4 DEF FoldAnswer, Fits
  <2>2. At("trackAnswer", p).pc = "trackAnswer" /\ At("trackAnswer", p).ptr = p
    BY <2>1, AtShape DEF HandlerPcs
  <2>3. Fits(At("trackAnswer", p))'
    BY <2>1, <2>2 DEF Fits, At, Idle
  <2> QED
    BY <1>0, <1>4, <2>3, MoveFits DEF FoldAnswer
<1>5. ASSUME NEW out \in WriteOutcomes, TrackRefined(c, out)
      PROVE  HandlersFit'
  <2>1. PICK r \in Pointers : r = handler[c].ref
    BY <1>0, <1>5 DEF TrackRefined
  <2>2. p \in Pointers /\ tracked'[r[1]] = r[2]
    BY <1>0, <1>5, <2>1 DEF TrackRefined, TrackGoal, TrackerTypeOK, Pointers
  <2>3. /\ At("queue", p).pc = "queue" /\ At("queue", p).ptr = p
        /\ At("queue", r).pc = "queue" /\ At("queue", r).ptr = r
    BY <2>2, AtShape DEF HandlerPcs
  <2>4. Fits(Idle)' /\ Fits(At("queue", r))'
    BY <2>2, <2>3 DEF Fits, At, Idle
  <2>5. CASE out # "written"
    <3>1. Fits(At("queue", p))'
      BY <2>3, <2>5 DEF Fits, At, Idle
    <3> QED
      BY <1>0, <1>5, <2>5, <3>1, MoveFits DEF TrackRefined
  <2>6. CASE out = "written"
    <3>1. Goto(c, Idle) \/ Goto(c, At("queue", r))
      BY <1>5, <2>1, <2>6 DEF TrackRefined
    <3> QED
      BY <1>0, <2>4, <3>1, MoveFits
  <2> QED
    BY <2>5, <2>6
<1>6. ASSUME NEW out \in WriteOutcomes, QueueActivate(c, out)
      PROVE  HandlersFit'
  <2>1. p \in Pointers /\ tracked' = tracked
    BY <1>0, <1>6, UpdateUse DEF QueueActivate
  <2>2. At("enqueue", p).pc = "enqueue" /\ At("enqueue", p).ptr = p
    BY <2>1, AtShape DEF HandlerPcs
  <2>3. WriteOutcomes = {"written"} => tracked[p[1]] = p[2]
    BY <1>0, <1>6 DEF QueueActivate, Fits
  <2>4. Fits(At("enqueue", p))'
    BY <2>1, <2>2, <2>3 DEF Fits, At, Idle
  <2> QED
    BY <1>0, <1>6, <2>4, MoveFits DEF QueueActivate
<1>7. ASSUME NEW out \in WriteOutcomes, TrackAnswer(c, out)
      PROVE  HandlersFit'
  <2>1. p \in Pointers /\ tracked'[p[1]] = p[2]
    BY <1>0, <1>7 DEF TrackAnswer, TrackGoal, TrackerTypeOK, Pointers
  <2>2. At("refine", p).pc = "refine" /\ At("refine", p).ptr = p
    BY <2>1, AtShape DEF HandlerPcs
  <2>3. Fits(At("refine", p))' /\ Fits(Idle)'
    BY <2>1, <2>2 DEF Fits, At, Idle
  <2>4. Goto(c, At("refine", p)) \/ Goto(c, Idle)
    BY <1>7 DEF TrackAnswer
  <2> QED
    BY <1>0, <2>3, <2>4, MoveFits
<1>8. ASSUME NEW out \in WriteOutcomes, DropResult(c, out)
      PROVE  HandlersFit'
  BY <1>0, <1>8, IdleFits, MoveFits DEF DropResult, Fits, Idle
<1> QED
  BY <1>1, <1>2, <1>3, <1>4, <1>5, <1>6, <1>7, <1>8 DEF HandlerStep

\* A request for a goal there is.
Asked(c) ==
    \E id \in Ids : \/ RunGoal(c, id) \/ AnswerGoal(c, id)
                    \/ \E out \in WriteOutcomes : DismissGoal(c, id, out)

\* This step belongs to no request, makes a new goal, or finds no other request at work.
OneAtATime == \A c \in Clients : HandlerStep(c) \/ Asked(c) => Alone(c)

LEMMA FitsSubmit ==
    ASSUME Shapes, KnownIds, HandlersFit, NEW c \in Clients, NEW draft, NEW out,
           SubmitGoal(c, draft, out)
    PROVE  HandlersFit'
<1>0. /\ TrackerTypeOK /\ HandlersOK /\ IssuedOK /\ issued \in Nat
      /\ \A d \in Clients : Busy(d) =>
            /\ handler[d].ptr \in Pointers /\ handler[d].ptr[1] # issued + 1
            /\ handler[d].pc = "track" => handler[d].ref \in Pointers
                                       /\ handler[d].ref[1] = handler[d].ptr[1]
  <2>1. issued \in Nat /\ Ids \subseteq Nat
    BY GoalsAssumption DEF Shapes, IssuedOK, Ids
  <2> QED
    BY <2>1 DEF Shapes, HandlersOK, HandlerOK, KnownIds, Busy, Pointers
<1>1. PICK r \in Pointers : r = <<issued + 1, 1>> /\ r[1] = issued + 1 /\ r[2] = 1
  <2>1. <<issued + 1, 1>> \in Pointers
    BY <1>0, GoalsAssumption DEF SubmitGoal, Pointers, Ids, Versions, IssuedOK
  <2> QED
    BY <2>1
<1>2. /\ heap' = [heap EXCEPT ![r] = NewGoal]
      /\ tracked' = [tracked EXCEPT ![r[1]] = r[2]]
  BY <1>1 DEF SubmitGoal, TrackGoal
<1>3. /\ \A d \in Clients : Busy(d) => tracked'[handler[d].ptr[1]] = tracked[handler[d].ptr[1]]
      /\ \A d \in Clients : handler[d].pc = "track" =>
            heap'[handler[d].ref] = heap[handler[d].ref]
  BY <1>0, <1>1, <1>2 DEF TrackerTypeOK, Pointers, Busy
<1>4. \A d \in Clients : Fits(handler[d]) =>
         \A h : h = handler[d] => Fits(h)'
  BY <1>3 DEF Fits, IsActive, Busy
<1>5. tracked'[r[1]] = r[2]
  BY <1>0, <1>2 DEF TrackerTypeOK, Pointers
<1>6. Fits(At("refine", r))'
  BY <1>5 DEF Fits, At, Idle
<1>7. handler' = handler \/ Goto(c, At("refine", r))
  BY <1>1 DEF SubmitGoal
<1>8. \A d \in Clients : handler'[d] = handler[d] \/ handler'[d] = At("refine", r)
  BY <1>0, <1>7 DEF Goto, HandlersOK
<1>9. ASSUME NEW d \in Clients
      PROVE  Fits(handler[d])'
  <2>1. CASE handler'[d] = handler[d]
    <3>1. PICK h : h = handler[d]
      OBVIOUS
    <3>2. Fits(h)'
      BY <1>4, <3>1 DEF HandlersFit
    <3> QED
      BY <2>1, <3>1, <3>2 DEF Fits
  <2>2. CASE handler'[d] = At("refine", r)
    BY <1>6, <2>2 DEF Fits
  <2> QED
    BY <1>8, <2>1, <2>2
<1> QED
  BY <1>9 DEF HandlersFit

LEMMA FitsRequest ==
    ASSUME Shapes, HandlersFit, NEW c \in Clients, Asked(c), Alone(c)
    PROVE  HandlersFit'
<1>0. TrackerTypeOK /\ HandlersOK
  BY DEF Shapes
<1>1. PICK id \in Ids : \/ RunGoal(c, id) \/ AnswerGoal(c, id)
                        \/ \E out \in WriteOutcomes : DismissGoal(c, id, out)
  BY DEF Asked
<1>2. PICK p \in Pointers : p = TrackedPtr(id) /\ p[1] = id /\ p[2] = tracked[id]
  <2>1. TrackedPtr(id) \in Pointers /\ TrackedPtr(id)[1] = id
    BY <1>0, <1>1 DEF RunGoal, AnswerGoal, DismissGoal, DeleteGoal, IsTracked, TrackedPtr,
                      TrackerTypeOK, Pointers, Versions
  <2> QED
    BY <2>1 DEF TrackedPtr
<1>3. CASE RunGoal(c, id) \/ AnswerGoal(c, id)
  <2>1. PICK pc \in {"queue", "fold"} : Goto(c, At(pc, p))
    BY <1>2, <1>3 DEF RunGoal, AnswerGoal
  <2>2. At(pc, p).pc = pc /\ At(pc, p).ptr = p /\ tracked' = tracked
    BY <1>2, <1>3, AtShape DEF HandlerPcs, RunGoal, AnswerGoal
  <2>3. Fits(At(pc, p))'
    BY <1>2, <2>2 DEF Fits, At, Idle
  <2> QED
    BY <1>0, <2>1, <2>3, MoveFits
<1>4. ASSUME NEW out \in WriteOutcomes, DismissGoal(c, id, out)
      PROVE  HandlersFit'
  <2>1. tracked'[id] = 0
    BY <1>0, <1>4 DEF DismissGoal, DeleteGoal, TrackerTypeOK
  <2>2. At("dropResult", p).pc = "dropResult" /\ At("dropResult", p).ptr = p
    BY <1>2, AtShape DEF HandlerPcs
  <2>3. Fits(At("dropResult", p))'
    BY <1>2, <2>1, <2>2 DEF Fits, At, Idle
  <2>4. CASE Goto(c, At("dropResult", p))
    BY <1>0, <2>3, <2>4, MoveFits
  <2>5. CASE handler' = handler
    <3>1. \A d \in Clients : handler[d].pc = "idle"
      BY <1>4, IdleShape DEF DismissGoal, Alone, Busy
    <3> QED
      BY <2>5, <3>1 DEF HandlersFit, Fits
  <2> QED
    BY <1>2, <1>4, <2>4, <2>5 DEF DismissGoal
<1> QED
  BY <1>1, <1>3, <1>4

LEMMA FitsRunner ==
    ASSUME Shapes, HandlersFit, RunnerStep
    PROVE  HandlersFit'
<1>0. TrackerTypeOK /\ HandlersOK /\ RunnerOK
      /\ \A c \in Clients : handler[c].pc = "track" => handler[c].ref \in Pointers
  BY DEF Shapes, HandlersOK, HandlerOK
<1>1. tracked' = tracked /\ handler' = handler
  BY UpdateUse DEF RunnerStep, RunNext, FinishRun, RecordResult
<1>2. \A p \in Pointers : IsActive(p)' => IsActive(p)
  <2>1. ASSUME NEW ok, NEW out, FinishRun(ok, out)
        PROVE  \A p \in Pointers : IsActive(p)' => IsActive(p)
    <3>1. runner.ptr[1] \in Ids /\ (IF ok THEN "done" ELSE "blocked") \in GoalStates \ {"active"}
      BY <1>0, <2>1 DEF FinishRun, RunnerOK, Pointers, GoalStates
    <3> QED
      BY <1>0, <2>1, <3>1, UpdateActive DEF FinishRun
  <2> QED
    BY <2>1 DEF RunnerStep, RunNext, RecordResult, IsActive
<1>3. \A c \in Clients : handler[c].pc = "track" /\ IsActive(handler[c].ref)' =>
         IsActive(handler[c].ref)
  BY <1>0, <1>1, <1>2 DEF IsActive
<1> QED
  BY <1>0, <1>1, <1>3, FitsKept

LEMMA FitsServing ==
    ASSUME IInv, HandlersFit, Serving, OneAtATime
    PROVE  HandlersFit'
<1>0. Shapes /\ NoDanglingPointer /\ KnownIds
  BY DEF IInv, TypeOK
<1>1. ASSUME NEW c \in Clients, Request(c)
      PROVE  HandlersFit'
  BY <1>0, <1>1, FitsSubmit, FitsRequest DEF Request, Asked, OneAtATime
<1>2. ASSUME NEW c \in Clients, HandlerStep(c)
      PROVE  HandlersFit'
  BY <1>0, <1>2, FitsHandler DEF OneAtATime
<1> QED
  BY <1>0, <1>1, <1>2, FitsRunner DEF Serving

LEMMA FitsNext ==
    ASSUME IInv, HandlersFit, [Next]_vars, Serving => OneAtATime
    PROVE  HandlersFit'
<1>1. CASE Crash \/ Restart
  <2>1. \A c \in Clients : handler'[c].pc = "idle"
    BY <1>1, IdleShape DEF Crash, Restart, IInv, DownIsEmpty
  <2> QED
    BY <2>1 DEF HandlersFit, Fits
<1>2. CASE UNCHANGED vars
  BY <1>2 DEF vars, HandlersFit, Fits, IsActive
<1> QED
  BY <1>1, <1>2, FitsServing DEF Next

LEMMA FitsInit == Init => HandlersFit
BY IdleShape DEF Init, HandlersFit, Fits

-----------------------------------------------------------------------------
(* No update is lost.                                                       *)

\* The server works on one request at a time.
OneClient == \A c, d \in Clients : c = d

LEMMA OneClientAlone == OneClient => OneAtATime
BY DEF OneClient, OneAtATime, Alone

NoneLost ==
    \A id \in Ids : /\ tracked'[id] # 0 => tracked'[id] >= tracked[id]
                    /\ tracked[id] = 0 /\ id <= issued => tracked'[id] = 0

LEMMA UntrackedLoseNone ==
    ASSUME TrackerTypeOK, UNCHANGED tracked
    PROVE  NoneLost
<1>1. \A id \in Ids : tracked[id] \in Int
  BY DEF TrackerTypeOK, Versions
<1> QED
  BY <1>1 DEF NoneLost

\* Tracking a struct no older than the one in the map, or one of a new goal.
LEMMA TrackLosesNone ==
    ASSUME TrackerTypeOK, IssuedOK, NEW h, NEW p \in Pointers, NEW out, TrackGoal(h, p, out),
           \/ tracked[p[1]] # 0 /\ p[2] >= tracked[p[1]]
           \/ tracked[p[1]] = 0 /\ p[1] > issued
    PROVE  NoneLost
<1>1. /\ issued \in Int /\ Ids \subseteq Int
      /\ \A id \in Ids : tracked[id] \in Int /\ tracked[id] >= tracked[id]
  BY DEF TrackerTypeOK, Versions, Ids, IssuedOK
<1>2. tracked' = [tracked EXCEPT ![p[1]] = p[2]] /\ p[1] \in Ids /\ p[2] \in Int /\ p[2] > 0
  BY DEF TrackGoal, Pointers, Versions
<1>3. ASSUME NEW id \in Ids
      PROVE  /\ tracked'[id] # 0 => tracked'[id] >= tracked[id]
             /\ tracked[id] = 0 /\ id <= issued => tracked'[id] = 0
  <2>1. CASE id = p[1]
    <3>1. tracked'[id] = p[2]
      BY <1>2, <2>1 DEF TrackerTypeOK
    <3> QED
      BY <1>1, <1>2, <2>1, <3>1
  <2>2. CASE id # p[1]
    <3>1. tracked'[id] = tracked[id]
      BY <1>2, <2>2 DEF TrackerTypeOK
    <3> QED
      BY <1>1, <3>1
  <2> QED
    BY <2>1, <2>2
<1> QED
  BY <1>3 DEF NoneLost

LEMMA ServingLosesNone ==
    ASSUME IInv, HandlersFit, Serving, OneAtATime
    PROVE  NoneLost
<1>0. /\ TrackerTypeOK /\ HandlersOK /\ IssuedOK /\ KnownIds /\ issued \in Nat
      /\ \A id \in Ids : tracked[id] \in Int
  BY DEF IInv, TypeOK, Shapes, IssuedOK, TrackerTypeOK, Versions
<1>1. ASSUME NEW c \in Clients, NEW draft, NEW out, SubmitGoal(c, draft, out)
      PROVE  NoneLost
  <2>1. PICK r : r = <<issued + 1, 1>>
    OBVIOUS
  <2>2. r \in Pointers /\ r[1] = issued + 1 /\ r[1] \in Ids
    BY <1>0, <1>1, <2>1, GoalsAssumption DEF SubmitGoal, Pointers, Ids, Versions, IssuedOK
  <2>3. PICK h : TrackGoal(h, r, out)
    BY <1>1, <2>1 DEF SubmitGoal
  <2>4. tracked[r[1]] = 0 /\ r[1] > issued
    BY <1>0, <2>2 DEF KnownIds
  <2> QED
    BY <1>0, <2>2, <2>3, <2>4, TrackLosesNone
<1>2. ASSUME NEW c \in Clients, NEW id \in Ids, NEW out, DismissGoal(c, id, out)
      PROVE  NoneLost
  <2>1. tracked' = [tracked EXCEPT ![id] = 0]
    BY <1>2 DEF DismissGoal, DeleteGoal
  <2>2. \A i \in Ids : tracked'[i] = 0 \/ tracked'[i] = tracked[i]
    BY <1>0, <2>1 DEF TrackerTypeOK
  <2> QED
    BY <1>0, <2>2 DEF NoneLost
<1>3. ASSUME NEW c \in Clients, NEW out, TrackRefined(c, out) \/ TrackAnswer(c, out)
      PROVE  NoneLost
  <2>1. PICK p : /\ TrackGoal(heap, p, out)
                 /\ \/ handler[c].pc = "track" /\ p = handler[c].ref
                    \/ handler[c].pc = "trackAnswer" /\ p = handler[c].ptr
    BY <1>3 DEF TrackRefined, TrackAnswer
  <2>2. p \in Pointers /\ p[1] = handler[c].ptr[1] /\ handler[c].ptr \in Pointers
    BY <1>0, <2>1 DEF HandlersOK, HandlerOK
  <2>3. /\ tracked[p[1]] = handler[c].ptr[2] /\ p[2] >= handler[c].ptr[2]
    <3>1. Fits(handler[c]) /\ handler[c].ptr[2] \in Int
      BY <2>2 DEF HandlersFit, Pointers, Versions
    <3> QED
      BY <2>1, <2>2, <3>1 DEF Fits
  <2>4. handler[c].ptr[2] # 0
    BY <2>2 DEF Pointers, Versions
  <2> QED
    BY <1>0, <2>1, <2>2, <2>3, <2>4, TrackLosesNone
<1>4. ASSUME NEW c \in Clients, Request(c) \/ HandlerStep(c)
      PROVE  NoneLost
  <2>1. ASSUME NEW out, QueueActivate(c, out)
        PROVE  UNCHANGED tracked
    BY <2>1, UpdateUse DEF QueueActivate
  <2>2. ASSUME NEW id, NEW out,
               \/ RefineFails(c) \/ RefineAsks(c) \/ RefineAccepts(c) \/ RefineRewrites(c)
               \/ QueueCheck(c) \/ QueueEnqueue(c) \/ FoldAnswer(c)
               \/ DropResult(c, out) \/ RunGoal(c, id) \/ AnswerGoal(c, id)
        PROVE  UNCHANGED tracked
    BY <2>2 DEF RefineFails, RefineAsks, RefineAccepts, RefineRewrites, RefineLeaves,
       QueueCheck, QueueEnqueue, FoldAnswer, DropResult, RunGoal, AnswerGoal
  <2> QED
    BY <1>0, <1>1, <1>2, <1>3, <1>4, <2>1, <2>2, UntrackedLoseNone DEF Request, HandlerStep
<1>5. CASE RunnerStep
  <2>1. UNCHANGED tracked
    BY <1>5, UpdateUse DEF RunnerStep, RunNext, FinishRun, RecordResult
  <2> QED
    BY <1>0, <2>1, UntrackedLoseNone
<1> QED
  BY <1>4, <1>5 DEF Serving

\* One request at a time never puts an older struct of a goal back into the map and
\* never brings a deleted goal back, whatever the run loop does beside it, and with
\* failed writes, crashes and restarts (tracker.go TrackGoal overwrites whatever
\* struct the map holds, and a handler calls it on a pointer it kept).
THEOREM NoUpdateIsLost ==
    ASSUME OneClient
    PROVE  Spec => NoLostUpdate
<1>1. Init => HandlersFit
  BY FitsInit
<1>2. IInv /\ HandlersFit /\ [Next]_vars => HandlersFit'
  BY FitsNext, OneClientAlone
<1>3. ASSUME IInv, HandlersFit, [Next]_vars, up, up'
      PROVE  NoneLost
  <2>1. CASE Serving
    BY <1>3, <2>1, ServingLosesNone, OneClientAlone
  <2>2. CASE UNCHANGED vars
    BY <1>3, <2>2, UntrackedLoseNone DEF vars, IInv, TypeOK, Shapes
  <2> QED
    BY <1>3, <2>1, <2>2 DEF Next, Crash, Restart
<1>4. IInv /\ HandlersFit /\ [Next]_vars =>
         [up /\ up' => \A id \in Ids :
            /\ tracked'[id] # 0 => tracked'[id] >= tracked[id]
            /\ tracked[id] = 0 /\ id <= issued => tracked'[id] = 0]_vars
  BY <1>3 DEF NoneLost
<1> QED
  BY <1>1, <1>2, <1>4, Inductive, PTL DEF Spec, NoLostUpdate

-----------------------------------------------------------------------------
(* What a transition in the tracker does to the states.                     *)

Moves(id, s) == IsTracked(id) /\ IsValidTransition(StateOf(id), s)

LEMMA UpdateEffect ==
    ASSUME TrackerTypeOK, NEW id \in Ids, NEW s \in GoalStates, NEW out,
           UpdateGoalState(id, s, out)
    PROVE  /\ tracked' = tracked
           /\ \A p \in Pointers :
                 /\ heap'[p].question = heap[p].question
                 /\ heap'[p].state =
                       IF Moves(id, s) /\ p = TrackedPtr(id) THEN s ELSE heap[p].state
           /\ \A i \in Ids :
                 StateOf(i)' = IF Moves(id, s) /\ i = id THEN s ELSE StateOf(i)
<1>1. /\ \A i \in Ids : IsTracked(i) => TrackedPtr(i) \in Pointers /\ TrackedPtr(i)[1] = i
      /\ \A i \in Ids : TrackedPtr(i) = TrackedPtr(id) => i = id
  BY DEF TrackedPtr, IsTracked, TrackerTypeOK, Pointers, Versions
<1>2. CASE Moves(id, s)
  <2>1. PICK r \in Pointers : r = TrackedPtr(id)
    BY <1>1, <1>2 DEF Moves
  <2>2. PICK g : g = [heap[r] EXCEPT !.state = s]
    OBVIOUS
  <2>3. heap[r] \in AnyGoal
    BY <2>1, GoalShape DEF TrackerTypeOK
  <2>4. g.state = s /\ g.question = heap[r].question
    BY <2>2, <2>3 DEF AnyGoal
  <2>5. heap' = [heap EXCEPT ![r] = g] /\ tracked' = tracked
    BY <1>2, <2>1, <2>2 DEF UpdateGoalState, Moves
  <2>6. \A p \in Pointers : heap'[p] = IF p = r THEN g ELSE heap[p]
    BY <2>5 DEF TrackerTypeOK
  <2>7. \A i \in Ids : IsTracked(i) => heap'[TrackedPtr(i)].state =
                           IF i = id THEN s ELSE heap[TrackedPtr(i)].state
    BY <1>1, <2>1, <2>4, <2>6
  <2>8. \A i \in Ids : StateOf(i)' = IF i = id THEN s ELSE StateOf(i)
    BY <1>2, <2>5, <2>7 DEF StateOf, IsTracked, TrackedPtr, Moves
  <2> QED
    BY <1>2, <2>1, <2>4, <2>5, <2>6, <2>8
<1>3. CASE ~Moves(id, s)
  BY <1>3 DEF UpdateGoalState, Moves, trackerVars, StateOf, IsTracked, TrackedPtr
<1> QED
  BY <1>2, <1>3

\* What an assignment past the transition table does to them.
LEMMA AssignEffect ==
    ASSUME TrackerTypeOK, NEW r \in Pointers, NEW g, heap' = [heap EXCEPT ![r] = g],
           UNCHANGED tracked
    PROVE  \A i \in Ids :
              StateOf(i)' = IF IsTracked(i) /\ TrackedPtr(i) = r THEN g.state ELSE StateOf(i)
<1>1. \A i \in Ids : IsTracked(i) => TrackedPtr(i) \in Pointers
  BY DEF TrackedPtr, IsTracked, TrackerTypeOK, Pointers, Versions
<1>2. \A p \in Pointers : heap'[p] = IF p = r THEN g ELSE heap[p]
  BY DEF TrackerTypeOK
<1> QED
  BY <1>1, <1>2 DEF StateOf, IsTracked, TrackedPtr

LEMMA FoldEffect ==
    ASSUME Shapes, NEW c \in Clients, FoldAnswer(c)
    PROVE  /\ \A p \in Pointers : heap'[p].state = heap[p].state
           /\ \A i \in Ids : StateOf(i)' = StateOf(i)
<1>1. PICK p \in Pointers : p = handler[c].ptr
  BY DEF FoldAnswer, Shapes, HandlersOK, HandlerOK
<1>2. PICK g : g = [heap[p] EXCEPT !.question = FALSE]
  OBVIOUS
<1>3. heap' = [heap EXCEPT ![p] = g] /\ TrackerTypeOK /\ tracked' = tracked
  BY <1>1, <1>2 DEF FoldAnswer, Shapes
<1>4. g.state = heap[p].state
  BY <1>2, <1>3, SetQuestion DEF TrackerTypeOK
<1>5. \A q \in Pointers : heap'[q].state = heap[q].state
  BY <1>3, <1>4 DEF TrackerTypeOK
<1>6. \A i \in Ids : IsTracked(i) => TrackedPtr(i) \in Pointers
  BY <1>3 DEF TrackedPtr, IsTracked, TrackerTypeOK, Pointers, Versions
<1> QED
  BY <1>3, <1>5, <1>6 DEF StateOf, IsTracked, TrackedPtr

\* A step that leaves the map and what it points to leaves every state.
LEMMA SameStates ==
    ASSUME UNCHANGED <<heap, tracked>>
    PROVE  \A i : StateOf(i)' = StateOf(i)
BY DEF StateOf, IsTracked, TrackedPtr

-----------------------------------------------------------------------------
(* A finished goal has the result that says so.                             *)

Settled == {"done", "blocked"}

\* One struct per goal: what the run loop works on is what the map holds.
Explains(id) ==
    /\ ~BeingRecorded(id) => /\ StateOf(id) = "done" => results[id] = "ok"
                             /\ StateOf(id) = "blocked" => results[id] = "failed"
    /\ BeingRecorded(id) => /\ StateOf(id) = "done" => runner.ok
                            /\ StateOf(id) = "blocked" => ~runner.ok
    /\ runner.pc = "run" /\ runner.ptr[1] = id => StateOf(id) \notin Settled

Explained == \A id \in Ids : NeverRewritten(id) => Explains(id)

\* A request settles no goal, and takes no result from a settled one.
SettlesNothing(id) ==
    StateOf(id)' \in Settled => StateOf(id)' = StateOf(id) /\ results'[id] = results[id]

\* A goal that was never rewritten is only ever in use as its first struct.
LEMMA OneStruct ==
    ASSUME NoDanglingPointer, NEW p \in Pointers, InUse(p), NeverRewritten(p[1])
    PROVE  p[2] = 1
<1>1. p[1] \in Ids /\ p[2] \in Versions /\ p = <<p[1], p[2]>>
  BY DEF Pointers
<1>2. heap[p] # NoGoal
  BY DEF NoDanglingPointer
<1> QED
  BY <1>1, <1>2 DEF NeverRewritten, Versions

LEMMA TrackSettlesNothing ==
    ASSUME Shapes, NoDanglingPointer, HandlersFit, NEW c \in Clients, NEW out,
           TrackRefined(c, out) \/ TrackAnswer(c, out),
           NEW id \in Ids, NeverRewritten(id)
    PROVE  StateOf(id)' = StateOf(id)
<1>0. TrackerTypeOK /\ HandlersOK
  BY DEF Shapes
<1>1. PICK p : /\ TrackGoal(heap, p, out)
               /\ \/ handler[c].pc = "track" /\ p = handler[c].ref
                  \/ handler[c].pc = "trackAnswer" /\ p = handler[c].ptr
  BY DEF TrackRefined, TrackAnswer
<1>2. /\ p \in Pointers /\ handler[c].ptr \in Pointers /\ p[1] = handler[c].ptr[1]
      /\ InUse(p)
  BY <1>0, <1>1 DEF HandlersOK, HandlerOK, InUse
<1>3. CASE p[1] = id
  <2>1. p[2] = 1
    BY <1>2, <1>3, OneStruct
  <2>2. tracked[p[1]] = handler[c].ptr[2] /\ p[2] >= handler[c].ptr[2]
    <3>1. Fits(handler[c]) /\ handler[c].ptr[2] \in Int
      BY <1>2 DEF HandlersFit, Pointers, Versions
    <3> QED
      BY <1>1, <1>2, <3>1 DEF Fits
  <2>3. tracked[p[1]] = p[2]
    BY <1>2, <2>1, <2>2 DEF Pointers, Versions
  <2>4. tracked' = tracked /\ heap' = heap
    BY <1>0, <1>1, <1>2, <2>3 DEF TrackGoal, TrackerTypeOK
  <2> QED
    BY <2>4, SameStates
<1>4. CASE p[1] # id
  <2>1. tracked'[id] = tracked[id] /\ heap' = heap
    BY <1>0, <1>1, <1>2, <1>4 DEF TrackGoal, TrackerTypeOK
  <2> QED
    BY <2>1 DEF StateOf, IsTracked, TrackedPtr
<1> QED
  BY <1>3, <1>4

LEMMA HandlerSettlesNothing ==
    ASSUME Shapes, NoDanglingPointer, HandlersFit, NEW c \in Clients, HandlerStep(c),
           NEW id \in Ids, NeverRewritten(id)
    PROVE  SettlesNothing(id)
<1>0. /\ TrackerTypeOK /\ HandlersOK
      /\ handler[c].pc # "idle" => handler[c].ptr \in Pointers /\ handler[c].ptr[1] \in Ids
  BY DEF Shapes, HandlersOK, HandlerOK, Pointers
<1>1. CASE RefineFails(c) \/ QueueCheck(c) \/ QueueEnqueue(c)
  BY <1>1, SameStates DEF RefineFails, QueueCheck, QueueEnqueue, SettlesNothing
<1>2. CASE RefineAsks(c) \/ RefineAccepts(c) \/ RefineRewrites(c)
  <2>1. PICK r, g : /\ r \in Pointers /\ heap' = [heap EXCEPT ![r] = g]
                    /\ g.state \notin Settled /\ tracked' = tracked /\ results' = results
    <3>1. handler[c].ptr \in Pointers
      BY <1>0, <1>2 DEF RefineAsks, RefineAccepts, RefineRewrites, RefineLeaves
    <3>2. ASSUME NEW r \in Pointers, NEW g, NEW asks, RefineLeaves(c, r, g, asks),
                 g.state \notin Settled
          PROVE  \E q, f : /\ q \in Pointers /\ heap' = [heap EXCEPT ![q] = f]
                           /\ f.state \notin Settled /\ tracked' = tracked /\ results' = results
      BY <3>2 DEF RefineLeaves
    <3>3. /\ \A q \in BOOLEAN : [state |-> "refining", question |-> q].state \notin Settled
          /\ [state |-> "active", question |-> FALSE].state \notin Settled
      BY DEF Settled
    <3>4. CASE RefineAsks(c) \/ RefineAccepts(c)
      BY <3>1, <3>2, <3>3, <3>4 DEF RefineAsks, RefineAccepts
    <3>5. CASE RefineRewrites(c)
      <4>1. PICK v \in Versions : RefineLeaves(c, <<handler[c].ptr[1], v>>,
                                     [state |-> "active", question |-> FALSE], FALSE)
        BY <3>5 DEF RefineRewrites
      <4>2. <<handler[c].ptr[1], v>> \in Pointers
        BY <3>1 DEF Pointers
      <4> QED
        BY <3>2, <3>3, <4>1, <4>2
    <3> QED
      BY <1>2, <3>4, <3>5
  <2> QED
    BY <1>0, <2>1, AssignEffect DEF SettlesNothing
<1>3. CASE FoldAnswer(c)
  BY <1>3, FoldEffect DEF FoldAnswer, SettlesNothing
<1>4. ASSUME NEW out, TrackRefined(c, out) \/ TrackAnswer(c, out)
      PROVE  SettlesNothing(id)
  BY <1>4, TrackSettlesNothing DEF TrackRefined, TrackAnswer, SettlesNothing
<1>5. ASSUME NEW out, QueueActivate(c, out)
      PROVE  SettlesNothing(id)
  <2>1. PICK i \in Ids : i = handler[c].ptr[1]
    BY <1>0, <1>5 DEF QueueActivate
  <2>2. "active" \in GoalStates \ Settled
    BY DEF GoalStates, Settled
  <2>3. UpdateGoalState(i, "active", out) /\ results' = results
    BY <1>5, <2>1 DEF QueueActivate
  <2>4. StateOf(id)' = IF Moves(i, "active") /\ id = i THEN "active" ELSE StateOf(id)
    BY <1>0, <2>2, <2>3, UpdateEffect
  <2> QED
    BY <2>2, <2>3, <2>4 DEF SettlesNothing
<1>6. ASSUME NEW out, DropResult(c, out)
      PROVE  SettlesNothing(id)
  <2>1. StateOf(id)' = StateOf(id)
    BY <1>6, SameStates DEF DropResult
  <2>2. CASE id = handler[c].ptr[1]
    <3>1. tracked[id] = 0
      BY <1>6, <2>2 DEF DropResult, HandlersFit, Fits
    <3> QED
      BY <2>1, <3>1 DEF StateOf, IsTracked, SettlesNothing, Settled
  <2>3. CASE id # handler[c].ptr[1]
    <3>1. results'[id] = results[id]
      BY <1>6, <2>3 DEF DropResult, DeleteResult, resultVars, Shapes, ResultsTypeOK
    <3> QED
      BY <2>1, <3>1 DEF SettlesNothing
  <2> QED
    BY <2>2, <2>3
<1> QED
  BY <1>1, <1>2, <1>3, <1>4, <1>5, <1>6 DEF HandlerStep

\* The states after a request for a goal that is new, or there, or going.
LEMMA SubmitStates ==
    ASSUME Shapes, KnownIds, NEW c \in Clients, NEW draft, NEW out, SubmitGoal(c, draft, out)
    PROVE  /\ issued + 1 \in Ids /\ tracked[issued + 1] = 0 /\ tracked'[issued + 1] = 1
           /\ \A i \in Ids : i # issued + 1 => tracked'[i] = tracked[i]
           /\ heap'[<<issued + 1, 1>>] = NewGoal
           /\ \A p \in Pointers : p[1] # issued + 1 => heap'[p] = heap[p]
           /\ \A i \in Ids : StateOf(i)' = IF i = issued + 1 THEN "refining" ELSE StateOf(i)
<1>0. TrackerTypeOK /\ issued \in Nat
  BY DEF Shapes, IssuedOK
<1>1. issued + 1 \in Ids /\ 1 \in Versions
  BY <1>0, GoalsAssumption DEF SubmitGoal, Ids, Versions
<1>2. PICK n \in Ids : n = issued + 1 /\ n > issued
  BY <1>0, <1>1
<1>3. PICK r \in Pointers : r = <<n, 1>> /\ r[1] = n /\ r[2] = 1
  <2>1. <<n, 1>> \in Pointers
    BY <1>1 DEF Pointers
  <2> QED
    BY <2>1
<1>4. /\ heap' = [heap EXCEPT ![r] = NewGoal]
      /\ tracked' = [tracked EXCEPT ![n] = 1]
  BY <1>2, <1>3 DEF SubmitGoal, TrackGoal
<1>5. /\ tracked[n] = 0 /\ tracked'[n] = 1
      /\ \A i \in Ids : i # n => tracked'[i] = tracked[i]
      /\ heap'[r] = NewGoal
      /\ \A p \in Pointers : p[1] # n => heap'[p] = heap[p]
  BY <1>0, <1>2, <1>3, <1>4 DEF KnownIds, TrackerTypeOK
<1>6. \A i \in Ids : IsTracked(i) => TrackedPtr(i) \in Pointers /\ TrackedPtr(i)[1] = i
  BY <1>0 DEF TrackedPtr, IsTracked, TrackerTypeOK, Pointers, Versions
<1>7. \A i \in Ids : StateOf(i)' = IF i = n THEN "refining" ELSE StateOf(i)
  BY <1>3, <1>5, <1>6 DEF StateOf, IsTracked, TrackedPtr, NewGoal
<1> QED
  BY <1>1, <1>2, <1>3, <1>5, <1>7

LEMMA DismissStates ==
    ASSUME Shapes, NEW c \in Clients, NEW id \in Ids, NEW out, DismissGoal(c, id, out)
    PROVE  /\ IsTracked(id) /\ tracked'[id] = 0 /\ heap' = heap
           /\ \A i \in Ids : i # id => tracked'[i] = tracked[i]
           /\ \A i \in Ids : StateOf(i)' = IF i = id THEN "none" ELSE StateOf(i)
<1>1. /\ heap' = heap /\ IsTracked(id) /\ tracked'[id] = 0
      /\ \A i \in Ids : i # id => tracked'[i] = tracked[i]
  BY DEF Shapes, TrackerTypeOK, DismissGoal, DeleteGoal
<1> QED
  BY <1>1 DEF StateOf, IsTracked, TrackedPtr

LEMMA RequestSettlesNothing ==
    ASSUME Shapes, KnownIds, NEW c \in Clients, Request(c), NEW id \in Ids
    PROVE  SettlesNothing(id)
<1>1. ASSUME NEW draft, NEW out, SubmitGoal(c, draft, out)
      PROVE  SettlesNothing(id)
  <2>1. results' = results
    BY <1>1 DEF SubmitGoal
  <2> QED
    BY <1>1, <2>1, SubmitStates DEF SettlesNothing, Settled
<1>2. ASSUME NEW i \in Ids, RunGoal(c, i) \/ AnswerGoal(c, i)
      PROVE  SettlesNothing(id)
  BY <1>2, SameStates DEF RunGoal, AnswerGoal, SettlesNothing
<1>3. ASSUME NEW i \in Ids, NEW out, DismissGoal(c, i, out)
      PROVE  SettlesNothing(id)
  <2>1. results' = results
    BY <1>3 DEF DismissGoal
  <2> QED
    BY <1>3, <2>1, DismissStates DEF SettlesNothing, Settled
<1> QED
  BY <1>1, <1>2, <1>3 DEF Request

LEMMA RunnerExplains ==
    ASSUME Shapes, NoDanglingPointer, RunnerStep, NEW id \in Ids, NeverRewritten(id), Explains(id)
    PROVE  Explains(id)'
<1>0. TrackerTypeOK /\ ResultsTypeOK /\ RunnerOK /\ QueueOK
  BY DEF Shapes
<1>1. CASE RunNext
  <2>1. PICK i \in DOMAIN queue, p \in Pointers :
           p = queue[i] /\ IsActive(p) /\ runner' = [Polling EXCEPT !.pc = "run", !.ptr = p]
    <3>1. PICK i \in DOMAIN queue : /\ IsActive(queue[i])
                                    /\ runner' = [Polling EXCEPT !.pc = "run", !.ptr = queue[i]]
      BY <1>1 DEF RunNext, PopNext, IsNext
    <3>2. queue[i] \in Pointers
      BY <1>0 DEF QueueOK
    <3> QED
      BY <3>1, <3>2
  <2>2. /\ runner'.pc = "run" /\ runner'.ptr = p /\ runner.pc = "poll"
        /\ results' = results /\ StateOf(id)' = StateOf(id)
    BY <1>1, <2>1, SameStates DEF RunNext, Polling
  <2>3. p[1] = id => StateOf(id) \notin Settled
    <3>1. ASSUME p[1] = id, IsTracked(id)
          PROVE  StateOf(id) = "active"
      <4>1. InUse(p) /\ p[2] = 1
        BY <2>1, <3>1, OneStruct DEF InUse
      <4>2. PICK q \in Pointers : q = TrackedPtr(id) /\ q[1] = id /\ q[2] = tracked[id]
        <5>1. tracked[id] \in Versions
          BY <1>0, <3>1 DEF IsTracked, TrackerTypeOK
        <5>2. TrackedPtr(id) \in Pointers /\ TrackedPtr(id) = <<id, tracked[id]>>
          BY <5>1 DEF TrackedPtr, Pointers
        <5> QED
          BY <5>2
      <4>3. InUse(q)
        BY <4>2 DEF InUse
      <4>4. q[2] = 1
        BY <4>2, <4>3, OneStruct
      <4>5. p = q
        BY <3>1, <4>1, <4>2, <4>4 DEF Pointers
      <4> QED
        BY <2>1, <3>1, <4>2, <4>5 DEF StateOf, IsActive
    <3> QED
      BY <3>1 DEF StateOf, Settled
  <2> QED
    BY <2>2, <2>3 DEF Explains, BeingRecorded
<1>2. ASSUME NEW ok \in BOOLEAN, NEW out, FinishRun(ok, out)
      PROVE  Explains(id)'
  <2>1. PICK i \in Ids : i = runner.ptr[1]
    BY <1>0, <1>2 DEF FinishRun, RunnerOK, Pointers
  <2>2. PICK s \in GoalStates : s = IF ok THEN "done" ELSE "blocked"
    BY DEF GoalStates
  <2>3. UpdateGoalState(i, s, out) /\ results' = results
    BY <1>2, <2>1, <2>2 DEF FinishRun
  <2>4. StateOf(id)' = IF Moves(i, s) /\ id = i THEN s ELSE StateOf(id)
    BY <1>0, <2>3, UpdateEffect
  <2>5. /\ runner.pc = "run" /\ runner'.pc = "record" /\ runner'.ptr = runner.ptr
        /\ runner'.ok = ok
    BY <1>0, <1>2 DEF FinishRun, RunnerOK, Runner
  <2>6. CASE id = i
    <3>1. StateOf(id) \notin Settled
      BY <2>1, <2>5, <2>6 DEF Explains
    <3> QED
      BY <2>1, <2>2, <2>4, <2>5, <2>6, <3>1 DEF Explains, BeingRecorded, Settled
  <2>7. CASE id # i
    BY <2>1, <2>3, <2>4, <2>5, <2>7 DEF Explains, BeingRecorded
  <2> QED
    BY <2>6, <2>7
<1>3. ASSUME NEW out, RecordResult(out)
      PROVE  Explains(id)'
  <2>1. PICK i \in Ids : i = runner.ptr[1]
    BY <1>0, <1>3 DEF RecordResult, RunnerOK, Pointers
  <2>2. /\ StateOf(id)' = StateOf(id) /\ runner'.pc = "poll" /\ runner.pc = "record"
        /\ runner.ok \in BOOLEAN
    BY <1>0, <1>3, SameStates DEF RecordResult, Polling, RunnerOK, Runner
  <2>3. results' = [results EXCEPT ![i] = IF runner.ok THEN "ok" ELSE "failed"]
    BY <1>3, <2>1 DEF RecordResult, SaveResult
  <2>4. results'[id] = IF id = i THEN IF runner.ok THEN "ok" ELSE "failed" ELSE results[id]
    BY <1>0, <2>3 DEF ResultsTypeOK
  <2> QED
    BY <2>1, <2>2, <2>4 DEF Explains, BeingRecorded
<1> QED
  BY <1>1, <1>2, <1>3 DEF RunnerStep

LEMMA ExplainedServing ==
    ASSUME IInv, HandlersFit, Explained, Serving
    PROVE  Explained'
<1>0. Shapes /\ NoDanglingPointer /\ KnownIds
  BY DEF IInv, TypeOK
<1> SUFFICES ASSUME NEW id \in Ids, NeverRewritten(id)' PROVE Explains(id)'
  BY DEF Explained
<1>1. NeverRewritten(id)
  <2>1. \A v \in Versions : <<id, v>> \in Pointers
    BY DEF Pointers
  <2>2. \A q \in Pointers : Alive(q) => Alive(q)'
    BY <1>0, AliveKept DEF Serving
  <2> QED
    BY <2>1, <2>2 DEF NeverRewritten, Alive
<1>2. Explains(id)
  BY <1>1 DEF Explained
<1>3. ASSUME NEW c \in Clients, Request(c) \/ HandlerStep(c)
      PROVE  Explains(id)'
  <2>1. SettlesNothing(id)
    BY <1>0, <1>1, <1>3, HandlerSettlesNothing, RequestSettlesNothing
  <2>2. runner' = runner
    BY <1>3 DEF Request, HandlerStep, SubmitGoal, RunGoal, AnswerGoal, DismissGoal,
       RefineFails, RefineAsks, RefineAccepts, RefineRewrites, RefineLeaves, QueueCheck,
       QueueEnqueue, FoldAnswer, TrackRefined, QueueActivate, TrackAnswer, DropResult
  <2> QED
    BY <1>2, <2>1, <2>2 DEF SettlesNothing, Explains, BeingRecorded, Settled
<1>4. CASE RunnerStep
  BY <1>0, <1>1, <1>2, <1>4, RunnerExplains
<1> QED
  BY <1>3, <1>4 DEF Serving

\* As long as the process lives and one request is at work at a time, a goal with one
\* struct that is done has a success as its result and one that is blocked a failure,
\* but while the run loop is between the two writes; with any failed writes, since
\* memory is changed before the file (processor.go RunNext, recordResult; server.go
\* handleDeleteGoal drops the result after the goal).
THEOREM ResultsExplainStates ==
    ASSUME OneClient
    PROVE  ServingSpec => []ResultExplainsState
<1>1. Init => IInv /\ HandlersFit /\ Explained
  <2>1. Init => \A id \in Ids : StateOf(id) = "none"
    BY DEF Init, TrackerInit, StateOf, IsTracked
  <2>2. Init => runner.pc = "poll"
    BY DEF Init, Polling
  <2>3. Init => Explained
    BY <2>1, <2>2 DEF Explained, Explains, BeingRecorded, Settled
  <2> QED
    BY <2>3, IInvInit, FitsInit
<1>2. IInv /\ HandlersFit /\ Explained /\ [Serving]_vars => (IInv /\ HandlersFit /\ Explained)'
  <2> SUFFICES ASSUME IInv, HandlersFit, Explained, [Serving]_vars
               PROVE  IInv' /\ HandlersFit' /\ Explained'
    OBVIOUS
  <2>1. [Next]_vars
    BY DEF Next
  <2>2. IInv' /\ HandlersFit'
    BY <2>1, IInvNext, FitsNext, OneClientAlone
  <2>3. CASE UNCHANGED vars
    <3>1. \A id : StateOf(id)' = StateOf(id)
      BY <2>3, SameStates DEF vars
    <3>2. UNCHANGED <<heap, results, runner>>
      BY <2>3 DEF vars
    <3> QED
      BY <2>2, <3>1, <3>2 DEF Explained, Explains, BeingRecorded, NeverRewritten
  <2> QED
    BY <2>2, <2>3, ExplainedServing
<1>3. Explained => ResultExplainsState
  <2> SUFFICES ASSUME Explained, NEW id \in Ids, NeverRewritten(id), ~BeingRecorded(id)
               PROVE  /\ StateOf(id) = "done" => results[id] = "ok"
                      /\ StateOf(id) = "blocked" => results[id] = "failed"
    BY DEF ResultExplainsState
  <2> QED
    BY DEF Explained, Explains
<1> QED
  BY <1>1, <1>2, <1>3, PTL DEF ServingSpec

-----------------------------------------------------------------------------
(* No request and no run strands an active goal.                            *)

OnWay(h, id) ==
    h.pc \in {"refine", "track", "queue", "activate", "enqueue"} /\ h.ptr[1] = id

Runs(id) == runner.pc = "run" /\ runner.ptr[1] = id

Stranded(id) ==
    StateOf(id) = "active" /\ ~(Queued(TrackedPtr(id)) \/ Runs(id) \/ OnItsWay(id))

LEMMA StrandedIs ==
    /\ \A id \in Ids : id \in Active \ Scheduled <=> Stranded(id)
    /\ \A id \in Ids : OnItsWay(id) <=> \E c \in Clients : OnWay(handler[c], id)
BY DEF Active, Scheduled, Stranded, Queued, Runs, OnItsWay, OnWay

\* A step that leaves a goal's state and struct, and keeps it scheduled, strands it
\* only if it was stranded.
LEMMA StrandedKept ==
    ASSUME NEW id \in Ids, StateOf(id)' = StateOf(id), tracked'[id] = tracked[id],
           \A p : Queued(p) => Queued(p)' \/ Runs(p[1])',
           Runs(id) => Runs(id)', OnItsWay(id) => OnItsWay(id)', Stranded(id)'
    PROVE  Stranded(id)
<1>1. TrackedPtr(id)[1] = id /\ TrackedPtr(id)' = TrackedPtr(id)
  BY DEF TrackedPtr
<1>2. Queued(TrackedPtr(id)) => Queued(TrackedPtr(id))' \/ Runs(id)'
  <2>1. PICK p : p = TrackedPtr(id) /\ p[1] = id /\ p = TrackedPtr(id)'
    BY <1>1
  <2> QED
    BY <2>1 DEF Queued
<1> QED
  BY <1>2 DEF Stranded

\* A request that moves keeps other requests' goals on their way.
LEMMA MoveKeepsWay ==
    ASSUME HandlersOK, NEW c \in Clients, NEW h, Goto(c, h),
           NEW id \in Ids, OnWay(handler[c], id) => OnWay(h, id), OnItsWay(id)
    PROVE  OnItsWay(id)'
<1>1. handler'[c] = h /\ \A d \in Clients \ {c} : handler'[d] = handler[d]
  BY DEF Goto, HandlersOK
<1>2. PICK d \in Clients : OnWay(handler[d], id)
  BY StrandedIs
<1>3. OnWay(handler'[d], id)
  BY <1>1, <1>2
<1> QED
  BY <1>3 DEF OnItsWay, OnWay

LEMMA MoveIsOnWay ==
    ASSUME HandlersOK, NEW c \in Clients, NEW h, Goto(c, h), NEW id \in Ids, OnWay(h, id)
    PROVE  ~Stranded(id)'
<1>1. handler'[c] = h
  BY DEF Goto, HandlersOK
<1> QED
  BY <1>1 DEF Stranded, OnItsWay, OnWay

\* Enqueue loses no entry.
LEMMA EnqueueKeeps ==
    ASSUME QueueOK, NEW p, Enqueue(p)
    PROVE  /\ Queued(p)'
           /\ \A q : Queued(q) => Queued(q)'
<1> DEFINE s == Append(queue, p)
<1>1. /\ DOMAIN s = 1 .. Len(queue) + 1 /\ Len(queue) \in Nat
      /\ s[Len(queue) + 1] = p
      /\ \A i \in DOMAIN queue : i \in DOMAIN s /\ s[i] = queue[i]
  BY DEF QueueOK
<1>2. PICK f \in StableOrders(s) : queue' = [i \in DOMAIN s |-> s[f[i]]]
  BY DEF Enqueue
<1>3. \A j \in DOMAIN s : \E i \in DOMAIN s : f[i] = j
  BY <1>2 DEF StableOrders, Bijection, Surjection
<1> HIDE DEF s
<1>4. \A j \in DOMAIN s : \E i \in DOMAIN queue' : queue'[i] = s[j]
  BY <1>2, <1>3
<1>5. Len(queue) + 1 \in DOMAIN s
  BY <1>1
<1> QED
  BY <1>1, <1>4, <1>5 DEF Queued

LEMMA HandlerStrandsNone ==
    ASSUME WriteOutcomes = {"written"}, Shapes, HandlersFit, NEW c \in Clients, HandlerStep(c),
           NEW id \in Ids, Stranded(id)'
    PROVE  Stranded(id)
<1>0. /\ TrackerTypeOK /\ HandlersOK /\ QueueOK /\ Fits(handler[c])
      /\ handler[c].pc # "idle" => handler[c].ptr \in Pointers /\ handler[c].ptr[1] \in Ids
      /\ handler[c].pc = "track" =>
            handler[c].ref \in Pointers /\ handler[c].ref[1] = handler[c].ptr[1]
  BY DEF Shapes, HandlersOK, HandlerOK, Pointers, HandlersFit
<1> PICK p : p = handler[c].ptr
  OBVIOUS
<1>k. ASSUME StateOf(id)' = StateOf(id), tracked'[id] = tracked[id], runner' = runner,
             \A q : Queued(q) => Queued(q)',
             NEW h, Goto(c, h), OnWay(handler[c], id) => OnWay(h, id)
      PROVE  Stranded(id)
  <2>1. OnItsWay(id) => OnItsWay(id)'
    BY <1>0, <1>k, MoveKeepsWay
  <2> QED
    BY <1>k, <2>1, StrandedKept DEF Runs
<1>q. queue' = queue => \A q : Queued(q) => Queued(q)'
  BY DEF Queued
<1>1. CASE RefineFails(c) \/ QueueCheck(c)
  <2>1. p \in Pointers /\ UNCHANGED <<heap, tracked, runner, queue>>
    BY <1>0, <1>1 DEF RefineFails, QueueCheck
  <2>2. PICK pc \in {"queue", "enqueue", "activate"} : Goto(c, At(pc, p))
    BY <1>1 DEF RefineFails, QueueCheck
  <2>3. At(pc, p).pc = pc /\ At(pc, p).ptr = p
    BY <2>1, AtShape DEF HandlerPcs
  <2>4. OnWay(handler[c], id) => OnWay(At(pc, p), id)
    BY <2>3 DEF OnWay
  <2> QED
    BY <1>k, <1>q, <2>1, <2>2, <2>4, SameStates
<1>2. CASE RefineAsks(c) \/ RefineAccepts(c) \/ RefineRewrites(c)
  <2>1. p \in Pointers /\ p[1] \in Ids
    BY <1>0, <1>2 DEF RefineAsks, RefineAccepts, RefineRewrites, RefineLeaves
  <2>2. PICK r \in Pointers, g \in Goal, asks \in BOOLEAN :
           r[1] = p[1] /\ RefineLeaves(c, r, g, asks)
    BY <1>2, <2>1, RefineCases
  <2>3. PICK h : h = Tracking(p, r, asks)
    OBVIOUS
  <2>4. h.pc = "track" /\ h.ptr = p /\ Goto(c, h)
    BY <2>2, <2>3 DEF Tracking, At, Idle, RefineLeaves
  <2>5. CASE id = p[1]
    BY <1>0, <2>4, <2>5, MoveIsOnWay DEF OnWay
  <2>6. CASE id # p[1]
    <3>1. TrackedPtr(id) # r
      BY <2>2, <2>6 DEF TrackedPtr
    <3>2. StateOf(id)' = StateOf(id)
      BY <1>0, <2>2, <3>1, AssignEffect DEF RefineLeaves
    <3>3. ~OnWay(handler[c], id)
      BY <2>6 DEF OnWay
    <3> QED
      BY <1>k, <1>q, <2>2, <2>4, <3>2, <3>3 DEF RefineLeaves
  <2> QED
    BY <2>5, <2>6
<1>3. CASE QueueEnqueue(c)
  <2>1. p \in Pointers /\ tracked[p[1]] = p[2] /\ UNCHANGED <<heap, tracked, runner>>
    BY <1>0, <1>3 DEF QueueEnqueue, Fits
  <2>2. Queued(p)' /\ \A q : Queued(q) => Queued(q)'
    BY <1>0, <1>3, EnqueueKeeps DEF QueueEnqueue
  <2>3. CASE id = p[1]
    <3>1. TrackedPtr(id)' = p
      BY <2>1, <2>3 DEF TrackedPtr, Pointers
    <3> QED
      BY <2>2, <3>1 DEF Stranded, Queued
  <2>4. CASE id # p[1]
    <3>1. ~OnWay(handler[c], id)
      BY <2>4 DEF OnWay
    <3> QED
      BY <1>3, <1>k, <2>1, <2>2, <3>1, SameStates DEF QueueEnqueue
  <2> QED
    BY <2>3, <2>4
<1>4. CASE FoldAnswer(c)
  <2>1. StateOf(id)' = StateOf(id)
    BY <1>4, FoldEffect
  <2>2. ~OnWay(handler[c], id)
    BY <1>4 DEF FoldAnswer, OnWay
  <2> QED
    BY <1>4, <1>k, <1>q, <2>1, <2>2 DEF FoldAnswer
<1>5. ASSUME NEW out \in WriteOutcomes, TrackRefined(c, out)
      PROVE  Stranded(id)
  <2>1. PICK r \in Pointers : r = handler[c].ref /\ r[1] = p[1]
    BY <1>0, <1>5 DEF TrackRefined
  <2>2. /\ p \in Pointers /\ r[1] \in Ids /\ heap' = heap
        /\ tracked' = [tracked EXCEPT ![r[1]] = r[2]]
        /\ UNCHANGED <<queue, runner>>
    BY <1>0, <1>5, <2>1 DEF TrackRefined, TrackGoal
  <2>3. CASE id # p[1]
    <3>1. tracked'[id] = tracked[id] /\ StateOf(id)' = StateOf(id)
      BY <1>0, <2>1, <2>2, <2>3 DEF TrackerTypeOK, StateOf, IsTracked, TrackedPtr
    <3>2. ~OnWay(handler[c], id)
      BY <2>3 DEF OnWay
    <3>3. \E h : Goto(c, h)
      BY <1>5 DEF TrackRefined
    <3> QED
      BY <1>k, <1>q, <2>2, <3>1, <3>2, <3>3
  <2>4. CASE id = p[1] /\ handler[c].asks
    <3>1. r = p /\ ~IsActive(r)
      BY <1>0, <1>5, <2>1, <2>4 DEF TrackRefined, Fits
    <3>2. tracked'[id] = r[2] /\ r = <<id, r[2]>>
      BY <1>0, <2>1, <2>2, <2>4 DEF TrackerTypeOK, Pointers
    <3>3. StateOf(id)' # "active"
      BY <2>2, <3>1, <3>2 DEF StateOf, IsTracked, TrackedPtr, IsActive
    <3> QED
      BY <3>3 DEF Stranded
  <2>5. CASE id = p[1] /\ ~handler[c].asks
    <3>1. Goto(c, At("queue", r))
      BY <1>5, <2>1, <2>5 DEF TrackRefined
    <3>2. At("queue", r).pc = "queue" /\ At("queue", r).ptr = r
      BY AtShape DEF HandlerPcs
    <3>3. OnWay(At("queue", r), id)
      BY <2>1, <2>5, <3>2 DEF OnWay
    <3> QED
      BY <1>0, <3>1, <3>3, MoveIsOnWay
  <2> QED
    BY <2>3, <2>4, <2>5
<1>6. ASSUME NEW out \in WriteOutcomes, QueueActivate(c, out)
      PROVE  Stranded(id)
  <2>1. PICK i \in Ids : i = p[1] /\ UpdateGoalState(i, "active", out)
    BY <1>0, <1>6 DEF QueueActivate
  <2>2. At("enqueue", p).pc = "enqueue" /\ At("enqueue", p).ptr = p /\ Goto(c, At("enqueue", p))
    BY <1>0, <1>6, AtShape DEF HandlerPcs, QueueActivate
  <2>3. CASE id = i
    BY <1>0, <2>1, <2>2, <2>3, MoveIsOnWay DEF OnWay
  <2>4. CASE id # i
    <3>1. "active" \in GoalStates
      BY DEF GoalStates
    <3>2. StateOf(id)' = StateOf(id) /\ tracked' = tracked
      BY <1>0, <2>1, <2>4, <3>1, UpdateEffect
    <3>3. ~OnWay(handler[c], id)
      BY <2>1, <2>4 DEF OnWay
    <3> QED
      BY <1>6, <1>k, <1>q, <2>2, <3>2, <3>3 DEF QueueActivate
  <2> QED
    BY <2>3, <2>4
<1>7. ASSUME NEW out \in WriteOutcomes, TrackAnswer(c, out)
      PROVE  Stranded(id)
  <2>1. p \in Pointers /\ tracked[p[1]] = p[2]
    BY <1>0, <1>7 DEF TrackAnswer, Fits
  <2>2. tracked' = tracked /\ heap' = heap
    BY <1>0, <1>7, <2>1 DEF TrackAnswer, TrackGoal, TrackerTypeOK
  <2>3. ~OnWay(handler[c], id) /\ \E h : Goto(c, h)
    BY <1>7 DEF TrackAnswer, OnWay
  <2> QED
    BY <1>7, <1>k, <1>q, <2>2, <2>3, SameStates DEF TrackAnswer
<1>8. ASSUME NEW out \in WriteOutcomes, DropResult(c, out)
      PROVE  Stranded(id)
  <2>1. ~OnWay(handler[c], id)
    BY <1>8 DEF DropResult, OnWay
  <2> QED
    BY <1>8, <1>k, <1>q, <2>1, SameStates DEF DropResult
<1> QED
  BY <1>1, <1>2, <1>3, <1>4, <1>5, <1>6, <1>7, <1>8 DEF HandlerStep

LEMMA RequestStrandsNone ==
    ASSUME Shapes, KnownIds, NEW c \in Clients, Request(c), NEW id \in Ids, Stranded(id)'
    PROVE  Stranded(id)
<1>0. HandlersOK
  BY DEF Shapes
<1>k. ASSUME StateOf(id)' = StateOf(id), tracked'[id] = tracked[id],
             UNCHANGED <<queue, runner>>, handler[c] = Idle,
             handler' = handler \/ \E h : Goto(c, h)
      PROVE  Stranded(id)
  <2>1. ~OnWay(handler[c], id)
    BY <1>k, IdleShape DEF OnWay
  <2>2. OnItsWay(id) => OnItsWay(id)'
    BY <1>0, <1>k, <2>1, MoveKeepsWay DEF OnItsWay
  <2>3. \A q : Queued(q) => Queued(q)'
    BY <1>k DEF Queued
  <2> QED
    BY <1>k, <2>2, <2>3, StrandedKept DEF Runs
<1>1. ASSUME NEW draft, NEW out, SubmitGoal(c, draft, out)
      PROVE  Stranded(id)
  <2>1. /\ StateOf(id)' = IF id = issued + 1 THEN "refining" ELSE StateOf(id)
        /\ id # issued + 1 => tracked'[id] = tracked[id]
    BY <1>1, SubmitStates
  <2>2. id # issued + 1
    BY <2>1 DEF Stranded
  <2>3. handler' = handler \/ \E h : Goto(c, h)
    BY <1>1 DEF SubmitGoal
  <2> QED
    BY <1>1, <1>k, <2>1, <2>2, <2>3 DEF SubmitGoal
<1>2. ASSUME NEW i \in Ids, RunGoal(c, i) \/ AnswerGoal(c, i)
      PROVE  Stranded(id)
  BY <1>2, <1>k, SameStates DEF RunGoal, AnswerGoal
<1>3. ASSUME NEW i \in Ids, NEW out, DismissGoal(c, i, out)
      PROVE  Stranded(id)
  <2>1. /\ StateOf(id)' = IF id = i THEN "none" ELSE StateOf(id)
        /\ id # i => tracked'[id] = tracked[id]
    BY <1>3, DismissStates
  <2>2. id # i
    BY <2>1 DEF Stranded
  <2>3. handler' = handler \/ \E h : Goto(c, h)
    BY <1>3 DEF DismissGoal
  <2> QED
    BY <1>3, <1>k, <2>1, <2>2, <2>3 DEF DismissGoal
<1> QED
  BY <1>1, <1>2, <1>3 DEF Request

LEMMA RunnerStrandsNone ==
    ASSUME Shapes, RunnerStep, NEW id \in Ids, Stranded(id)'
    PROVE  Stranded(id)
<1>0. TrackerTypeOK /\ RunnerOK /\ QueueOK
  BY DEF Shapes
<1>1. CASE RunNext
  <2>1. PICK i \in DOMAIN queue : /\ queue' = RemoveAt(queue, i)
                                  /\ runner' = [Polling EXCEPT !.pc = "run", !.ptr = queue[i]]
    BY <1>1 DEF RunNext, PopNext
  <2>2. /\ DOMAIN queue' = 1 .. Len(queue) - 1 /\ DOMAIN queue = 1 .. Len(queue)
        /\ Len(queue) \in Nat /\ i \in 1 .. Len(queue)
        /\ \A j \in 1 .. Len(queue) - 1 : queue'[j] = queue[IF j < i THEN j ELSE j + 1]
    BY <1>0, <2>1, RemovedAt DEF QueueOK
  <2>3. runner'.pc = "run" /\ runner'.ptr = queue[i] /\ runner.pc = "poll"
    BY <1>1, <2>1 DEF RunNext, Polling
  <2>4. ASSUME NEW p, Queued(p)
        PROVE  Queued(p)' \/ Runs(p[1])'
    <3>1. PICK k \in DOMAIN queue : queue[k] = p
      BY <2>4 DEF Queued
    <3>2. CASE k = i
      BY <2>3, <3>1, <3>2 DEF Runs
    <3>3. CASE k < i
      <4>1. k \in DOMAIN queue' /\ queue'[k] = p
        BY <2>2, <3>1, <3>3
      <4> QED
        BY <4>1 DEF Queued
    <3>4. CASE k > i
      <4>1. k - 1 \in DOMAIN queue' /\ queue'[k - 1] = p
        BY <2>2, <3>1, <3>4
      <4> QED
        BY <4>1 DEF Queued
    <3> QED
      BY <2>2, <3>2, <3>3, <3>4
  <2>5. OnItsWay(id) => OnItsWay(id)'
    BY <1>1 DEF RunNext, OnItsWay
  <2>6. ~Runs(id)
    BY <2>3 DEF Runs
  <2>7. StateOf(id)' = StateOf(id) /\ tracked' = tracked
    BY <1>1, SameStates DEF RunNext
  <2> QED
    BY <2>4, <2>5, <2>6, <2>7, StrandedKept
<1>2. ASSUME NEW ok, NEW out, FinishRun(ok, out)
      PROVE  Stranded(id)
  <2>1. PICK i \in Ids : i = runner.ptr[1]
    BY <1>0, <1>2 DEF FinishRun, RunnerOK, Pointers
  <2>2. PICK s \in GoalStates : s = IF ok THEN "done" ELSE "blocked"
    BY DEF GoalStates
  <2>3. UpdateGoalState(i, s, out) /\ UNCHANGED <<queue, handler>>
    BY <1>2, <2>1, <2>2 DEF FinishRun
  <2>4. StateOf(id)' = (IF Moves(i, s) /\ id = i THEN s ELSE StateOf(id)) /\ tracked' = tracked
    BY <1>0, <2>3, UpdateEffect
  <2>5. StateOf(i) = "active" => Moves(i, s)
    BY <2>2 DEF Moves, StateOf, IsValidTransition
  <2>6. id # i
    BY <2>2, <2>4, <2>5 DEF Stranded
  <2>7. ~Runs(id)
    BY <2>1, <2>6 DEF Runs
  <2>8. /\ \A p : Queued(p) => Queued(p)'
        /\ OnItsWay(id) => OnItsWay(id)'
    BY <2>3 DEF Queued, OnItsWay
  <2> QED
    BY <2>4, <2>6, <2>7, <2>8, StrandedKept
<1>3. ASSUME NEW out, RecordResult(out)
      PROVE  Stranded(id)
  <2>1. ~Runs(id)
    BY <1>3 DEF RecordResult, Runs
  <2>2. /\ \A p : Queued(p) => Queued(p)'
        /\ OnItsWay(id) => OnItsWay(id)'
    BY <1>3 DEF RecordResult, Queued, OnItsWay
  <2>3. StateOf(id)' = StateOf(id) /\ tracked' = tracked
    BY <1>3, SameStates DEF RecordResult
  <2> QED
    BY <2>1, <2>2, <2>3, StrandedKept
<1> QED
  BY <1>1, <1>2, <1>3 DEF RunnerStep

LEMMA ServingStrandsNone ==
    ASSUME WriteOutcomes = {"written"}, IInv, HandlersFit, Serving, NEW id \in Ids, Stranded(id)'
    PROVE  Stranded(id)
<1>1. Shapes /\ KnownIds
  BY DEF IInv, TypeOK
<1> QED
  BY <1>1, HandlerStrandsNone, RequestStrandsNone, RunnerStrandsNone DEF Serving

\* While one request is at work at a time, no write fails and the process lives, a goal
\* the tracker shows as active is in the queue, being run, or on its way there: no order
\* of the run loop's steps and a request's loses one, and every step of a refinement
\* that activates a goal has its Enqueue ahead (processor.go QueueGoal, RunNext;
\* fulfillment.go RefineGoal; server.go).
THEOREM ActiveGoalsAreScheduled ==
    ASSUME OneClient, WriteOutcomes = {"written"}
    PROVE  ServingSpec => []ActiveIsScheduled
<1> DEFINE NoneStranded == \A id \in Ids : ~Stranded(id)
<1>1. Init => IInv /\ HandlersFit /\ NoneStranded
  <2>1. Init => \A id \in Ids : StateOf(id) = "none"
    BY DEF Init, TrackerInit, StateOf, IsTracked
  <2> QED
    BY <2>1, IInvInit, FitsInit DEF Stranded
<1>2. IInv /\ HandlersFit /\ NoneStranded /\ [Serving]_vars => (IInv /\ HandlersFit /\ NoneStranded)'
  <2> SUFFICES ASSUME IInv, HandlersFit, NoneStranded, [Serving]_vars
               PROVE  IInv' /\ HandlersFit' /\ NoneStranded'
    OBVIOUS
  <2>1. [Next]_vars
    BY DEF Next
  <2>2. IInv' /\ HandlersFit'
    BY <2>1, IInvNext, FitsNext, OneClientAlone
  <2>3. CASE UNCHANGED vars
    <3>1. \A id : StateOf(id)' = StateOf(id)
      BY <2>3, SameStates DEF vars
    <3>2. UNCHANGED <<queue, runner, handler, tracked>>
      BY <2>3 DEF vars
    <3> QED
      BY <2>2, <3>1, <3>2 DEF Stranded, Queued, Runs, OnItsWay, TrackedPtr
  <2> QED
    BY <2>2, <2>3, ServingStrandsNone
<1>3. NoneStranded => ActiveIsScheduled
  BY DEF Stranded, ActiveIsScheduled, Queued, Runs
<1> QED
  BY <1>1, <1>2, <1>3, PTL DEF ServingSpec

-----------------------------------------------------------------------------
(* Restarts.                                                                *)

OneBusy == \A c, d \in Clients : handler[c] # Idle /\ handler[d] # Idle => c = d

LEMMA AtMostOne ==
    ASSUME NEW S, IsFiniteSet(S), ~(Cardinality(S) > 1), NEW x \in S, NEW y \in S
    PROVE  x = y
<1> SUFFICES ASSUME x # y PROVE FALSE
  OBVIOUS
<1>1. IsFiniteSet(S \ {x}) /\ Cardinality(S \ {x}) = Cardinality(S) - 1
  BY FS_RemoveElement
<1>2. /\ IsFiniteSet((S \ {x}) \ {y})
      /\ Cardinality((S \ {x}) \ {y}) = Cardinality(S \ {x}) - 1
  BY <1>1, FS_RemoveElement
<1>3. Cardinality(S) \in Nat /\ Cardinality((S \ {x}) \ {y}) \in Nat
  BY <1>2, FS_CardinalityType
<1> QED
  BY <1>1, <1>2, <1>3

\* Not crossed is one request at a time.
LEMMA UncrossedIsOne ==
    ASSUME NEW h, ~(Cardinality({c \in Clients : h[c] # Idle}) > 1)
    PROVE  \A c, d \in Clients : h[c] # Idle /\ h[d] # Idle => c = d
<1> DEFINE S == {c \in Clients : h[c] # Idle}
<1>1. IsFiniteSet(S)
  BY ServerAssumption, FS_Subset
<1>2. ~(Cardinality(S) > 1)
  OBVIOUS
<1>3. \A c, d \in S : c = d
  <2> HIDE DEF S
  <2> QED
    BY <1>1, <1>2, AtMostOne
<1> QED
  BY <1>3

\* A step that leaves one request at work found no other.
LEMMA OneBusyAlone ==
    ASSUME WriteOutcomes = {"written"}, Shapes, OneBusy, OneBusy'
    PROVE  OneAtATime
<1>0. HandlersOK /\ \A d \in Clients : Busy(d) => handler[d] # Idle
  BY IdleShape DEF Shapes, Busy
<1>1. ASSUME NEW c \in Clients, HandlerStep(c)
      PROVE  Alone(c)
  <2>1. Busy(c)
    BY <1>1 DEF HandlerStep, RefineFails, RefineAsks, RefineAccepts, RefineRewrites, RefineLeaves,
       QueueCheck, QueueEnqueue, FoldAnswer, TrackRefined, QueueActivate, TrackAnswer, DropResult,
       Busy
  <2> QED
    BY <1>0, <2>1 DEF OneBusy, Alone
<1>2. ASSUME NEW c \in Clients, Asked(c)
      PROVE  Alone(c)
  <2>1. PICK pc, p : pc \in {"queue", "fold", "dropResult"} /\ handler[c] = Idle /\ Goto(c, At(pc, p))
    BY <1>2 DEF Asked, RunGoal, AnswerGoal, DismissGoal
  <2>2. At(pc, p).pc = pc
    BY DEF At, Idle
  <2>3. handler'[c] # Idle
    BY <1>0, <2>1, <2>2, IdleShape DEF Goto, HandlersOK
  <2>4. \A d \in Clients \ {c} : handler'[d] = handler[d]
    BY <2>1 DEF Goto, HandlersOK, Shapes
  <2>5. ~Busy(c)
    BY <2>1, IdleShape DEF Busy
  <2> QED
    BY <1>0, <2>3, <2>4, <2>5 DEF OneBusy, Alone
<1> QED
  BY <1>1, <1>2 DEF OneAtATime

Uncrossed ==
    up /\ ~crossed => OneBusy /\ HandlersFit /\ Active \subseteq Scheduled \cup inherited

LEMMA UncrossedNext ==
    ASSUME WriteOutcomes = {"written"}, IInv, Uncrossed, RestartNext
    PROVE  Uncrossed'
<1>0. Shapes /\ DownIsEmpty
  BY DEF IInv, TypeOK
<1> SUFFICES ASSUME up', ~crossed'
             PROVE  OneBusy' /\ HandlersFit' /\ Active' \subseteq Scheduled' \cup inherited'
  BY DEF Uncrossed
<1>1. inherited' = (IF up THEN inherited ELSE Active') \cap (Active \ Scheduled)'
  BY DEF RestartNext, Serves, Ends, Starts, HistoryNext
<1>2. CASE Serves
  <2>1. up
    BY <1>2 DEF Serves, Serving
  <2>2. ~crossed /\ ~(Cardinality({c \in Clients : handler'[c] # Idle}) > 1)
    BY <1>2, <2>1 DEF Serves, HistoryNext
  <2>3. OneBusy'
    BY <2>2, UncrossedIsOne DEF OneBusy
  <2>4. OneBusy /\ HandlersFit /\ Active \subseteq Scheduled \cup inherited
    BY <2>1, <2>2 DEF Uncrossed
  <2>5. HandlersFit'
    BY <1>0, <1>2, <2>3, <2>4, OneBusyAlone, FitsServing DEF Serves
  <2>6. ASSUME NEW id \in Active', id \notin Scheduled'
        PROVE  id \in inherited'
    <3>1. id \in Ids /\ Stranded(id)'
      BY <2>6 DEF Active, Scheduled, Stranded, Queued, Runs
    <3>2. Stranded(id)
      BY <1>2, <2>4, <3>1, ServingStrandsNone DEF Serves
    <3>3. id \in inherited
      BY <2>4, <3>1, <3>2, StrandedIs
    <3> QED
      BY <1>1, <2>1, <2>6, <3>3
  <2> QED
    BY <2>3, <2>5, <2>6
<1>3. CASE Starts
  <2>1. \A c \in Clients : handler'[c] = Idle
    BY <1>0, <1>3 DEF Starts, Restart, DownIsEmpty
  <2>2. OneBusy' /\ HandlersFit'
    BY <2>1, IdleShape DEF OneBusy, HandlersFit, Fits
  <2>3. ~up
    BY <1>3 DEF Starts, Restart
  <2> QED
    BY <1>1, <2>2, <2>3
<1>4. CASE Ends
  BY <1>4 DEF Ends, Crash
<1> QED
  BY <1>2, <1>3, <1>4 DEF RestartNext

\* A restart is all that takes an active goal out of the queue for good: while requests
\* come one at a time and no write fails, every active goal is scheduled or was found
\* active by the last start and left alone since, for any number of restarts
\* (prioritizer.go keeps the queue in memory only; tracker.go NewTracker re-reads the
\* states; nothing enqueues what it finds).
THEOREM RestartsStrand ==
    ASSUME WriteOutcomes = {"written"}
    PROVE  RestartSpec => []OnlyRestartsStrand
<1>1. Init /\ HistoryInit => IInv /\ Uncrossed
  <2> SUFFICES ASSUME Init PROVE Uncrossed
    BY IInvInit
  <2>1. \A id \in Ids : StateOf(id) = "none"
    BY DEF Init, TrackerInit, StateOf, IsTracked
  <2>2. OneBusy
    BY DEF Init, OneBusy
  <2> QED
    BY <2>1, <2>2, FitsInit DEF Uncrossed, Active
<1>2. IInv /\ Uncrossed /\ [RestartNext]_<<vars, historyVars>> => (IInv /\ Uncrossed)'
  <2> SUFFICES ASSUME IInv, Uncrossed, [RestartNext]_<<vars, historyVars>>
               PROVE  IInv' /\ Uncrossed'
    OBVIOUS
  <2>1. IInv'
    <3>1. [Next]_vars
      BY DEF RestartNext, Serves, Ends, Starts, Next
    <3> QED
      BY <3>1, IInvNext
  <2>2. CASE UNCHANGED <<vars, historyVars>>
    <3>1. HandlersFit => HandlersFit'
      BY <2>2 DEF vars, HandlersFit, Fits, IsActive
    <3>2. Active' = Active /\ Scheduled' = Scheduled /\ OneBusy' = OneBusy
      BY <2>2 DEF vars, Active, Scheduled, OneBusy, StateOf, IsTracked, TrackedPtr, OnItsWay
    <3>3. UNCHANGED <<up, crossed, inherited>>
      BY <2>2 DEF vars, historyVars
    <3> QED
      BY <2>1, <3>1, <3>2, <3>3 DEF Uncrossed
  <2> QED
    BY <2>1, <2>2, UncrossedNext
<1>3. Uncrossed => OnlyRestartsStrand
  BY DEF Uncrossed, OnlyRestartsStrand
<1> QED
  BY <1>1, <1>2, <1>3, PTL DEF RestartSpec

-----------------------------------------------------------------------------
(* GoalServer implements GoalBoard for one request at a time, a disk that   *)
(* works and a process that lives: every step of a handler or of the run    *)
(* loop is the step of one card, or none.                                   *)
(*                                                                         *)
(* What the board shows, told by the one request at work.                   *)

ShownBy(h, id) ==
    IF h.pc = "track" /\ h.ref[1] = id THEN heap[h.ref]
    ELSE IF IsTracked(id) THEN heap[TrackedPtr(id)] ELSE NoGoal

PhaseBy(h, id) ==
    CASE h.ptr[1] = id /\ h.pc \in {"refine", "trackAnswer"} -> "refining"
      [] h.ptr[1] = id /\ (\/ h.pc \in {"queue", "activate", "enqueue"}
                           \/ h.pc = "track" /\ ~h.asks)     -> "queueing"
      [] OTHER                                               -> "free"

LEMMA ViewAlone ==
    \A c \in Clients : HandlersOK /\ Alone(c) =>
        \A id \in Ids : /\ Shown(id) = ShownBy(handler[c], id)
                        /\ PhaseOf(id) = PhaseBy(handler[c], id)
<1> SUFFICES ASSUME NEW c \in Clients, HandlersOK, Alone(c), NEW id \in Ids
             PROVE  /\ Shown(id) = ShownBy(handler[c], id)
                    /\ PhaseOf(id) = PhaseBy(handler[c], id)
  OBVIOUS
<1>1. /\ \A d \in Clients : handler[d].pc # "idle" => d = c
      /\ handler[c].pc = "track" => handler[c].ref[1] = handler[c].ptr[1]
  BY DEF Alone, Busy, HandlersOK, HandlerOK
<1>2. Refining(id) = IF handler[c].pc = "track" /\ handler[c].ref[1] = id THEN {c} ELSE {}
  BY <1>1 DEF Refining
<1>3. Shown(id) = ShownBy(handler[c], id)
  BY <1>2 DEF Shown, ShownBy
<1>4. \A pcs : (\E d \in Clients : handler[d].ptr[1] = id /\ handler[d].pc \in pcs \ {"idle"}) <=>
                 handler[c].ptr[1] = id /\ handler[c].pc \in pcs \ {"idle"}
  BY <1>1
<1>5. PhaseOf(id) = PhaseBy(handler[c], id)
  BY <1>1, <1>2, <1>4 DEF PhaseOf, PhaseBy
<1> QED
  BY <1>3, <1>5

LEMMA ViewAlonePrimed ==
    (\A c \in Clients : HandlersOK /\ Alone(c) =>
        \A id \in Ids : /\ Shown(id) = ShownBy(handler[c], id)
                        /\ PhaseOf(id) = PhaseBy(handler[c], id))'
BY ViewAlone, PTL

\* Only c's request is at work, before and after the step.
OnlyRequest(c) ==
    /\ Alone(c) /\ HandlersOK /\ HandlersOK'
    /\ \A d \in Clients \ {c} : handler'[d] = handler[d]

\* The card k becomes what is shown, and no other card changes.
LEMMA Becomes ==
    ASSUME NEW k \in Ids, NEW s, NEW q, NEW ph,
           Shown(k)'.state = s, Shown(k)'.question = q, PhaseOf(k)' = ph,
           \A id \in Ids \ {k} : Shown(id)' = Shown(id) /\ PhaseOf(id)' = PhaseOf(id)
    PROVE  Board!Become(k, s, q, ph)
BY DEF Board!Become

LEMMA Stays ==
    ASSUME \A id \in Ids : Shown(id)' = Shown(id) /\ PhaseOf(id)' = PhaseOf(id)
    PROVE  UNCHANGED Board!boardVars
BY DEF Board!boardVars

LEMMA ViewStep ==
    ASSUME NEW c \in Clients, OnlyRequest(c), NEW h, NEW n, h = handler[c], n = handler'[c],
           NEW id \in Ids
    PROVE  /\ Shown(id) = ShownBy(h, id) /\ PhaseOf(id) = PhaseBy(h, id)
           /\ Shown(id)' = ShownBy(n, id)' /\ PhaseOf(id)' = PhaseBy(n, id)
<1>1. Alone(c)'
  BY DEF OnlyRequest, Alone, Busy
<1>2. Shown(id) = ShownBy(h, id) /\ PhaseOf(id) = PhaseBy(h, id)
  BY ViewAlone DEF OnlyRequest
<1>3. Shown(id)' = ShownBy(handler[c], id)' /\ PhaseOf(id)' = PhaseBy(handler[c], id)'
  BY <1>1, ViewAlonePrimed DEF OnlyRequest
<1>4. ShownBy(handler[c], id)' = ShownBy(n, id)' /\ PhaseBy(handler[c], id)' = PhaseBy(n, id)
  BY DEF ShownBy, PhaseBy
<1> QED
  BY <1>2, <1>3, <1>4

\* A request about p shows p.
LEMMA ShownIsHeld ==
    ASSUME NEW h, NEW p \in Pointers, h.pc # "track", tracked[p[1]] = p[2]
    PROVE  ShownBy(h, p[1]) = heap[p]
<1>1. p = <<p[1], p[2]>> /\ p[2] # 0
  BY DEF Pointers, Versions
<1> QED
  BY <1>1 DEF ShownBy, IsTracked, TrackedPtr

\* A step of a request from h to n that touches no goal but k.
About(k, h, n) ==
    /\ h.ptr[1] = k \/ h.pc = "idle"
    /\ n.ptr[1] = k \/ n.pc = "idle"
    /\ h.pc = "track" => h.ref[1] = k
    /\ n.pc = "track" => n.ref[1] = k
    /\ \A id \in Ids : id # k => tracked'[id] = tracked[id]
    /\ \A p \in Pointers : p[1] # k => heap'[p] = heap[p]

LEMMA ShownElsewhere ==
    ASSUME TrackerTypeOK, NEW k \in Ids, NEW h, NEW n,
           About(k, h, n)
    PROVE  \A id \in Ids : id # k => /\ ShownBy(n, id)' = ShownBy(h, id)
                                     /\ PhaseBy(n, id) = PhaseBy(h, id)
<1> SUFFICES ASSUME NEW id \in Ids, id # k
             PROVE  /\ ShownBy(n, id)' = ShownBy(h, id)
                    /\ PhaseBy(n, id) = PhaseBy(h, id)
  OBVIOUS
<1>1. IsTracked(id) => TrackedPtr(id) \in Pointers /\ TrackedPtr(id)[1] # k
  BY DEF IsTracked, TrackedPtr, TrackerTypeOK, Pointers, Versions
<1>2. ShownBy(n, id)' = ShownBy(h, id)
  BY <1>1 DEF ShownBy, IsTracked, TrackedPtr, About
<1>3. PhaseBy(n, id) = "free" /\ PhaseBy(h, id) = "free"
  BY DEF PhaseBy, About
<1> QED
  BY <1>2, <1>3

\* A request's step about the goal k.
LEMMA CardStep ==
    ASSUME TrackerTypeOK, NEW c \in Clients, OnlyRequest(c), NEW k \in Ids,
           NEW h, NEW n, h = handler[c], n = handler'[c],
           About(k, h, n)
    PROVE  /\ \A s, q, ph : /\ ShownBy(n, k)'.state = s /\ ShownBy(n, k)'.question = q
                            /\ PhaseBy(n, k) = ph
                            => Board!Become(k, s, q, ph)
           /\ ShownBy(n, k)' = ShownBy(h, k) /\ PhaseBy(n, k) = PhaseBy(h, k)
              => UNCHANGED Board!boardVars
           /\ Shown(k) = ShownBy(h, k) /\ PhaseOf(k) = PhaseBy(h, k)
<1>1. /\ Shown(k) = ShownBy(h, k) /\ PhaseOf(k) = PhaseBy(h, k)
      /\ Shown(k)' = ShownBy(n, k)' /\ PhaseOf(k)' = PhaseBy(n, k)
  BY ViewStep
<1>e. \A id \in Ids : id # k => /\ ShownBy(n, id)' = ShownBy(h, id)
                                /\ PhaseBy(n, id) = PhaseBy(h, id)
  BY ShownElsewhere
<1>2. \A id \in Ids \ {k} : Shown(id)' = Shown(id) /\ PhaseOf(id)' = PhaseOf(id)
  <2> TAKE id \in Ids \ {k}
  <2>1. /\ Shown(id) = ShownBy(h, id) /\ PhaseOf(id) = PhaseBy(h, id)
        /\ Shown(id)' = ShownBy(n, id)' /\ PhaseOf(id)' = PhaseBy(n, id)
    BY ViewStep
  <2>2. /\ ShownBy(n, id)' = ShownBy(h, id)
        /\ PhaseBy(n, id) = PhaseBy(h, id)
    BY <1>e
  <2> QED
    BY <2>1, <2>2
<1>3. ASSUME NEW s, NEW q, NEW ph,
             ShownBy(n, k)'.state = s, ShownBy(n, k)'.question = q, PhaseBy(n, k) = ph
      PROVE  Board!Become(k, s, q, ph)
  BY <1>1, <1>2, <1>3, Becomes
<1>4. ASSUME ShownBy(n, k)' = ShownBy(h, k), PhaseBy(n, k) = PhaseBy(h, k)
      PROVE  UNCHANGED Board!boardVars
  BY <1>1, <1>2, <1>4, Stays
<1> QED
  BY <1>1, <1>3, <1>4

-----------------------------------------------------------------------------
(* The steps of a request.                                                  *)

LEMMA ShownThen ==
    ASSUME NEW n, NEW p \in Pointers, n.pc # "track", tracked'[p[1]] = p[2]
    PROVE  ShownBy(n, p[1])' = heap'[p]
<1>1. p = <<p[1], p[2]>> /\ p[2] # 0
  BY DEF Pointers, Versions
<1> QED
  BY <1>1 DEF ShownBy, IsTracked, TrackedPtr

\* What is moved to is all there is to know of a request about k.
LEMMA MoveIsAbout ==
    ASSUME NEW k \in Ids, NEW h, NEW n, h.pc # "track" \/ h.ref[1] = k,
           n.pc # "track" \/ n.ref[1] = k,
           h.pc = "idle" \/ h.ptr[1] = k, n.pc = "idle" \/ n.ptr[1] = k,
           \A id \in Ids : id # k => tracked'[id] = tracked[id],
           \A p \in Pointers : p[1] # k => heap'[p] = heap[p]
    PROVE  About(k, h, n)
BY DEF About

LEMMA OneIsOnly ==
    ASSUME OneClient, HandlersOK, HandlersOK', NEW c \in Clients
    PROVE  OnlyRequest(c)
BY DEF OneClient, OnlyRequest, Alone

LEMMA IdleIsFree ==
    ASSUME NEW k \in Ids
    PROVE  Idle.pc = "idle" /\ PhaseBy(Idle, k) = "free"
BY DEF Idle, PhaseBy, Nil, Ids

LEMMA AtPhase ==
    ASSUME NEW pc \in HandlerPcs \ {"idle", "track"}, NEW p \in Pointers
    PROVE  PhaseBy(At(pc, p), p[1]) = IF pc \in {"refine", "trackAnswer"} THEN "refining"
                                      ELSE IF pc \in {"queue", "activate", "enqueue"} THEN "queueing"
                                      ELSE "free"
<1>1. At(pc, p).pc = pc /\ At(pc, p).ptr = p
  BY AtShape
<1> QED
  BY <1>1 DEF PhaseBy

BoardStep == UNCHANGED Board!boardVars \/ \E k \in Ids : Board!CardNext(k)

\* Until a request uses the answer up, the goal has its question.
FoldPending == \A c \in Clients : handler[c].pc = "fold" => heap[handler[c].ptr].question

LEMMA BoardRefines ==
    ASSUME OneClient, Shapes, Shapes', HandlersFit, NoDanglingPointer,
           NEW c \in Clients,
           RefineFails(c) \/ RefineAsks(c) \/ RefineAccepts(c) \/ RefineRewrites(c)
    PROVE  BoardStep
<1>0. /\ TrackerTypeOK /\ HandlersOK /\ OnlyRequest(c)
      /\ handler \in [Clients -> Handler] /\ handler[c].pc = "refine"
  BY OneIsOnly DEF Shapes, HandlersOK, RefineFails, RefineAsks, RefineAccepts, RefineRewrites,
                    RefineLeaves
<1>1. PICK h : h = handler[c]
  OBVIOUS
<1>2. PICK p \in Pointers : p = h.ptr
  BY <1>0, <1>1 DEF HandlersOK, HandlerOK
<1>3. PICK k \in Ids : k = p[1]
  BY DEF Pointers
<1>4. tracked[p[1]] = p[2] /\ ShownBy(h, k) = heap[p] /\ PhaseBy(h, k) = "refining"
  <2>1. tracked[p[1]] = p[2]
    BY <1>0, <1>1, <1>2 DEF HandlersFit, Fits
  <2> QED
    BY <2>1, <1>0, <1>1, <1>2, <1>3, ShownIsHeld DEF PhaseBy
<1>5. CASE RefineFails(c)
  <2>1. PICK n : n = At("queue", p)
    OBVIOUS
  <2>2. n.pc = "queue" /\ n.ptr = p /\ PhaseBy(n, k) = "queueing"
    BY <2>1, <1>3, AtShape, AtPhase DEF HandlerPcs
  <2>3. handler'[c] = n /\ UNCHANGED <<heap, tracked>>
    BY <1>0, <1>1, <1>2, <1>5, <2>1 DEF RefineFails, Goto
  <2>4. About(k, h, n)
    BY <1>0, <1>1, <1>2, <1>3, <2>2, <2>3, MoveIsAbout
  <2>5. ShownBy(n, k)' = heap[p]
    BY <1>3, <1>4, <2>2, <2>3, ShownThen
  <2>6. /\ Board!Become(k, Shown(k).state, Shown(k).question, "queueing")
        /\ PhaseOf(k) = "refining"
    BY <1>0, <1>1, <1>4, <2>2, <2>3, <2>4, <2>5, CardStep
  <2>7. Board!GiveUp(k)
    BY <2>6 DEF Board!GiveUp
  <2> QED
    BY <2>7 DEF BoardStep, Board!CardNext
<1>6. ASSUME NEW r \in Pointers, NEW s, NEW q, NEW asks \in BOOLEAN,
             RefineLeaves(c, r, [state |-> s, question |-> q], asks), r[1] = k
      PROVE  /\ PhaseOf(k) = "refining"
             /\ Board!Become(k, s, q, IF asks THEN "free" ELSE "queueing")
  <2>g. PICK g : g = [state |-> s, question |-> q]
    OBVIOUS
  <2>1. PICK n : n = Tracking(p, r, asks)
    OBVIOUS
  <2>2. n.pc = "track" /\ n.ptr = p /\ n.ref = r /\ n.asks = asks
    BY <2>1 DEF Tracking, At, Idle
  <2>3. /\ handler'[c] = n /\ UNCHANGED tracked
        /\ \A d \in Pointers : heap'[d] = IF d = r THEN g ELSE heap[d]
    BY <1>0, <1>1, <1>2, <1>6, <2>g, <2>1 DEF RefineLeaves, Goto, TrackerTypeOK
  <2>4. About(k, h, n)
    BY <1>0, <1>1, <1>2, <1>3, <1>6, <2>2, <2>3, MoveIsAbout
  <2>5. ShownBy(n, k)' = g
    BY <1>6, <2>2, <2>3 DEF ShownBy
  <2>6. PhaseBy(n, k) = IF asks THEN "free" ELSE "queueing"
    BY <1>3, <2>2 DEF PhaseBy
  <2>7. g.state = s /\ g.question = q
    BY <2>g
  <2> QED
    BY <1>0, <1>1, <1>4, <2>3, <2>4, <2>5, <2>6, <2>7, CardStep
<1>7. CASE RefineAsks(c)
  <2>1. PICK q \in BOOLEAN : RefineLeaves(c, p, [state |-> "refining", question |-> q], TRUE)
    BY <1>1, <1>2, <1>7 DEF RefineAsks
  <2>2. PhaseOf(k) = "refining" /\ Board!Become(k, "refining", q, "free")
    BY <1>3, <1>6, <2>1
  <2>3. Board!Ask(k)
    BY <2>2 DEF Board!Ask
  <2> QED
    BY <2>3 DEF BoardStep, Board!CardNext
<1>8. CASE RefineAccepts(c) \/ RefineRewrites(c)
  <2>1. PICK r \in Pointers : /\ RefineLeaves(c, r, [state |-> "active", question |-> FALSE], FALSE)
                              /\ r[1] = k
    <3>1. CASE RefineAccepts(c)
      BY <1>1, <1>2, <1>3, <3>1 DEF RefineAccepts
    <3>2. CASE RefineRewrites(c)
      <4>1. PICK v \in Versions :
               RefineLeaves(c, <<k, v>>, [state |-> "active", question |-> FALSE], FALSE)
        BY <1>1, <1>2, <1>3, <3>2 DEF RefineRewrites
      <4>2. <<k, v>> \in Pointers /\ <<k, v>>[1] = k
        BY DEF Pointers
      <4> QED
        BY <4>1, <4>2
    <3> QED
      BY <1>8, <3>1, <3>2
  <2>2. PhaseOf(k) = "refining" /\ Board!Become(k, "active", FALSE, "queueing")
    BY <1>6, <2>1
  <2>3. Board!Accept(k)
    BY <2>2 DEF Board!Accept
  <2> QED
    BY <2>3 DEF BoardStep, Board!CardNext
<1> QED
  BY <1>5, <1>7, <1>8

\* A request at h, in no refinement about to be tracked, that moves to n with the struct
\* it holds, shows that struct before and after.
LEMMA HeldShows ==
    ASSUME Shapes, NEW c \in Clients, OnlyRequest(c), NEW h, h = handler[c],
           NEW p \in Pointers, p = h.ptr, h.pc # "track", tracked[p[1]] = p[2],
           NEW n, Goto(c, n), n.pc = "idle" \/ n.ptr = p, n.pc # "track",
           tracked'[p[1]] = p[2], \A id \in Ids : id # p[1] => tracked'[id] = tracked[id],
           \A q \in Pointers : q # p => heap'[q] = heap[q]
    PROVE  /\ Shown(p[1]) = heap[p] /\ PhaseOf(p[1]) = PhaseBy(h, p[1])
           /\ Board!Become(p[1], heap'[p].state, heap'[p].question, PhaseBy(n, p[1]))
           /\ heap'[p] = heap[p] /\ PhaseBy(n, p[1]) = PhaseBy(h, p[1])
              => UNCHANGED Board!boardVars
<1>0. TrackerTypeOK /\ handler'[c] = n
  BY DEF Shapes, Goto, HandlersOK
<1>1. PICK k \in Ids : k = p[1]
  BY DEF Pointers
<1>2. About(k, h, n)
  BY <1>1, MoveIsAbout
<1>3. ShownBy(h, k) = heap[p]
  BY <1>1, ShownIsHeld
<1>4. ShownBy(n, k)' = heap'[p]
  BY <1>1, ShownThen
<1> QED
  BY <1>0, <1>1, <1>2, <1>3, <1>4, CardStep

LEMMA BoardQueues ==
    ASSUME OneClient, WriteOutcomes = {"written"}, Shapes, Shapes', HandlersFit, NoDanglingPointer,
           NEW c \in Clients, NEW out,
           QueueCheck(c) \/ QueueActivate(c, out) \/ QueueEnqueue(c)
    PROVE  BoardStep
<1>0. /\ TrackerTypeOK /\ HandlersOK /\ OnlyRequest(c)
      /\ handler[c].pc \in {"queue", "activate", "enqueue"}
  BY OneIsOnly DEF Shapes, QueueCheck, QueueActivate, QueueEnqueue
<1>1. PICK h : h = handler[c]
  OBVIOUS
<1>2. PICK p \in Pointers : p = h.ptr
  BY <1>0, <1>1 DEF HandlersOK, HandlerOK
<1>3. PICK k \in Ids : k = p[1]
  BY DEF Pointers
<1>4. tracked[p[1]] = p[2] /\ PhaseBy(h, k) = "queueing" /\ h.pc # "track"
  <2>1. tracked[p[1]] = p[2]
    BY <1>0, <1>1, <1>2 DEF HandlersFit, Fits
  <2> QED
    BY <2>1, <1>0, <1>1, <1>2, <1>3 DEF PhaseBy
<1>5. CASE QueueCheck(c)
  <2>1. PICK pc \in {"enqueue", "activate"} : Goto(c, At(pc, p))
    BY <1>1, <1>2, <1>5 DEF QueueCheck
  <2>2. PICK n : n = At(pc, p)
    OBVIOUS
  <2>3. n.pc # "track" /\ n.ptr = p /\ PhaseBy(n, k) = "queueing"
    BY <2>2, <1>3, AtShape, AtPhase DEF HandlerPcs
  <2>4. UNCHANGED <<heap, tracked>>
    BY <1>5 DEF QueueCheck
  <2>5. UNCHANGED Board!boardVars
    BY <1>0, <1>1, <1>2, <1>3, <1>4, <2>1, <2>2, <2>3, <2>4, HeldShows
  <2> QED
    BY <2>5 DEF BoardStep
<1>6. CASE QueueActivate(c, out)
  <2>1. PICK n : n = At("enqueue", p)
    OBVIOUS
  <2>2. n.pc # "track" /\ n.ptr = p /\ PhaseBy(n, k) = "queueing"
    BY <2>1, <1>3, AtShape, AtPhase DEF HandlerPcs
  <2>3. Goto(c, n) /\ UpdateGoalState(k, "active", out) /\ "active" \in GoalStates
    BY <1>1, <1>2, <1>3, <1>6, <2>1 DEF QueueActivate, GoalStates
  <2>4. p = TrackedPtr(k) /\ IsTracked(k)
    BY <1>3, <1>4 DEF TrackedPtr, IsTracked, Pointers, Versions
  <2>5. /\ tracked' = tracked
        /\ \A q \in Pointers : q # p => heap'[q] = heap[q]
        /\ heap'[p].question = heap[p].question
        /\ Moves(k, "active") => heap'[p].state = "active"
        /\ ~Moves(k, "active") => heap'[p] = heap[p]
    <3>1. \A q \in Pointers : q # p => heap'[q] = heap[q]
      BY <1>0, <2>3, <2>4 DEF UpdateGoalState, trackerVars, TrackerTypeOK
    <3>2. ~Moves(k, "active") => heap'[p] = heap[p]
      BY <2>3 DEF UpdateGoalState, trackerVars, Moves
    <3> QED
      BY <1>0, <2>3, <2>4, <3>1, <3>2, UpdateEffect
  <2>6. /\ Shown(k) = heap[p] /\ PhaseOf(k) = "queueing"
        /\ Board!Become(k, heap'[p].state, heap'[p].question, "queueing")
        /\ heap'[p] = heap[p] => UNCHANGED Board!boardVars
    BY <1>0, <1>1, <1>2, <1>3, <1>4, <2>2, <2>3, <2>5, HeldShows
  <2>7. CASE Moves(k, "active")
    <3>1. heap[p].state \in {"refining", "blocked"}
      BY <2>4, <2>7 DEF Moves, IsValidTransition, StateOf
    <3>2. Board!Activate(k)
      BY <2>5, <2>6, <2>7, <3>1 DEF Board!Activate
    <3> QED
      BY <3>2 DEF BoardStep, Board!CardNext
  <2> QED
    BY <2>5, <2>6, <2>7 DEF BoardStep
<1>7. CASE QueueEnqueue(c)
  <2>1. Goto(c, Idle) /\ UNCHANGED <<heap, tracked>>
    BY <1>7 DEF QueueEnqueue
  <2>2. /\ Shown(k) = heap[p] /\ PhaseOf(k) = "queueing"
        /\ Board!Become(k, heap[p].state, heap[p].question, "free")
    BY <1>0, <1>1, <1>2, <1>3, <1>4, <2>1, IdleIsFree, HeldShows
  <2>3. Board!Queued(k)
    BY <2>2 DEF Board!Queued
  <2> QED
    BY <2>3 DEF BoardStep, Board!CardNext
<1> QED
  BY <1>5, <1>6, <1>7

LEMMA BoardAnswers ==
    ASSUME OneClient, WriteOutcomes = {"written"}, Shapes, Shapes', HandlersFit, NoDanglingPointer,
           FoldPending, NEW c \in Clients, NEW out \in WriteOutcomes,
           FoldAnswer(c) \/ TrackAnswer(c, out)
    PROVE  BoardStep
<1>0. /\ TrackerTypeOK /\ HandlersOK /\ OnlyRequest(c)
      /\ handler[c].pc \in {"fold", "trackAnswer"}
  BY OneIsOnly DEF Shapes, FoldAnswer, TrackAnswer
<1>1. PICK h : h = handler[c]
  OBVIOUS
<1>2. PICK p \in Pointers : p = h.ptr
  BY <1>0, <1>1 DEF HandlersOK, HandlerOK
<1>3. PICK k \in Ids : k = p[1]
  BY DEF Pointers
<1>4. tracked[p[1]] = p[2] /\ h.pc # "track" /\ heap[p] # NoGoal
  <2>1. tracked[p[1]] = p[2]
    BY <1>0, <1>1, <1>2 DEF HandlersFit, Fits
  <2> QED
    BY <2>1, <1>0, <1>1 DEF NoDanglingPointer, InUse
<1>5. CASE FoldAnswer(c)
  <2>1. PICK n : n = At("trackAnswer", p)
    OBVIOUS
  <2>2. n.pc # "track" /\ n.ptr = p /\ PhaseBy(n, k) = "refining"
    BY <2>1, <1>3, AtShape, AtPhase DEF HandlerPcs
  <2>3. Goto(c, n) /\ UNCHANGED tracked
    BY <1>1, <1>2, <1>5, <2>1 DEF FoldAnswer
  <2>4. PICK g : g = [heap[p] EXCEPT !.question = FALSE]
    OBVIOUS
  <2>5. g.state = heap[p].state /\ g.question = FALSE
    BY <1>0, <2>4, SetQuestion DEF TrackerTypeOK
  <2>6. \A q \in Pointers : heap'[q] = IF q = p THEN g ELSE heap[q]
    BY <1>0, <1>1, <1>2, <1>5, <2>4 DEF FoldAnswer, TrackerTypeOK
  <2>7. PhaseBy(h, k) = "free"
    BY <1>1, <1>5 DEF PhaseBy, FoldAnswer
  <2>8. /\ Shown(k) = heap[p] /\ PhaseOf(k) = "free"
        /\ Board!Become(k, heap[p].state, FALSE, "refining")
    <3>1. /\ \A q \in Pointers : q # p => heap'[q] = heap[q]
          /\ heap'[p].state = heap[p].state /\ heap'[p].question = FALSE
      BY <2>5, <2>6
    <3>2. Board!Become(k, heap'[p].state, heap'[p].question, "refining")
      BY <1>0, <1>1, <1>2, <1>3, <1>4, <2>2, <2>3, <3>1, HeldShows
    <3>3. Shown(k) = heap[p] /\ PhaseOf(k) = "free"
      BY <1>0, <1>1, <1>2, <1>3, <1>4, <2>2, <2>3, <2>7, <3>1, HeldShows
    <3> QED
      BY <3>1, <3>2, <3>3
  <2>9. heap[p].question /\ heap[p].state # "none"
    <3>1. heap[p].question
      BY <1>1, <1>2, <1>5 DEF FoldPending, FoldAnswer
    <3>2. heap[p] \in Goal
      BY <1>0, <1>4 DEF TrackerTypeOK
    <3> QED
      BY <3>1, <3>2 DEF Goal, GoalStates
  <2>10. Board!Answer(k)
    BY <2>8, <2>9 DEF Board!Answer
  <2> QED
    BY <2>10 DEF BoardStep, Board!CardNext
<1>6. CASE TrackAnswer(c, out)
  <2>1. PICK n : n = At("refine", p)
    OBVIOUS
  <2>2. n.pc # "track" /\ n.ptr = p /\ PhaseBy(n, k) = "refining"
    BY <2>1, <1>3, AtShape, AtPhase DEF HandlerPcs
  <2>3. Goto(c, n) /\ UNCHANGED <<heap, tracked>>
    BY <1>0, <1>1, <1>2, <1>4, <1>6, <2>1 DEF TrackAnswer, TrackGoal, TrackerTypeOK, Pointers
  <2>4. PhaseBy(h, k) = "refining"
    BY <1>1, <1>2, <1>3, <1>6 DEF PhaseBy, TrackAnswer
  <2>5. UNCHANGED Board!boardVars
    BY <1>0, <1>1, <1>2, <1>3, <1>4, <2>2, <2>3, <2>4, HeldShows
  <2> QED
    BY <2>5 DEF BoardStep
<1> QED
  BY <1>5, <1>6

LEMMA BoardTracks ==
    ASSUME OneClient, WriteOutcomes = {"written"}, Shapes, Shapes', HandlersFit,
           NEW c \in Clients, NEW out \in WriteOutcomes,
           TrackRefined(c, out) \/ DropResult(c, out)
    PROVE  BoardStep
<1>0. /\ TrackerTypeOK /\ HandlersOK /\ OnlyRequest(c)
      /\ handler[c].pc \in {"track", "dropResult"} /\ Fits(handler[c])
      /\ handler \in [Clients -> Handler]
  BY OneIsOnly DEF Shapes, TrackRefined, DropResult, HandlersFit, HandlersOK
<1>1. PICK h : h = handler[c]
  OBVIOUS
<1>2. PICK p \in Pointers : p = h.ptr
  BY <1>0, <1>1 DEF HandlersOK, HandlerOK
<1>3. PICK k \in Ids : k = p[1]
  BY DEF Pointers
<1>5. CASE TrackRefined(c, out)
  <2>1. h.pc = "track" /\ out = "written"
    BY <1>1, <1>5 DEF TrackRefined
  <2>2. PICK r \in Pointers : r = h.ref /\ r[1] = k
    BY <1>0, <1>1, <1>2, <1>3, <2>1 DEF HandlersOK, HandlerOK
  <2>3. PICK n : /\ n = IF h.asks THEN Idle ELSE At("queue", r)
    OBVIOUS
  <2>4. /\ handler'[c] = n /\ heap' = heap /\ tracked'[k] = r[2]
        /\ \A id \in Ids : id # k => tracked'[id] = tracked[id]
    BY <1>0, <1>1, <1>5, <2>1, <2>2, <2>3 DEF TrackRefined, TrackGoal, TrackerTypeOK, Goto
  <2>5. n.pc # "track" /\ (n.pc = "idle" \/ n.ptr = r)
    BY <2>2, <2>3, AtShape, IdleShape DEF HandlerPcs
  <2>6. h.asks \in BOOLEAN
    BY <1>0, <1>1 DEF Handler
  <2>7. PhaseBy(n, k) = PhaseBy(h, k)
    <3>1. CASE h.asks
      <4>1. PhaseBy(h, k) = "free"
        BY <2>1, <3>1 DEF PhaseBy
      <4> QED
        BY <2>3, <3>1, <4>1, IdleIsFree
    <3>2. CASE ~h.asks
      <4>1. PhaseBy(h, k) = "queueing"
        BY <1>2, <1>3, <2>1, <3>2 DEF PhaseBy
      <4>2. PhaseBy(At("queue", r), k) = "queueing"
        BY <2>2, AtPhase DEF HandlerPcs
      <4> QED
        BY <2>3, <3>2, <4>1, <4>2
    <3> QED
      BY <2>6, <3>1, <3>2
  <2>8. ShownBy(h, k) = heap[r]
    BY <2>1, <2>2 DEF ShownBy
  <2>9. ShownBy(n, k)' = heap[r]
    BY <2>2, <2>4, <2>5, ShownThen
  <2>10. About(k, h, n)
    BY <1>2, <1>3, <2>2, <2>4, <2>5, MoveIsAbout
  <2>11. UNCHANGED Board!boardVars
    BY <1>0, <1>1, <2>4, <2>7, <2>8, <2>9, <2>10, CardStep
  <2> QED
    BY <2>11 DEF BoardStep
<1>6. CASE DropResult(c, out)
  <2>1. h.pc = "dropResult" /\ UNCHANGED <<heap, tracked>> /\ handler'[c] = Idle
    BY <1>0, <1>1, <1>6 DEF DropResult, Goto
  <2>2. PICK n : n = Idle
    OBVIOUS
  <2>3. n.pc = "idle" /\ PhaseBy(n, k) = "free" /\ PhaseBy(h, k) = "free"
    BY <2>1, <2>2, IdleIsFree DEF PhaseBy
  <2>4. ShownBy(h, k) = ShownBy(n, k)'
    BY <2>1, <2>3 DEF ShownBy, IsTracked, TrackedPtr
  <2>5. About(k, h, n)
    BY <1>2, <1>3, <2>1, <2>3, MoveIsAbout
  <2>6. UNCHANGED Board!boardVars
    BY <1>0, <1>1, <2>1, <2>2, <2>3, <2>4, <2>5, CardStep
  <2> QED
    BY <2>6 DEF BoardStep
<1> QED
  BY <1>5, <1>6

\* A request that begins with the goal p, as n.
LEMMA BegunShows ==
    ASSUME Shapes, NEW c \in Clients, OnlyRequest(c), handler[c] = Idle,
           NEW p \in Pointers,
           NEW n, handler'[c] = n, n.pc = "idle" \/ n.ptr = p, n.pc # "track",
           \A id \in Ids : id # p[1] => tracked'[id] = tracked[id],
           \A q \in Pointers : q # p => heap'[q] = heap[q]
    PROVE  /\ PhaseOf(p[1]) = "free"
           /\ tracked[p[1]] = 0 => Shown(p[1]) = NoGoal
           /\ tracked'[p[1]] = 0 => Board!Become(p[1], "none", FALSE, PhaseBy(n, p[1]))
           /\ tracked'[p[1]] = p[2] =>
                 Board!Become(p[1], heap'[p].state, heap'[p].question, PhaseBy(n, p[1]))
<1>0. TrackerTypeOK
  BY DEF Shapes
<1>1. PICK k \in Ids : k = p[1]
  BY DEF Pointers
<1>2. PICK h : h = Idle
  OBVIOUS
<1>3. h.pc = "idle" /\ PhaseBy(h, k) = "free"
  BY <1>2, IdleIsFree
<1>4. About(k, h, n)
  BY <1>1, <1>3, MoveIsAbout
<1>5. tracked[k] = 0 => ShownBy(h, k) = NoGoal
  BY <1>3 DEF ShownBy, IsTracked
<1>7. tracked'[k] = 0 => ShownBy(n, k)' = NoGoal
  BY DEF ShownBy, IsTracked
<1>8. tracked'[k] = p[2] => ShownBy(n, k)' = heap'[p]
  BY <1>1, ShownThen
<1>9. NoGoal.state = "none" /\ NoGoal.question = FALSE
  BY DEF NoGoal
<1>10. /\ \A s, q, ph : /\ ShownBy(n, k)'.state = s /\ ShownBy(n, k)'.question = q
                        /\ PhaseBy(n, k) = ph
                        => Board!Become(k, s, q, ph)
       /\ Shown(k) = ShownBy(h, k) /\ PhaseOf(k) = PhaseBy(h, k)
  BY <1>0, <1>2, <1>4, CardStep
<1>11. tracked'[k] = 0 => Board!Become(k, "none", FALSE, PhaseBy(n, k))
  BY <1>7, <1>9, <1>10
<1>12. tracked'[k] = p[2] => Board!Become(k, heap'[p].state, heap'[p].question, PhaseBy(n, k))
  BY <1>8, <1>10
<1> QED
  BY <1>1, <1>3, <1>5, <1>10, <1>11, <1>12

LEMMA BoardRequests ==
    ASSUME OneClient, WriteOutcomes = {"written"}, Shapes, Shapes', NoDanglingPointer, KnownIds,
           NEW c \in Clients, Request(c)
    PROVE  BoardStep
<1>0. /\ TrackerTypeOK /\ HandlersOK /\ OnlyRequest(c) /\ handler[c] = Idle
      /\ \A q \in Pointers : q = <<q[1], q[2]>> /\ q[1] \in Ids /\ q[2] # 0
  BY OneIsOnly DEF Shapes, Request, SubmitGoal, RunGoal, AnswerGoal, DismissGoal,
                   Pointers, Versions
<1>1. ASSUME NEW draft \in BOOLEAN, NEW out \in WriteOutcomes, SubmitGoal(c, draft, out)
      PROVE  BoardStep
  <2>1. PICK r \in Pointers : r = <<issued + 1, 1>> /\ r[1] = issued + 1 /\ r[2] = 1
    <3>1. <<issued + 1, 1>> \in Pointers
      BY <1>1, GoalsAssumption DEF SubmitGoal, Pointers, Ids, Versions, Shapes, IssuedOK
    <3> QED
      BY <3>1
  <2>2. PICK k \in Ids : k = r[1] /\ k > issued
    BY <2>1, GoalsAssumption DEF Pointers, Shapes, IssuedOK
  <2>3. tracked[k] = 0
    BY <2>2 DEF KnownIds
  <2>4. PICK n : n = IF draft THEN Idle ELSE At("refine", r)
    OBVIOUS
  <2>5. /\ handler'[c] = n /\ tracked'[k] = r[2] /\ heap'[r] = NewGoal
        /\ \A id \in Ids : id # r[1] => tracked'[id] = tracked[id]
        /\ \A q \in Pointers : q # r => heap'[q] = heap[q]
    BY <1>0, <1>1, <2>1, <2>2, <2>4 DEF SubmitGoal, TrackGoal, TrackerTypeOK, Goto, HandlersOK
  <2>6. /\ n.pc = "idle" \/ n.ptr = r
        /\ n.pc # "track" /\ PhaseBy(n, k) \in {"free", "refining"}
    BY <2>2, <2>4, AtShape, AtPhase, IdleIsFree DEF HandlerPcs
  <2>7. PICK ph \in {"free", "refining"} : ph = PhaseBy(n, k)
    BY <2>6
  <2>8. Shown(k) = NoGoal /\ Board!Become(k, heap'[r].state, heap'[r].question, ph)
    BY <1>0, <2>2, <2>3, <2>5, <2>6, <2>7, BegunShows
  <2>9. /\ Shown(k).state = "none"
        /\ Board!Become(k, "refining", FALSE, ph)
    <3>1. heap'[r].state = "refining" /\ heap'[r].question = FALSE
      BY <2>5 DEF NewGoal
    <3>2. NoGoal.state = "none"
      BY DEF NoGoal
    <3> QED
      BY <2>8, <3>1, <3>2
  <2>10. Board!Create(k)
    BY <2>9 DEF Board!Create
  <2> QED
    BY <2>10 DEF BoardStep, Board!CardNext
<1>2. ASSUME NEW k \in Ids, NEW out \in WriteOutcomes,
             RunGoal(c, k) \/ AnswerGoal(c, k) \/ DismissGoal(c, k, out)
      PROVE  BoardStep
  <2>1. PICK p \in Pointers : p = TrackedPtr(k) /\ p[1] = k /\ p[2] = tracked[k]
    <3>1. TrackedPtr(k) \in Pointers /\ TrackedPtr(k)[1] = k
      BY <1>0, <1>2 DEF RunGoal, AnswerGoal, DismissGoal, DeleteGoal, IsTracked, TrackedPtr,
                        TrackerTypeOK, Pointers, Versions
    <3> QED
      BY <3>1 DEF TrackedPtr
  <2>2. heap[p].state # "none"
    <3>1. heap[p] # NoGoal
      BY <2>1 DEF NoDanglingPointer, InUse
    <3>2. heap[p] \in Goal
      BY <1>0, <3>1 DEF TrackerTypeOK
    <3> QED
      BY <3>2 DEF Goal, GoalStates
  <2>3. PICK pc \in {"queue", "fold", "dropResult"} :
           pc = IF RunGoal(c, k) THEN "queue" ELSE IF AnswerGoal(c, k) THEN "fold" ELSE "dropResult"
    OBVIOUS
  <2>4. PICK n : n = At(pc, p)
    OBVIOUS
  <2>5. /\ n.ptr = p /\ n.pc # "track"
        /\ PhaseBy(n, k) = IF pc = "queue" THEN "queueing" ELSE "free"
    BY <2>1, <2>3, <2>4, AtShape, AtPhase DEF HandlerPcs
  <2>6. handler'[c] = n /\ heap' = heap /\ \A id \in Ids : id # k => tracked'[id] = tracked[id]
    BY <1>0, <1>2, <2>1, <2>3, <2>4 DEF RunGoal, AnswerGoal, DismissGoal, DeleteGoal,
       TrackerTypeOK, Goto, HandlersOK
  <2>b. OnlyRequest(c) /\ handler[c] = Idle
    BY <1>0
  <2>7. /\ PhaseOf(k) = "free" /\ Shown(k) = heap[p]
        /\ tracked'[k] = 0 => Board!Become(k, "none", FALSE, PhaseBy(n, k))
        /\ tracked'[k] = p[2] => Board!Become(k, heap[p].state, heap[p].question, PhaseBy(n, k))
    <3>1. /\ \A q \in Pointers : q # p => heap'[q] = heap[q]
          /\ \A id \in Ids : id # p[1] => tracked'[id] = tracked[id]
          /\ handler'[c] = n /\ n.pc # "track" /\ (n.pc = "idle" \/ n.ptr = p)
      BY <2>1, <2>5, <2>6
    <3>2. PhaseOf(p[1]) = "free"
      BY <2>b, <3>1, BegunShows
    <3>3. tracked[p[1]] = p[2] => Shown(p[1]) = heap[p]
      <4>1. PICK h : h = Idle /\ h.pc # "track"
        BY IdleIsFree
      <4>2. Shown(p[1]) = ShownBy(h, p[1])
        BY <2>1, <2>b, <4>1, ViewAlone DEF OnlyRequest
      <4> QED
        BY <4>1, <4>2, ShownIsHeld
    <3>4. tracked'[p[1]] = 0 => Board!Become(p[1], "none", FALSE, PhaseBy(n, p[1]))
      BY <2>b, <3>1, BegunShows
    <3>5. tracked'[p[1]] = p[2] =>
             Board!Become(p[1], heap'[p].state, heap'[p].question, PhaseBy(n, p[1]))
      BY <2>b, <3>1, BegunShows
    <3> QED
      BY <2>1, <2>6, <3>2, <3>3, <3>4, <3>5
  <2>8. CASE RunGoal(c, k)
    <3>1. Board!Become(k, heap[p].state, heap[p].question, "queueing")
      BY <2>1, <2>3, <2>5, <2>7, <2>8 DEF RunGoal
    <3>2. Board!Run(k)
      BY <2>2, <2>7, <3>1 DEF Board!Run
    <3> QED
      BY <3>2 DEF BoardStep, Board!CardNext
  <2>9. CASE AnswerGoal(c, k) /\ ~RunGoal(c, k)
    <3>1. Board!Become(k, Shown(k).state, Shown(k).question, PhaseOf(k))
      BY <2>1, <2>3, <2>5, <2>7, <2>9 DEF AnswerGoal
    <3>2. UNCHANGED Board!boardVars
      BY <3>1 DEF Board!Become, Board!boardVars
    <3> QED
      BY <3>2 DEF BoardStep
  <2>10. CASE DismissGoal(c, k, out) /\ ~RunGoal(c, k) /\ ~AnswerGoal(c, k)
    <3>1. tracked'[k] = 0
      BY <1>0, <2>10 DEF DismissGoal, DeleteGoal, TrackerTypeOK
    <3>2. Board!Become(k, "none", FALSE, "free")
      BY <2>3, <2>5, <2>7, <2>10, <3>1
    <3>3. Board!Dismiss(k)
      BY <2>2, <2>7, <3>2 DEF Board!Dismiss
    <3> QED
      BY <3>3 DEF BoardStep, Board!CardNext
  <2> QED
    BY <1>2, <2>8, <2>9, <2>10
<1> QED
  BY <1>1, <1>2 DEF Request

-----------------------------------------------------------------------------
(* The run loop, the other steps, and the theorem.                          *)

LEMMA TrackedIsPointer ==
    ASSUME TrackerTypeOK, NEW id \in Ids, IsTracked(id)
    PROVE  TrackedPtr(id) \in Pointers /\ TrackedPtr(id)[1] = id
BY DEF IsTracked, TrackedPtr, TrackerTypeOK, Pointers, Versions

\* A step that leaves every handler and the map alone leaves the phases, and what it
\* shows is what the struct shown so far has become.
LEMMA SamePhases ==
    ASSUME Shapes, UNCHANGED <<handler, tracked>>, NEW id \in Ids
    PROVE  /\ PhaseOf(id)' = PhaseOf(id)
           /\ \/ Shown(id)' = Shown(id)
              \/ \E p \in Pointers : p[1] = id /\ Shown(id) = heap[p] /\ Shown(id)' = heap'[p]
<1>1. Refining(id)' = Refining(id)
  BY DEF Refining
<1>2. PhaseOf(id)' = PhaseOf(id)
  BY <1>1 DEF PhaseOf
<1>3. CASE Refining(id) # {}
  <2>1. PICK c \in Clients : c \in Refining(id) /\ c = CHOOSE d \in Refining(id) : TRUE
    <3>1. (CHOOSE d \in Refining(id) : TRUE) \in Refining(id)
      BY <1>3
    <3> QED
      BY <3>1 DEF Refining
  <2>2. PICK p \in Pointers : p = handler[c].ref /\ p[1] = id
    BY <2>1 DEF Refining, Shapes, HandlersOK, HandlerOK
  <2>3. Shown(id) = heap[p]
    BY <1>3, <2>1, <2>2 DEF Shown
  <2>4. Shown(id)' = heap'[p]
    BY <1>1, <1>3, <2>1, <2>2 DEF Shown
  <2> QED
    BY <1>2, <2>2, <2>3, <2>4
<1>4. CASE Refining(id) = {} /\ IsTracked(id)
  <2>1. PICK p \in Pointers : p = TrackedPtr(id) /\ p[1] = id
    BY <1>4, TrackedIsPointer DEF Shapes
  <2>2. Shown(id) = heap[p]
    BY <1>4, <2>1 DEF Shown
  <2>3. Shown(id)' = heap'[p]
    BY <1>1, <1>4, <2>1 DEF Shown, IsTracked, TrackedPtr
  <2> QED
    BY <1>2, <2>1, <2>2, <2>3
<1>5. CASE Refining(id) = {} /\ ~IsTracked(id)
  <2>1. Shown(id) = NoGoal /\ Shown(id)' = NoGoal
    BY <1>1, <1>5 DEF Shown, IsTracked
  <2> QED
    BY <1>2, <2>1
<1> QED
  BY <1>3, <1>4, <1>5

LEMMA BoardStutters ==
    ASSUME Shapes, UNCHANGED <<heap, handler, tracked>>
    PROVE  UNCHANGED Board!boardVars
<1>1. \A id \in Ids : Shown(id)' = Shown(id) /\ PhaseOf(id)' = PhaseOf(id)
  BY SamePhases
<1> QED
  BY <1>1, Stays

LEMMA BoardFinishes ==
    ASSUME Shapes, NEW ok \in BOOLEAN, NEW out, FinishRun(ok, out)
    PROVE  BoardStep
<1>0. TrackerTypeOK
  BY DEF Shapes
<1>1. PICK k \in Ids : k = runner.ptr[1]
  BY DEF Shapes, RunnerOK, FinishRun, Pointers
<1>2. PICK s \in {"done", "blocked"} : s = IF ok THEN "done" ELSE "blocked"
  OBVIOUS
<1>3. /\ UpdateGoalState(k, s, out) /\ s \in GoalStates
      /\ UNCHANGED <<handler, tracked>>
  BY <1>1, <1>2, UpdateUse DEF FinishRun, GoalStates
<1>4. CASE ~Moves(k, s)
  <2>1. UNCHANGED <<heap, handler, tracked>>
    BY <1>3, <1>4 DEF UpdateGoalState, trackerVars, Moves
  <2> QED
    BY <2>1, BoardStutters DEF BoardStep
<1>5. CASE Moves(k, s)
  <2>1. PICK r \in Pointers : r = TrackedPtr(k) /\ r[1] = k
    BY <1>0, <1>5, TrackedIsPointer DEF Moves
  <2>2. heap[r].state = "active"
    BY <1>2, <1>5, <2>1 DEF Moves, IsValidTransition, StateOf
  <2>3. /\ \A p \in Pointers : p # r => heap'[p] = heap[p]
        /\ heap'[r].state = s /\ heap'[r].question = heap[r].question
    <3>1. \A p \in Pointers : p # r => heap'[p] = heap[p]
      BY <1>0, <1>3, <1>5, <2>1 DEF UpdateGoalState, Moves, TrackerTypeOK
    <3>2. heap'[r].state = s /\ heap'[r].question = heap[r].question
      BY <1>0, <1>3, <1>5, <2>1, UpdateEffect
    <3> QED
      BY <3>1, <3>2
  <2>4. \A id \in Ids : PhaseOf(id)' = PhaseOf(id)
    BY <1>3, SamePhases
  <2>5. \A id \in Ids : id # k => Shown(id)' = Shown(id)
    BY <1>3, <2>1, <2>3, SamePhases
  <2>6. CASE Shown(k)' = Shown(k)
    <3>1. \A id \in Ids : Shown(id)' = Shown(id) /\ PhaseOf(id)' = PhaseOf(id)
      BY <2>4, <2>5, <2>6
    <3> QED
      BY <3>1, Stays DEF BoardStep
  <2>7. CASE Shown(k)' # Shown(k)
    <3>1. Shown(k) = heap[r] /\ Shown(k)' = heap'[r]
      <4>1. PICK p \in Pointers : p[1] = k /\ Shown(k) = heap[p] /\ Shown(k)' = heap'[p]
        BY <1>3, <2>7, SamePhases
      <4>2. p = r
        BY <2>3, <2>7, <4>1
      <4> QED
        BY <4>1, <4>2
    <3>2. Shown(k)'.state = s /\ Shown(k)'.question = Shown(k).question /\ Shown(k).state = "active"
      BY <2>2, <2>3, <3>1
    <3>3. \A id \in Ids \ {k} : Shown(id)' = Shown(id) /\ PhaseOf(id)' = PhaseOf(id)
      BY <2>4, <2>5
    <3>4. PhaseOf(k)' = PhaseOf(k)
      BY <2>4
    <3>5. Board!Become(k, s, Shown(k).question, PhaseOf(k))
      BY <3>2, <3>3, <3>4, Becomes
    <3>6. Board!Finish(k)
      BY <3>2, <3>5 DEF Board!Finish
    <3> QED
      BY <3>6 DEF BoardStep, Board!CardNext
  <2> QED
    BY <2>6, <2>7
<1> QED
  BY <1>4, <1>5

LEMMA FoldPendingNext ==
    ASSUME OneClient, Shapes, FoldPending, Serving
    PROVE  FoldPending'
<1>0. TrackerTypeOK /\ HandlersOK
  BY DEF Shapes
<1>1. ASSUME NEW c \in Clients, Request(c) \/ HandlerStep(c)
      PROVE  FoldPending'
  <2>1. \A d \in Clients : d = c
    BY DEF OneClient
  <2>2. ASSUME NEW id \in Ids, AnswerGoal(c, id)
        PROVE  FoldPending'
    <3>1. PICK p \in Pointers : p = TrackedPtr(id)
      BY <1>0, <2>2 DEF AnswerGoal, IsTracked, TrackedPtr, TrackerTypeOK, Pointers, Versions
    <3>2. handler'[c] = At("fold", p) /\ At("fold", p).ptr = p /\ heap' = heap
      BY <1>0, <2>2, <3>1, AtShape DEF AnswerGoal, Goto, HandlersOK, HandlerPcs
    <3> QED
      BY <2>1, <2>2, <3>1, <3>2 DEF FoldPending, AnswerGoal
  <2>3. ASSUME ~\E id \in Ids : AnswerGoal(c, id)
        PROVE  handler'[c].pc # "fold"
    <3>1. \A pc, p : At(pc, p).pc = pc
      BY DEF At, Idle
    <3>2. \A p, r, asks : Tracking(p, r, asks).pc = "track"
      BY DEF Tracking, At, Idle
    <3>3. ASSUME NEW h, Goto(c, h)
          PROVE  handler'[c] = h
      BY <1>0, <3>3 DEF Goto, HandlersOK
    <3>4. ASSUME HandlerStep(c)
          PROVE  \E h : Goto(c, h) /\ h.pc # "fold"
      <4>1. CASE RefineFails(c) \/ QueueCheck(c) \/ QueueEnqueue(c) \/ FoldAnswer(c)
        BY <3>1, <4>1, IdleShape DEF RefineFails, QueueCheck, QueueEnqueue, FoldAnswer
      <4>2. CASE RefineAsks(c) \/ RefineAccepts(c) \/ RefineRewrites(c)
        <5>1. PICK p, asks : Goto(c, Tracking(handler[c].ptr, p, asks))
          BY <4>2 DEF RefineAsks, RefineAccepts, RefineRewrites, RefineLeaves
        <5> QED
          BY <3>2, <5>1
      <4>3. ASSUME NEW out,
                   TrackRefined(c, out) \/ QueueActivate(c, out) \/ TrackAnswer(c, out)
                   \/ DropResult(c, out)
            PROVE  \E h : Goto(c, h) /\ h.pc # "fold"
        BY <3>1, <4>3, IdleShape DEF TrackRefined, QueueActivate, TrackAnswer, DropResult
      <4> QED
        BY <3>4, <4>1, <4>2, <4>3 DEF HandlerStep
    <3>5. ASSUME Request(c)
          PROVE  (handler' = handler /\ handler[c] = Idle) \/ \E h : Goto(c, h) /\ h.pc # "fold"
      BY <2>3, <3>1, <3>5, IdleShape DEF Request, SubmitGoal, RunGoal, DismissGoal
    <3> QED
      BY <1>1, <3>3, <3>4, <3>5, IdleShape
  <2> QED
    BY <2>1, <2>2, <2>3 DEF FoldPending
<1>2. CASE RunnerStep
  <2>1. handler' = handler /\ \A p \in Pointers : heap'[p].question = heap[p].question
    <3>1. ASSUME NEW ok \in BOOLEAN, NEW out, FinishRun(ok, out)
          PROVE  \A p \in Pointers : heap'[p].question = heap[p].question
      <4>1. /\ runner.ptr[1] \in Ids
            /\ (IF ok THEN "done" ELSE "blocked") \in GoalStates
        BY <3>1 DEF Shapes, RunnerOK, FinishRun, Pointers, GoalStates
      <4> QED
        BY <1>0, <3>1, <4>1, UpdateEffect DEF FinishRun
    <3>2. (RunNext \/ \E out : RecordResult(out)) => heap' = heap
      BY DEF RunNext, RecordResult
    <3>3. handler' = handler
      BY <1>2 DEF RunnerStep, RunNext, FinishRun, RecordResult
    <3> QED
      BY <1>2, <3>1, <3>2, <3>3 DEF RunnerStep
  <2>2. \A c \in Clients : handler[c].pc = "fold" => handler[c].ptr \in Pointers
    BY <1>0 DEF HandlersOK, HandlerOK
  <2> QED
    BY <2>1, <2>2 DEF FoldPending
<1> QED
  BY <1>1, <1>2 DEF Serving

LEMMA BoardServes ==
    ASSUME OneClient, WriteOutcomes = {"written"}, IInv, IInv', HandlersFit, FoldPending, Serving
    PROVE  BoardStep
<1>0. Shapes /\ Shapes' /\ NoDanglingPointer /\ KnownIds
  BY DEF IInv, TypeOK
<1>1. ASSUME NEW c \in Clients, Request(c)
      PROVE  BoardStep
  BY <1>0, <1>1, BoardRequests
<1>2. ASSUME NEW c \in Clients, HandlerStep(c)
      PROVE  BoardStep
  BY <1>0, <1>2, BoardRefines, BoardQueues, BoardAnswers, BoardTracks
     DEF HandlerStep
<1>3. ASSUME NEW out, RunNext \/ RecordResult(out)
      PROVE  BoardStep
  <2>1. UNCHANGED <<heap, handler, tracked>>
    BY <1>3 DEF RunNext, RecordResult
  <2> QED
    BY <1>0, <2>1, BoardStutters DEF BoardStep
<1>4. CASE RunnerStep
  BY <1>0, <1>3, <1>4, BoardFinishes DEF RunnerStep
<1> QED
  BY <1>1, <1>2, <1>4 DEF Serving

LEMMA BoardStarts == Init => Board!BoardInit
<1> SUFFICES ASSUME Init PROVE Board!BoardInit
  OBVIOUS
<1>1. \A c \in Clients : handler[c].pc = "idle"
  BY IdleShape DEF Init
<1>2. ASSUME NEW id \in Ids
      PROVE  Shown(id).state = "none" /\ Shown(id).question = FALSE /\ PhaseOf(id) = "free"
  <2>1. Refining(id) = {} /\ ~IsTracked(id)
    BY <1>1 DEF Refining, Init, TrackerInit, IsTracked
  <2>2. Shown(id) = NoGoal
    BY <2>1 DEF Shown
  <2>3. PhaseOf(id) = "free"
    BY <1>1, <2>1 DEF PhaseOf
  <2> QED
    BY <2>2, <2>3 DEF NoGoal
<1> QED
  BY <1>2 DEF Board!BoardInit

\* For one request at a time, a disk that works and a process that lives, the pipeline
\* of pointers, queue, locks and files is a board of cards: a goal moves from column to
\* column only as a card may, whatever the run loop does beside the request
\* (server.go handlers, fulfillment.go, refiner.go, processor.go, tracker.go).
THEOREM PipelineIsBoard ==
    ASSUME OneClient, WriteOutcomes = {"written"}
    PROVE  ServingSpec => ImplementsBoard
<1> DEFINE K == IInv /\ HandlersFit /\ FoldPending
<1>1. Init => K /\ Board!BoardInit
  <2>1. Init => FoldPending
    BY IdleShape DEF Init, FoldPending
  <2> QED
    BY <2>1, IInvInit, FitsInit, BoardStarts
<1>2. K /\ [Serving]_vars => K'
  <2> SUFFICES ASSUME K, [Serving]_vars
               PROVE  K'
    OBVIOUS
  <2>1. [Next]_vars
    BY DEF Next
  <2>2. IInv' /\ HandlersFit'
    BY <2>1, IInvNext, FitsNext, OneClientAlone
  <2>3. FoldPending'
    <3>1. Shapes
      BY DEF IInv, TypeOK
    <3>2. UNCHANGED vars => FoldPending'
      BY DEF vars, FoldPending
    <3> QED
      BY <3>1, <3>2, FoldPendingNext
  <2> QED
    BY <2>2, <2>3
<1>3. K /\ K' /\ [Serving]_vars => [\E k \in Ids : Board!CardNext(k)]_(Board!boardVars)
  <2> SUFFICES ASSUME K, K', [Serving]_vars
               PROVE  BoardStep
    BY DEF BoardStep
  <2>1. CASE UNCHANGED vars
    <3>1. UNCHANGED <<heap, handler, tracked>> /\ Shapes
      BY <2>1 DEF vars, IInv, TypeOK
    <3> QED
      BY <3>1, BoardStutters DEF BoardStep
  <2> QED
    BY <2>1, BoardServes
<1> QED
  BY <1>1, <1>2, <1>3, PTL DEF ServingSpec, ImplementsBoard, Board!BoardSpec
=============================================================================
