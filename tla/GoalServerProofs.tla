-------------------------- MODULE GoalServerProofs --------------------------
(***************************************************************************)
(* Proofs about GoalServer for every number of goals, structs, requests and *)
(* queue entries.                                                           *)
(***************************************************************************)
EXTENDS GoalServer, SequenceTheorems, TLAPS

-----------------------------------------------------------------------------
(* The operators of the components.                                         *)

\* Assigning a field of a goal, or of no goal, leaves a record of the same shape.
AnyGoal == [state : GoalStates \cup {"none"}, question : BOOLEAN]

LEMMA GoalShape == Goal \cup {NoGoal} \subseteq AnyGoal
<1>1. NoGoal \in AnyGoal
  BY DEF NoGoal, AnyGoal
<1> QED
  BY <1>1 DEF Goal, AnyGoal

LEMMA SetState ==
    ASSUME NEW g \in Goal \cup {NoGoal}, NEW s \in GoalStates
    PROVE  /\ [g EXCEPT !.state = s] \in Goal
           /\ [g EXCEPT !.state = s] # NoGoal
<1>1. g \in AnyGoal
  BY GoalShape
<1>2. [g EXCEPT !.state = s].state = s
  BY <1>1 DEF AnyGoal
<1>3. s # "none"
  BY DEF GoalStates
<1>4. [g EXCEPT !.state = s] \in Goal
  BY <1>1 DEF AnyGoal, Goal
<1> QED
  BY <1>2, <1>3, <1>4 DEF NoGoal

LEMMA SetQuestion ==
    ASSUME NEW g \in Goal \cup {NoGoal}, NEW q \in BOOLEAN
    PROVE  /\ [g EXCEPT !.question = q] \in AnyGoal
           /\ [g EXCEPT !.question = q].state = g.state
           /\ g \in Goal => [g EXCEPT !.question = q] \in Goal
           /\ g = NoGoal /\ q = FALSE => [g EXCEPT !.question = q] = NoGoal
<1>1. g \in AnyGoal /\ NoGoal \in AnyGoal
  BY GoalShape
<1>2. [g EXCEPT !.question = q] \in AnyGoal
  BY <1>1 DEF AnyGoal
<1>3. /\ [g EXCEPT !.question = q].state = g.state
      /\ [g EXCEPT !.question = q].question = q
  BY <1>1 DEF AnyGoal
<1>4. NoGoal.state = "none" /\ NoGoal.question = FALSE
  BY DEF NoGoal
<1>5. g = NoGoal /\ q = FALSE => [g EXCEPT !.question = q] = NoGoal
  BY <1>1, <1>2, <1>3, <1>4 DEF AnyGoal
<1>6. g \in Goal => [g EXCEPT !.question = q] \in Goal
  BY DEF Goal
<1> QED
  BY <1>2, <1>3, <1>5, <1>6

\* A marshalled map is a map of goals.
LEMMA ImageType ==
    ASSUME NEW h \in [Pointers -> Goal \cup {NoGoal}],
           NEW t \in [Ids -> Versions \cup {0}]
    PROVE  Image(h, t) \in [Ids -> Goal \cup {NoGoal}]
BY DEF Image, Pointers

\* persist leaves a map of goals or a torn file.
LEMMA PersistType ==
    ASSUME TrackerTypeOK,
           NEW h \in [Pointers -> Goal \cup {NoGoal}],
           NEW t \in [Ids -> Versions \cup {0}],
           NEW out, Persist(h, t, out)
    PROVE  disk' \in [Ids -> Goal \cup {NoGoal}] \cup {Torn}
<1>1. Image(h, t) \in [Ids -> Goal \cup {NoGoal}]
  BY ImageType
<1> QED
  BY <1>1 DEF Persist, AfterWrite, TrackerTypeOK

\* TrackGoal keeps the types of the tracker.
LEMMA TrackGoalType ==
    ASSUME TrackerTypeOK,
           NEW h \in [Pointers -> Goal \cup {NoGoal}],
           NEW p \in Pointers, NEW out, TrackGoal(h, p, out)
    PROVE  TrackerTypeOK'
<1> DEFINE t == [tracked EXCEPT ![p[1]] = p[2]]
<1>1. t \in [Ids -> Versions \cup {0}]
  BY DEF TrackerTypeOK, Pointers
<1>2. disk' \in [Ids -> Goal \cup {NoGoal}] \cup {Torn}
  BY <1>1, PersistType DEF TrackGoal
<1> QED
  BY <1>1, <1>2 DEF TrackGoal, TrackerTypeOK

\* UpdateGoalState keeps the types of the tracker.
LEMMA UpdateGoalStateType ==
    ASSUME TrackerTypeOK,
           NEW id \in Ids, NEW s \in GoalStates, NEW out,
           UpdateGoalState(id, s, out)
    PROVE  TrackerTypeOK'
<1>1. CASE IsTracked(id) /\ IsValidTransition(StateOf(id), s)
  <2> DEFINE h == [heap EXCEPT ![TrackedPtr(id)].state = s]
  <2>1. TrackedPtr(id) \in Pointers
    BY <1>1 DEF TrackedPtr, IsTracked, TrackerTypeOK, Pointers, Versions
  <2>2. [heap[TrackedPtr(id)] EXCEPT !.state = s] \in Goal
    BY <2>1, SetState DEF TrackerTypeOK
  <2>3. h \in [Pointers -> Goal \cup {NoGoal}]
    BY <2>1, <2>2 DEF TrackerTypeOK
  <2>4. heap' = h /\ Persist(h, tracked, out) /\ tracked' = tracked
    BY <1>1 DEF UpdateGoalState
  <2> HIDE DEF h
  <2>5. disk' \in [Ids -> Goal \cup {NoGoal}] \cup {Torn}
    BY <2>3, <2>4, PersistType DEF TrackerTypeOK
  <2> QED
    BY <2>3, <2>4, <2>5 DEF TrackerTypeOK
<1>2. CASE ~(IsTracked(id) /\ IsValidTransition(StateOf(id), s))
  BY <1>2 DEF UpdateGoalState, TrackerTypeOK, trackerVars
<1> QED
  BY <1>1, <1>2

\* DeleteGoal keeps the types of the tracker.
LEMMA DeleteGoalType ==
    ASSUME TrackerTypeOK, NEW id \in Ids, NEW out, DeleteGoal(id, out)
    PROVE  TrackerTypeOK'
<1> DEFINE t == [tracked EXCEPT ![id] = 0]
<1>1. t \in [Ids -> Versions \cup {0}]
  BY DEF TrackerTypeOK
<1>2. heap \in [Pointers -> Goal \cup {NoGoal}]
  BY DEF TrackerTypeOK
<1>3. Persist(heap, t, out) /\ tracked' = t /\ heap' = heap
  BY DEF DeleteGoal
<1> HIDE DEF t
<1>4. disk' \in [Ids -> Goal \cup {NoGoal}] \cup {Torn}
  BY <1>1, <1>2, <1>3, PersistType
<1> QED
  BY <1>1, <1>3, <1>4 DEF TrackerTypeOK

\* Saving and deleting keep the types of the result store.
LEMMA ResultsType ==
    ASSUME ResultsTypeOK, NEW id \in Ids, NEW out,
           (\E o \in Outcomes : SaveResult(id, o, out)) \/ DeleteResult(id, out)
    PROVE  ResultsTypeOK'
<1>1. CASE DeleteResult(id, out)
  BY <1>1 DEF DeleteResult, PersistResults, AfterWrite, ResultsTypeOK, resultVars
<1>2. ASSUME NEW o \in Outcomes, SaveResult(id, o, out)
      PROVE  ResultsTypeOK'
  BY <1>2 DEF SaveResult, PersistResults, AfterWrite, ResultsTypeOK
<1> QED
  BY <1>1, <1>2

\* Reordering a sequence leaves a sequence over the same set.
LEMMA ReorderedSeq ==
    ASSUME NEW S, NEW s \in Seq(S), NEW f \in [DOMAIN s -> DOMAIN s]
    PROVE  [i \in DOMAIN s |-> s[f[i]]] \in Seq(S)
<1>1. f \in [1 .. Len(s) -> 1 .. Len(s)]
  OBVIOUS
<1>2. [i \in 1 .. Len(s) |-> s[f[i]]] \in [1 .. Len(s) -> S]
  BY <1>1
<1> QED
  BY <1>2

\* Taking an entry out of a sequence moves the ones behind it up by one.
LEMMA RemovedAt ==
    ASSUME NEW S, NEW s \in Seq(S), NEW i \in DOMAIN s
    PROVE  /\ RemoveAt(s, i) \in Seq(S)
           /\ DOMAIN RemoveAt(s, i) = 1 .. Len(s) - 1
           /\ \A j \in 1 .. Len(s) - 1 :
                 RemoveAt(s, i)[j] = s[IF j < i THEN j ELSE j + 1]
<1> DEFINE a == SubSeq(s, 1, i - 1)
           b == SubSeq(s, i + 1, Len(s))
<1>1. i \in 1 .. Len(s) /\ Len(s) \in Nat
  OBVIOUS
<1>2. /\ a \in Seq(S) /\ Len(a) = i - 1
      /\ \A j \in 1 .. i - 1 : a[j] = s[j]
  BY <1>1
<1>3. /\ b \in Seq(S) /\ Len(b) = Len(s) - i
      /\ \A j \in 1 .. Len(s) - i : b[j] = s[j + i]
  BY <1>1
<1>4. RemoveAt(s, i) = a \o b
  BY DEF RemoveAt
<1> HIDE DEF a, b
<1>5. a \o b \in Seq(S) /\ Len(a \o b) = Len(s) - 1
  BY <1>1, <1>2, <1>3
<1>6. DOMAIN (a \o b) = 1 .. Len(s) - 1
  BY <1>5
<1>7. ASSUME NEW j \in 1 .. Len(s) - 1
      PROVE  (a \o b)[j] = s[IF j < i THEN j ELSE j + 1]
  <2>1. CASE j < i
    <3>1. (a \o b)[j] = a[j]
      BY <1>1, <1>2, <1>3, <2>1
    <3> QED
      BY <1>1, <1>2, <2>1, <3>1
  <2>2. CASE ~(j < i)
    <3>1. j - (i - 1) \in 1 .. Len(s) - i
      BY <1>1, <2>2
    <3>2. /\ Len(a) \in Nat /\ Len(b) \in Nat
          /\ j \in 1 .. Len(a) + Len(b) /\ j > Len(a)
      BY <1>1, <1>2, <1>3, <2>2
    <3>3. (a \o b)[j] = IF j <= Len(a) THEN a[j] ELSE b[j - Len(a)]
      BY <1>2, <1>3, <3>2, ConcatProperties
    <3>4. (a \o b)[j] = b[j - (i - 1)]
      BY <1>2, <3>2, <3>3
    <3>5. b[j - (i - 1)] = s[j + 1]
      BY <1>1, <1>3, <3>1
    <3> QED
      BY <2>2, <3>4, <3>5
  <2> QED
    BY <2>1, <2>2
<1> QED
  BY <1>4, <1>5, <1>6, <1>7

LEMMA RemovedSeq ==
    ASSUME NEW S, NEW s \in Seq(S), NEW i \in DOMAIN s
    PROVE  /\ RemoveAt(s, i) \in Seq(S)
           /\ \A j \in DOMAIN RemoveAt(s, i) :
                 \E k \in DOMAIN s : RemoveAt(s, i)[j] = s[k]
<1>1. DOMAIN s = 1 .. Len(s) /\ Len(s) \in Nat
  OBVIOUS
<1>2. \A j \in 1 .. Len(s) - 1 : (IF j < i THEN j ELSE j + 1) \in DOMAIN s
  BY <1>1
<1>3. /\ RemoveAt(s, i) \in Seq(S) /\ DOMAIN RemoveAt(s, i) = 1 .. Len(s) - 1
      /\ \A j \in 1 .. Len(s) - 1 :
            RemoveAt(s, i)[j] = s[IF j < i THEN j ELSE j + 1]
  BY RemovedAt
<1> QED
  BY <1>2, <1>3

\* Enqueue leaves a sequence of pointers: the old ones and the new one.
LEMMA EnqueueType ==
    ASSUME NEW S, queue \in Seq(S), NEW p \in S, Enqueue(p)
    PROVE  /\ queue' \in Seq(S)
           /\ \A j \in DOMAIN queue' :
                 queue'[j] = p \/ \E k \in DOMAIN queue : queue'[j] = queue[k]
<1> DEFINE s == Append(queue, p)
<1>1. /\ s \in Seq(S) /\ DOMAIN s = 1 .. Len(queue) + 1 /\ Len(queue) \in Nat
      /\ s[Len(queue) + 1] = p
      /\ \A i \in 1 .. Len(queue) : s[i] = queue[i]
  OBVIOUS
<1>2. PICK f \in StableOrders(s) : queue' = [i \in DOMAIN s |-> s[f[i]]]
  BY DEF Enqueue
<1>3. f \in [DOMAIN s -> DOMAIN s]
  BY <1>2 DEF StableOrders, Bijection, Injection
<1> HIDE DEF s
<1>4. queue' \in Seq(S)
  BY <1>1, <1>2, <1>3, ReorderedSeq
<1>5. ASSUME NEW j \in DOMAIN queue'
      PROVE  queue'[j] = p \/ \E k \in DOMAIN queue : queue'[j] = queue[k]
  <2>1. j \in DOMAIN s /\ f[j] \in 1 .. Len(queue) + 1 /\ queue'[j] = s[f[j]]
    BY <1>1, <1>2, <1>3, <1>5
  <2>2. f[j] = Len(queue) + 1 \/ f[j] \in 1 .. Len(queue)
    BY <1>1, <2>1
  <2> QED
    BY <1>1, <2>1, <2>2
<1> QED
  BY <1>4, <1>5

\* The records a handler moves between have their shape.
LEMMA AtShape ==
    ASSUME NEW pc \in HandlerPcs \ {"idle", "track"}, NEW p \in Pointers
    PROVE  /\ At(pc, p) \in Handler /\ HandlerOK(At(pc, p))
           /\ At(pc, p).pc = pc /\ At(pc, p).ptr = p /\ At(pc, p).ref = Nil
<1>1. Idle \in Handler
  BY DEF Idle, Handler, HandlerPcs
<1> QED
  BY <1>1 DEF At, Handler, HandlerOK, Idle

LEMMA IdleShape == Idle \in Handler /\ HandlerOK(Idle) /\ Idle.pc = "idle"
BY DEF Idle, Handler, HandlerPcs, HandlerOK

LEMMA TrackShape ==
    ASSUME NEW p \in Pointers, NEW r \in Pointers, NEW asks \in BOOLEAN, r[1] = p[1]
    PROVE  /\ Tracking(p, r, asks) \in Handler /\ HandlerOK(Tracking(p, r, asks))
           /\ Tracking(p, r, asks).pc = "track"
           /\ Tracking(p, r, asks).ptr = p
           /\ Tracking(p, r, asks).ref = r
<1>1. Idle \in Handler
  BY DEF Idle, Handler, HandlerPcs
<1> QED
  BY <1>1 DEF At, Handler, HandlerOK, HandlerPcs, Tracking

\* A handler's step touches no other handler.
LEMMA GotoShape ==
    ASSUME HandlersOK, NEW c \in Clients, NEW h \in Handler, HandlerOK(h), Goto(c, h)
    PROVE  /\ HandlersOK'
           /\ handler'[c] = h
           /\ \A d \in Clients \ {c} : handler'[d] = handler[d]
BY DEF Goto, HandlersOK

LEMMA GotoAt ==
    ASSUME HandlersOK, NEW c \in Clients, NEW p \in Pointers,
           NEW pc \in HandlerPcs \ {"idle", "track"}, Goto(c, At(pc, p))
    PROVE  HandlersOK'
<1>1. At(pc, p) \in Handler /\ HandlerOK(At(pc, p))
  BY AtShape
<1> QED
  BY <1>1, GotoShape

LEMMA GotoIdle ==
    ASSUME HandlersOK, NEW c \in Clients, Goto(c, Idle)
    PROVE  HandlersOK'
BY IdleShape, GotoShape

-----------------------------------------------------------------------------
(* Shapes is inductive by itself.                                           *)

LEMMA ShapesInit == Init => Shapes
<1> SUFFICES ASSUME Init PROVE Shapes
  OBVIOUS
<1>1. TrackerTypeOK
  BY DEF Init, TrackerInit, TrackerTypeOK
<1>2. ResultsTypeOK
  BY DEF Init, ResultsInit, ResultsTypeOK
<1>3. HandlersOK
  BY IdleShape DEF Init, HandlersOK
<1>4. RunnerOK
  BY DEF Init, Polling, Runner, RunnerOK
<1>5. QueueOK /\ IssuedOK /\ up \in BOOLEAN
  BY GoalsAssumption DEF Init, QueueOK, IssuedOK
<1> QED
  BY <1>1, <1>2, <1>3, <1>4, <1>5 DEF Shapes

\* The parts of Shapes that a step leaves alone.
LEMMA UnchangedParts ==
    /\ UNCHANGED trackerVars /\ TrackerTypeOK => TrackerTypeOK'
    /\ UNCHANGED resultVars /\ ResultsTypeOK => ResultsTypeOK'
    /\ UNCHANGED queue /\ QueueOK => QueueOK'
    /\ UNCHANGED issued /\ IssuedOK => IssuedOK'
    /\ UNCHANGED handler /\ HandlersOK => HandlersOK'
    /\ UNCHANGED runner /\ RunnerOK => RunnerOK'
BY DEF trackerVars, resultVars, TrackerTypeOK, ResultsTypeOK, QueueOK, IssuedOK,
       HandlersOK, RunnerOK

\* A refinement that leaves a goal leaves one with the ID it was given.
LEMMA RefineCases ==
    ASSUME NEW c \in Clients, handler[c].ptr \in Pointers,
           RefineAsks(c) \/ RefineAccepts(c) \/ RefineRewrites(c)
    PROVE  \E p \in Pointers, g \in Goal, asks \in BOOLEAN :
              p[1] = handler[c].ptr[1] /\ RefineLeaves(c, p, g, asks)
<1>1. /\ \A q \in BOOLEAN : [state |-> "refining", question |-> q] \in Goal
      /\ [state |-> "active", question |-> FALSE] \in Goal
  BY DEF Goal, GoalStates
<1>2. CASE RefineAsks(c) \/ RefineAccepts(c)
  BY <1>1, <1>2 DEF RefineAsks, RefineAccepts
<1>3. CASE RefineRewrites(c)
  <2>1. PICK v \in Versions : RefineLeaves(c, <<handler[c].ptr[1], v>>,
                                 [state |-> "active", question |-> FALSE], FALSE)
    BY <1>3 DEF RefineRewrites
  <2>2. <<handler[c].ptr[1], v>> \in Pointers
    BY <2>1 DEF Pointers
  <2> QED
    BY <1>1, <2>1, <2>2
<1> QED
  BY <1>2, <1>3

LEMMA ShapesHandler ==
    ASSUME Shapes, NEW c \in Clients, HandlerStep(c)
    PROVE  Shapes'
<1>0. /\ TrackerTypeOK /\ ResultsTypeOK /\ QueueOK /\ IssuedOK
      /\ HandlersOK /\ RunnerOK /\ up \in BOOLEAN
      /\ handler[c].pc # "idle" => handler[c].ptr \in Pointers
      /\ handler[c].pc = "track" => handler[c].ref \in Pointers
  BY DEF Shapes, HandlersOK, HandlerOK
<1>1. CASE RefineFails(c)
  <2>1. HandlersOK'
    BY <1>0, <1>1, GotoAt DEF RefineFails, HandlerPcs
  <2> QED
    BY <1>0, <1>1, <2>1, UnchangedParts DEF Shapes, RefineFails, trackerVars, resultVars
<1>2. ASSUME NEW p \in Pointers, NEW g \in Goal, NEW asks \in BOOLEAN,
             p[1] = handler[c].ptr[1], RefineLeaves(c, p, g, asks)
      PROVE  Shapes'
  <2>1. HandlersOK'
    <3>1. Goto(c, Tracking(handler[c].ptr, p, asks)) /\ handler[c].ptr \in Pointers
      BY <1>0, <1>2 DEF RefineLeaves, Tracking
    <3>2. /\ Tracking(handler[c].ptr, p, asks) \in Handler
          /\ HandlerOK(Tracking(handler[c].ptr, p, asks))
      BY <1>2, <3>1, TrackShape
    <3> QED
      BY <1>0, <3>1, <3>2, GotoShape
  <2>2. TrackerTypeOK'
    BY <1>0, <1>2 DEF RefineLeaves, TrackerTypeOK
  <2> QED
    BY <1>0, <1>2, <2>1, <2>2, UnchangedParts DEF Shapes, RefineLeaves, resultVars
<1>3. CASE RefineAsks(c) \/ RefineAccepts(c) \/ RefineRewrites(c)
  <2>1. handler[c].ptr \in Pointers
    BY <1>0, <1>3 DEF RefineAsks, RefineAccepts, RefineRewrites, RefineLeaves
  <2> QED
    BY <1>2, <1>3, <2>1, RefineCases
<1>7. CASE QueueCheck(c)
  <2>1. HandlersOK'
    BY <1>0, <1>7, GotoAt DEF QueueCheck, HandlerPcs
  <2> QED
    BY <1>0, <1>7, <2>1, UnchangedParts DEF Shapes, QueueCheck, trackerVars, resultVars
<1>8. CASE QueueEnqueue(c)
  <2>1. HandlersOK'
    BY <1>0, <1>8, GotoIdle DEF QueueEnqueue
  <2>2. QueueOK'
    BY <1>0, <1>8, EnqueueType DEF QueueEnqueue, QueueOK
  <2> QED
    BY <1>0, <1>8, <2>1, <2>2, UnchangedParts DEF Shapes, QueueEnqueue, trackerVars, resultVars
<1>9. CASE FoldAnswer(c)
  <2>1. HandlersOK'
    BY <1>0, <1>9, GotoAt DEF FoldAnswer, HandlerPcs
  <2>2. TrackerTypeOK'
    BY <1>0, <1>9, SetQuestion DEF FoldAnswer, TrackerTypeOK
  <2> QED
    BY <1>0, <1>9, <2>1, <2>2, UnchangedParts DEF Shapes, FoldAnswer, resultVars
<1>10. ASSUME NEW out \in WriteOutcomes, TrackRefined(c, out)
       PROVE  Shapes'
  <2>1. HandlersOK'
    BY <1>0, <1>10, GotoAt, GotoIdle DEF TrackRefined, HandlerPcs
  <2>2. TrackerTypeOK'
    BY <1>0, <1>10, TrackGoalType DEF TrackRefined, TrackerTypeOK
  <2> QED
    BY <1>0, <1>10, <2>1, <2>2, UnchangedParts DEF Shapes, TrackRefined, resultVars
<1>11. ASSUME NEW out \in WriteOutcomes, QueueActivate(c, out)
       PROVE  Shapes'
  <2>1. HandlersOK'
    BY <1>0, <1>11, GotoAt DEF QueueActivate, HandlerPcs
  <2>2. handler[c].ptr[1] \in Ids /\ "active" \in GoalStates
    BY <1>0, <1>11 DEF QueueActivate, Pointers, GoalStates
  <2>3. TrackerTypeOK'
    BY <1>0, <1>11, <2>2, UpdateGoalStateType DEF QueueActivate
  <2> QED
    BY <1>0, <1>11, <2>1, <2>3, UnchangedParts DEF Shapes, QueueActivate, resultVars
<1>12. ASSUME NEW out \in WriteOutcomes, TrackAnswer(c, out)
       PROVE  Shapes'
  <2>1. HandlersOK'
    BY <1>0, <1>12, GotoAt, GotoIdle DEF TrackAnswer, HandlerPcs
  <2>2. TrackerTypeOK'
    BY <1>0, <1>12, TrackGoalType DEF TrackAnswer, TrackerTypeOK
  <2> QED
    BY <1>0, <1>12, <2>1, <2>2, UnchangedParts DEF Shapes, TrackAnswer, resultVars
<1>13. ASSUME NEW out \in WriteOutcomes, DropResult(c, out)
       PROVE  Shapes'
  <2>1. HandlersOK'
    BY <1>0, <1>13, GotoIdle DEF DropResult
  <2>2. ResultsTypeOK'
    BY <1>0, <1>13, ResultsType DEF DropResult, Pointers
  <2> QED
    BY <1>0, <1>13, <2>1, <2>2, UnchangedParts DEF Shapes, DropResult, trackerVars
<1> QED
  BY <1>1, <1>3, <1>7, <1>8, <1>9, <1>10, <1>11, <1>12, <1>13 DEF HandlerStep

LEMMA ShapesRequest ==
    ASSUME Shapes, NEW c \in Clients, Request(c)
    PROVE  Shapes'
<1>0. /\ TrackerTypeOK /\ ResultsTypeOK /\ QueueOK /\ IssuedOK
      /\ HandlersOK /\ RunnerOK /\ up \in BOOLEAN
  BY DEF Shapes
<1>t. \A id \in Ids : IsTracked(id) => TrackedPtr(id) \in Pointers
  BY <1>0 DEF IsTracked, TrackedPtr, TrackerTypeOK, Pointers, Versions
<1>1. ASSUME NEW draft \in BOOLEAN, NEW out \in WriteOutcomes, SubmitGoal(c, draft, out)
      PROVE  Shapes'
  <2> DEFINE p == <<issued + 1, 1>>
             h == [heap EXCEPT ![p] = NewGoal]
  <2>1. p \in Pointers
    BY <1>0, <1>1, GoalsAssumption DEF SubmitGoal, Pointers, Ids, Versions, IssuedOK
  <2>2. NewGoal \in Goal
    BY DEF NewGoal, Goal, GoalStates
  <2>3. h \in [Pointers -> Goal \cup {NoGoal}] /\ TrackGoal(h, p, out)
    BY <1>0, <1>1, <2>1, <2>2 DEF SubmitGoal, TrackerTypeOK
  <2>4. handler' = handler \/ Goto(c, At("refine", p))
    BY <1>1 DEF SubmitGoal
  <2>5. IssuedOK'
    BY <1>0, <1>1, GoalsAssumption DEF SubmitGoal, IssuedOK
  <2> HIDE DEF p, h
  <2>6. TrackerTypeOK'
    BY <1>0, <2>1, <2>3, TrackGoalType
  <2>7. HandlersOK'
    BY <1>0, <2>1, <2>4, GotoAt, UnchangedParts DEF HandlerPcs
  <2> QED
    BY <1>0, <1>1, <2>5, <2>6, <2>7, UnchangedParts DEF SubmitGoal, Shapes, resultVars
<1>2. ASSUME NEW id \in Ids, RunGoal(c, id)
      PROVE  Shapes'
  <2>1. HandlersOK'
    BY <1>0, <1>t, <1>2, GotoAt DEF RunGoal, HandlerPcs
  <2> QED
    BY <1>0, <1>2, <2>1, UnchangedParts DEF RunGoal, Shapes, trackerVars, resultVars
<1>3. ASSUME NEW id \in Ids, AnswerGoal(c, id)
      PROVE  Shapes'
  <2>1. HandlersOK'
    BY <1>0, <1>t, <1>3, GotoAt DEF AnswerGoal, HandlerPcs
  <2> QED
    BY <1>0, <1>3, <2>1, UnchangedParts DEF AnswerGoal, Shapes, trackerVars, resultVars
<1>4. ASSUME NEW id \in Ids, NEW out \in WriteOutcomes, DismissGoal(c, id, out)
      PROVE  Shapes'
  <2>1. TrackedPtr(id) \in Pointers
    BY <1>t, <1>4 DEF DismissGoal, DeleteGoal
  <2>2. HandlersOK'
    BY <1>0, <1>4, <2>1, GotoAt, UnchangedParts DEF DismissGoal, HandlerPcs
  <2>3. TrackerTypeOK'
    BY <1>0, <1>4, DeleteGoalType DEF DismissGoal
  <2> QED
    BY <1>0, <1>4, <2>2, <2>3, UnchangedParts DEF DismissGoal, Shapes, resultVars
<1> QED
  BY <1>1, <1>2, <1>3, <1>4 DEF Request

LEMMA ShapesRunner ==
    ASSUME Shapes, RunnerStep
    PROVE  Shapes'
<1>0. /\ TrackerTypeOK /\ ResultsTypeOK /\ QueueOK /\ IssuedOK
      /\ HandlersOK /\ RunnerOK /\ up \in BOOLEAN
  BY DEF Shapes
<1>p. Polling \in Runner /\ Polling.pc = "poll"
  BY DEF Polling, Runner
<1>1. CASE RunNext
  <2>1. PICK i \in DOMAIN queue :
           /\ PopNext(i)
           /\ runner' = [Polling EXCEPT !.pc = "run", !.ptr = queue[i]]
    BY <1>1 DEF RunNext
  <2>2. queue[i] \in Pointers
    BY <1>0 DEF QueueOK
  <2>3. QueueOK'
    BY <1>0, <2>1, RemovedSeq DEF QueueOK, PopNext
  <2>4. RunnerOK'
    BY <1>p, <2>1, <2>2 DEF RunnerOK, Runner
  <2> QED
    BY <1>0, <1>1, <2>3, <2>4, UnchangedParts DEF RunNext, Shapes, trackerVars, resultVars
<1>2. ASSUME NEW ok \in BOOLEAN, NEW out \in WriteOutcomes, FinishRun(ok, out)
      PROVE  Shapes'
  <2>1. runner.ptr[1] \in Ids /\ (IF ok THEN "done" ELSE "blocked") \in GoalStates
    BY <1>0, <1>2 DEF FinishRun, RunnerOK, Pointers, GoalStates
  <2>2. TrackerTypeOK'
    BY <1>0, <1>2, <2>1, UpdateGoalStateType DEF FinishRun
  <2>3. RunnerOK'
    BY <1>0, <1>2 DEF FinishRun, RunnerOK, Runner
  <2> QED
    BY <1>0, <1>2, <2>2, <2>3, UnchangedParts DEF FinishRun, Shapes, resultVars
<1>3. ASSUME NEW out \in WriteOutcomes, RecordResult(out)
      PROVE  Shapes'
  <2>1. runner.ptr[1] \in Ids /\ (IF runner.ok THEN "ok" ELSE "failed") \in Outcomes
    BY <1>0, <1>3 DEF RecordResult, RunnerOK, Pointers, Outcomes
  <2>2. ResultsTypeOK'
    BY <1>0, <1>3, <2>1, ResultsType DEF RecordResult
  <2>3. RunnerOK'
    BY <1>p, <1>3 DEF RecordResult, RunnerOK
  <2> QED
    BY <1>0, <1>3, <2>2, <2>3, UnchangedParts DEF RecordResult, Shapes, trackerVars
<1> QED
  BY <1>1, <1>2, <1>3 DEF RunnerStep

LEMMA ShapesCrash ==
    ASSUME Shapes, Crash \/ Restart
    PROVE  Shapes'
<1>0. /\ TrackerTypeOK /\ ResultsTypeOK /\ QueueOK /\ IssuedOK
      /\ HandlersOK /\ RunnerOK /\ up \in BOOLEAN
  BY DEF Shapes
<1>1. CASE Crash
  <2>1. TrackerTypeOK'
    BY <1>0, <1>1 DEF Crash, ForgetGoals, CutShort, TrackerTypeOK
  <2>2. ResultsTypeOK'
    BY <1>0, <1>1 DEF Crash, ForgetResults, CutShort, ResultsTypeOK
  <2>3. HandlersOK'
    BY <1>1, IdleShape DEF Crash, HandlersOK
  <2>4. RunnerOK'
    BY <1>1 DEF Crash, RunnerOK, Polling, Runner
  <2>5. QueueOK'
    <3>1. queue' = <<>>
      BY <1>1 DEF Crash
    <3> QED
      BY <3>1 DEF QueueOK
  <2>6. IssuedOK' /\ up' \in BOOLEAN
    BY <1>0, <1>1 DEF Crash, IssuedOK
  <2> QED
    BY <2>1, <2>2, <2>3, <2>4, <2>5, <2>6 DEF Shapes
<1>2. CASE Restart
  <2>1. disk \in [Ids -> Goal \cup {NoGoal}]
    BY <1>0, <1>2 DEF Restart, LoadGoals, TrackerTypeOK
  <2>2. /\ heap' = [p \in Pointers |-> IF p[2] = 1 THEN disk[p[1]] ELSE NoGoal]
        /\ tracked' = [id \in Ids |-> IF disk[id] = NoGoal THEN 0 ELSE 1]
        /\ disk' = disk
    BY <1>2 DEF Restart, LoadGoals
  <2>3. \A p \in Pointers : p[1] \in Ids
    BY DEF Pointers
  <2>4. 1 \in Versions
    BY GoalsAssumption DEF Versions
  <2>5. TrackerTypeOK'
    BY <2>1, <2>2, <2>3, <2>4 DEF TrackerTypeOK
  <2>6. ResultsTypeOK'
    BY <1>0, <1>2 DEF Restart, LoadResults, ResultsTypeOK
  <2> QED
    BY <1>0, <1>2, <2>5, <2>6, UnchangedParts DEF Restart, Shapes
<1> QED
  BY <1>1, <1>2

LEMMA ShapesNext == Shapes /\ [Next]_vars => Shapes'
<1> SUFFICES ASSUME Shapes, [Next]_vars PROVE Shapes'
  OBVIOUS
<1>1. CASE \E c \in Clients : Request(c) \/ HandlerStep(c)
  BY <1>1, ShapesRequest, ShapesHandler
<1>2. CASE RunnerStep \/ Crash \/ Restart
  BY <1>2, ShapesRunner, ShapesCrash
<1>3. CASE UNCHANGED vars
  BY <1>3, UnchangedParts DEF vars, trackerVars, resultVars, Shapes
<1> QED
  BY <1>1, <1>2, <1>3 DEF Next, Serving

-----------------------------------------------------------------------------
(* The files mirror memory.                                                 *)

\* Where the mirror is written down: every tracked goal as it is, or about to be.
Mirrored(id) ==
    \/ disk[id] = Image(heap, tracked)[id]
    \/ IsTracked(id) /\ AboutToTrack(TrackedPtr(id))

\* A successful whole-map write repairs the mirror for every goal at once.
LEMMA WriteMirrors ==
    ASSUME NEW h, NEW t, Persist(h, t, "written"), heap' = h, tracked' = t
    PROVE  \A id \in Ids : Mirrored(id)'
BY DEF Persist, AfterWrite, Mirrored

LEMMA TrackGoalMirrors ==
    ASSUME NEW h, NEW p, TrackGoal(h, p, "written")
    PROVE  \A id \in Ids : Mirrored(id)'
BY WriteMirrors DEF TrackGoal

\* A step that changes neither the map nor the objects, made by a request that was
\* not about to track, leaves the mirror as it was.
LEMMA MirrorKept ==
    ASSUME \A id \in Ids : Mirrored(id), UNCHANGED trackerVars,
           \A p \in Pointers : AboutToTrack(p) => AboutToTrack(p)',
           TrackerTypeOK
    PROVE  \A id \in Ids : Mirrored(id)'
<1> SUFFICES ASSUME NEW id \in Ids PROVE Mirrored(id)'
  OBVIOUS
<1>1. CASE disk[id] = Image(heap, tracked)[id]
  BY <1>1 DEF trackerVars, Mirrored, Image
<1>2. CASE IsTracked(id) /\ AboutToTrack(TrackedPtr(id))
  <2>1. TrackedPtr(id) \in Pointers /\ TrackedPtr(id)' = TrackedPtr(id)
    BY <1>2 DEF trackerVars, TrackedPtr, IsTracked, TrackerTypeOK, Pointers, Versions
  <2>2. AboutToTrack(TrackedPtr(id))'
    BY <1>2, <2>1
  <2> QED
    BY <1>2, <2>2 DEF Mirrored, IsTracked, trackerVars
<1> QED
  BY <1>1, <1>2 DEF Mirrored

LEMMA OthersAboutToTrack ==
    ASSUME HandlersOK, NEW c \in Clients, NEW h \in Handler, Goto(c, h),
           handler[c].pc \notin {"track", "trackAnswer"}
    PROVE  \A p \in Pointers : AboutToTrack(p) => AboutToTrack(p)'
BY DEF AboutToTrack, Goto, HandlersOK

\* A field assignment without the lock breaks the mirror of one goal, and the
\* handler is about to track that goal.
LEMMA AssignMirrors ==
    ASSUME \A id \in Ids : Mirrored(id), TrackerTypeOK, NEW p \in Pointers, NEW g,
           heap' = [heap EXCEPT ![p] = g], tracked' = tracked, disk' = disk,
           AboutToTrack(p)',
           \A q \in Pointers : AboutToTrack(q) => AboutToTrack(q)'
    PROVE  \A id \in Ids : Mirrored(id)'
<1> SUFFICES ASSUME NEW id \in Ids PROVE Mirrored(id)'
  OBVIOUS
<1>1. CASE ~IsTracked(id)
  BY <1>1 DEF Mirrored, IsTracked, Image
<1>2. CASE IsTracked(id) /\ TrackedPtr(id) = p
  BY <1>2 DEF Mirrored, IsTracked, TrackedPtr
<1>3. CASE IsTracked(id) /\ TrackedPtr(id) # p
  <2>1. TrackedPtr(id) \in Pointers /\ TrackedPtr(id)' = TrackedPtr(id)
    BY <1>3 DEF TrackedPtr, IsTracked, TrackerTypeOK, Pointers, Versions
  <2>2. heap'[TrackedPtr(id)] = heap[TrackedPtr(id)]
    BY <1>3, <2>1 DEF TrackerTypeOK
  <2>3. Image(heap', tracked')[id] = Image(heap, tracked)[id]
    BY <1>3, <2>2 DEF Image, TrackedPtr, IsTracked
  <2> QED
    BY <1>3, <2>1, <2>3 DEF Mirrored, IsTracked
<1> QED
  BY <1>1, <1>2, <1>3

LEMMA UpdateMirrors ==
    ASSUME \A id \in Ids : Mirrored(id), TrackerTypeOK,
           NEW i \in Ids, NEW s, UpdateGoalState(i, s, "written"),
           \A p \in Pointers : AboutToTrack(p) => AboutToTrack(p)'
    PROVE  \A id \in Ids : Mirrored(id)'
<1>1. CASE IsTracked(i) /\ IsValidTransition(StateOf(i), s)
  BY <1>1, WriteMirrors DEF UpdateGoalState
<1>2. CASE ~(IsTracked(i) /\ IsValidTransition(StateOf(i), s))
  BY <1>2, MirrorKept DEF UpdateGoalState
<1> QED
  BY <1>1, <1>2

LEMMA ResultsMirror ==
    ASSUME NEW id \in Ids,
           \/ UNCHANGED resultVars
           \/ \E o \in Outcomes : SaveResult(id, o, "written")
           \/ DeleteResult(id, "written"),
           results = resultsDisk
    PROVE  results' = resultsDisk'
BY DEF resultVars, SaveResult, DeleteResult, PersistResults, AfterWrite

Mirror == results = resultsDisk /\ \A id \in Ids : Mirrored(id)

LEMMA MirrorHandler ==
    ASSUME Shapes, Mirror, WriteOutcomes = {"written"}, NEW c \in Clients, HandlerStep(c)
    PROVE  Mirror'
<1>0. /\ TrackerTypeOK /\ HandlersOK /\ results = resultsDisk /\ \A id \in Ids : Mirrored(id)
      /\ handler[c].pc # "idle" => handler[c].ptr \in Pointers
      /\ handler[c].pc = "track" => handler[c].ref \in Pointers
  BY DEF Shapes, HandlersOK, HandlerOK, Mirror
<1>1. CASE RefineFails(c) \/ QueueCheck(c)
  <2>1. PICK pc \in {"queue", "enqueue", "activate"} : Goto(c, At(pc, handler[c].ptr))
    BY <1>1 DEF RefineFails, QueueCheck
  <2>2. \A p \in Pointers : AboutToTrack(p) => AboutToTrack(p)'
    BY <1>0, <1>1, <2>1, AtShape, OthersAboutToTrack DEF RefineFails, QueueCheck, HandlerPcs
  <2> QED
    BY <1>0, <1>1, <2>2, MirrorKept DEF RefineFails, QueueCheck, Mirror, trackerVars
<1>2. ASSUME NEW p \in Pointers, NEW g \in Goal, NEW asks \in BOOLEAN,
             p[1] = handler[c].ptr[1], RefineLeaves(c, p, g, asks)
      PROVE  Mirror'
  <2>1. handler[c].ptr \in Pointers
    BY <1>0, <1>2 DEF RefineLeaves
  <2>2. /\ Tracking(handler[c].ptr, p, asks) \in Handler
        /\ Tracking(handler[c].ptr, p, asks).pc = "track"
        /\ Tracking(handler[c].ptr, p, asks).ref = p
    BY <1>2, <2>1, TrackShape
  <2>3. \A q \in Pointers : AboutToTrack(q) => AboutToTrack(q)'
    BY <1>0, <1>2, <2>2, OthersAboutToTrack DEF RefineLeaves
  <2>4. AboutToTrack(p)'
    BY <1>0, <1>2, <2>2 DEF RefineLeaves, AboutToTrack, Goto, HandlersOK
  <2> QED
    BY <1>0, <1>2, <2>3, <2>4, AssignMirrors DEF RefineLeaves, Mirror
<1>3. CASE RefineAsks(c) \/ RefineAccepts(c) \/ RefineRewrites(c)
  <2>1. handler[c].ptr \in Pointers
    BY <1>0, <1>3 DEF RefineAsks, RefineAccepts, RefineRewrites, RefineLeaves
  <2>2. PICK p \in Pointers, g \in Goal, asks \in BOOLEAN :
           p[1] = handler[c].ptr[1] /\ RefineLeaves(c, p, g, asks)
    BY <1>3, <2>1, RefineCases
  <2> QED
    BY <1>2, <2>2
<1>4. CASE QueueEnqueue(c)
  <2>1. \A p \in Pointers : AboutToTrack(p) => AboutToTrack(p)'
    BY <1>0, <1>4, IdleShape, OthersAboutToTrack DEF QueueEnqueue
  <2> QED
    BY <1>0, <1>4, <2>1, MirrorKept DEF QueueEnqueue, Mirror, trackerVars
<1>5. CASE FoldAnswer(c)
  <2>1. PICK p \in Pointers : p = handler[c].ptr
    BY <1>0, <1>5 DEF FoldAnswer
  <2>2. /\ At("trackAnswer", p) \in Handler
        /\ At("trackAnswer", p).pc = "trackAnswer"
        /\ At("trackAnswer", p).ptr = p
    BY AtShape DEF HandlerPcs
  <2>3. \A q \in Pointers : AboutToTrack(q) => AboutToTrack(q)'
    BY <1>0, <1>5, <2>1, <2>2, OthersAboutToTrack DEF FoldAnswer
  <2>4. AboutToTrack(p)'
    BY <1>0, <1>5, <2>1, <2>2 DEF FoldAnswer, AboutToTrack, Goto, HandlersOK
  <2>5. PICK g : g = [heap[p] EXCEPT !.question = FALSE]
    OBVIOUS
  <2>6. heap' = [heap EXCEPT ![p] = g] /\ tracked' = tracked /\ disk' = disk
    BY <1>5, <2>1, <2>5 DEF FoldAnswer
  <2>7. \A id \in Ids : Mirrored(id)'
    BY <1>0, <2>3, <2>4, <2>6, AssignMirrors
  <2> QED
    BY <1>0, <1>5, <2>7 DEF FoldAnswer, Mirror
<1>6. CASE TrackRefined(c, "written") \/ TrackAnswer(c, "written")
  BY <1>0, <1>6, TrackGoalMirrors DEF TrackRefined, TrackAnswer, Mirror
<1>7. CASE QueueActivate(c, "written")
  <2>1. handler[c].ptr \in Pointers /\ handler[c].ptr[1] \in Ids
    BY <1>0, <1>7 DEF QueueActivate, Pointers
  <2>2. \A p \in Pointers : AboutToTrack(p) => AboutToTrack(p)'
    BY <1>0, <1>7, <2>1, AtShape, OthersAboutToTrack DEF QueueActivate, HandlerPcs
  <2> QED
    BY <1>0, <1>7, <2>1, <2>2, UpdateMirrors DEF QueueActivate, Mirror
<1>8. CASE DropResult(c, "written")
  <2>1. handler[c].ptr[1] \in Ids
    BY <1>0, <1>8 DEF DropResult, Pointers
  <2>2. \A p \in Pointers : AboutToTrack(p) => AboutToTrack(p)'
    BY <1>0, <1>8, IdleShape, OthersAboutToTrack DEF DropResult
  <2>3. results' = resultsDisk'
    BY <1>0, <1>8, <2>1, ResultsMirror DEF DropResult
  <2> QED
    BY <1>0, <1>8, <2>2, <2>3, MirrorKept DEF DropResult, Mirror, trackerVars
<1> QED
  BY <1>1, <1>3, <1>4, <1>5, <1>6, <1>7, <1>8 DEF HandlerStep

LEMMA MirrorRequest ==
    ASSUME Shapes, Mirror, WriteOutcomes = {"written"}, NEW c \in Clients, Request(c)
    PROVE  Mirror'
<1>0. /\ TrackerTypeOK /\ HandlersOK /\ results = resultsDisk /\ \A id \in Ids : Mirrored(id)
      /\ \A id \in Ids : IsTracked(id) => TrackedPtr(id) \in Pointers
  BY DEF Shapes, Mirror, IsTracked, TrackedPtr, TrackerTypeOK, Pointers, Versions
<1>1. ASSUME NEW draft \in BOOLEAN, SubmitGoal(c, draft, "written")
      PROVE  Mirror'
  BY <1>0, <1>1, TrackGoalMirrors DEF SubmitGoal, Mirror
<1>2. ASSUME NEW id \in Ids, RunGoal(c, id) \/ AnswerGoal(c, id)
      PROVE  Mirror'
  <2>1. PICK pc \in {"queue", "fold"} : Goto(c, At(pc, TrackedPtr(id)))
    BY <1>2 DEF RunGoal, AnswerGoal
  <2>2. TrackedPtr(id) \in Pointers /\ handler[c] = Idle /\ UNCHANGED trackerVars
    BY <1>0, <1>2 DEF RunGoal, AnswerGoal, trackerVars
  <2>3. \A p \in Pointers : AboutToTrack(p) => AboutToTrack(p)'
    BY <1>0, <2>1, <2>2, AtShape, IdleShape, OthersAboutToTrack DEF HandlerPcs
  <2> QED
    BY <1>0, <1>2, <2>2, <2>3, MirrorKept DEF RunGoal, AnswerGoal, Mirror
<1>3. ASSUME NEW id \in Ids, DismissGoal(c, id, "written")
      PROVE  Mirror'
  BY <1>0, <1>3, WriteMirrors DEF DismissGoal, DeleteGoal, Mirror
<1> QED
  BY <1>1, <1>2, <1>3 DEF Request

LEMMA MirrorRunner ==
    ASSUME Shapes, Mirror, WriteOutcomes = {"written"}, RunnerStep
    PROVE  Mirror'
<1>0. /\ TrackerTypeOK /\ RunnerOK /\ results = resultsDisk /\ \A id \in Ids : Mirrored(id)
      /\ runner.pc # "poll" => runner.ptr[1] \in Ids
  BY DEF Shapes, Mirror, RunnerOK, Pointers
<1>1. UNCHANGED handler
  BY DEF RunnerStep, RunNext, FinishRun, RecordResult
<1>2. \A p \in Pointers : AboutToTrack(p) => AboutToTrack(p)'
  BY <1>1 DEF AboutToTrack
<1>3. CASE RunNext
  BY <1>0, <1>2, <1>3, MirrorKept DEF RunNext, Mirror, trackerVars
<1>4. ASSUME NEW ok \in BOOLEAN, FinishRun(ok, "written")
      PROVE  Mirror'
  <2>1. PICK id \in Ids : id = runner.ptr[1]
    BY <1>0, <1>4 DEF FinishRun
  <2> DEFINE s == IF ok THEN "done" ELSE "blocked"
  <2>2. UpdateGoalState(id, s, "written")
    BY <1>4, <2>1 DEF FinishRun
  <2> HIDE DEF s
  <2>3. \A i \in Ids : Mirrored(i)'
    BY <1>0, <1>2, <2>2, UpdateMirrors
  <2> QED
    BY <1>0, <1>4, <2>3 DEF FinishRun, Mirror
<1>5. CASE RecordResult("written")
  <2>1. results' = resultsDisk'
    BY <1>0, <1>5 DEF RecordResult, SaveResult, PersistResults, AfterWrite
  <2> QED
    BY <1>0, <1>2, <1>5, <2>1, MirrorKept DEF RecordResult, Mirror, trackerVars
<1> QED
  BY <1>3, <1>4, <1>5 DEF RunnerStep

LEMMA MirrorRestart ==
    ASSUME Shapes, Restart
    PROVE  Mirror'
<1>1. /\ heap' = [p \in Pointers |-> IF p[2] = 1 THEN disk[p[1]] ELSE NoGoal]
      /\ tracked' = [id \in Ids |-> IF disk[id] = NoGoal THEN 0 ELSE 1]
      /\ disk' = disk /\ results' = resultsDisk'
  BY DEF Restart, LoadGoals, LoadResults
<1>2. \A id \in Ids : <<id, 1>> \in Pointers
  BY GoalsAssumption DEF Pointers, Versions
<1>3. \A id \in Ids : Image(heap', tracked')[id] = disk'[id]
  BY <1>1, <1>2 DEF Image
<1> QED
  BY <1>1, <1>3 DEF Mirror, Mirrored

LEMMA MirrorInit == Init => Mirror
BY DEF Init, TrackerInit, ResultsInit, Mirror, Mirrored, Image

LEMMA MirrorNext ==
    ASSUME Shapes, DiskMirror, [Next]_vars
    PROVE  DiskMirror'
<1>0. DiskMirror <=> (WriteOutcomes = {"written"} /\ up => Mirror)
  BY DEF DiskMirror, Mirror, Mirrored
<1>1. DiskMirror' <=> (WriteOutcomes = {"written"} /\ up' => Mirror')
  BY DEF DiskMirror, Mirror, Mirrored
<1> SUFFICES ASSUME WriteOutcomes = {"written"}, up' PROVE Mirror'
  BY <1>1
<1>2. CASE up /\ \E c \in Clients : Request(c) \/ HandlerStep(c)
  BY <1>0, <1>2, MirrorRequest, MirrorHandler
<1>3. CASE up /\ RunnerStep
  BY <1>0, <1>3, MirrorRunner
<1>4. CASE Crash
  BY <1>4 DEF Crash
<1>5. CASE Restart
  BY <1>5, MirrorRestart
<1>6. CASE UNCHANGED vars
  BY <1>0, <1>6 DEF vars, Mirror, Mirrored, IsTracked, TrackedPtr, AboutToTrack, Image
<1> QED
  BY <1>2, <1>3, <1>4, <1>5, <1>6 DEF Next, Serving

-----------------------------------------------------------------------------
(* No pointer in use dangles.                                               *)

Alive(p) == heap[p] # NoGoal

LEMMA GoalIsSome == NoGoal \notin Goal /\ NewGoal \in Goal
BY DEF NoGoal, NewGoal, Goal, GoalStates

\* While the process runs, a struct once made is never unmade.
LEMMA AssignAlive ==
    ASSUME TrackerTypeOK, NEW p \in Pointers, NEW g \in Goal, heap' = [heap EXCEPT ![p] = g],
           NEW q \in Pointers, Alive(q)
    PROVE  Alive(q)'
BY GoalIsSome DEF TrackerTypeOK, Alive

LEMMA UpdateAlive ==
    ASSUME TrackerTypeOK, NEW id \in Ids, NEW s \in GoalStates, NEW out,
           UpdateGoalState(id, s, out), NEW q \in Pointers, Alive(q)
    PROVE  Alive(q)'
<1>1. CASE IsTracked(id) /\ IsValidTransition(StateOf(id), s)
  <2>1. PICK p \in Pointers : p = TrackedPtr(id)
    BY <1>1 DEF TrackedPtr, IsTracked, TrackerTypeOK, Pointers, Versions
  <2>2. PICK g : g = [heap[p] EXCEPT !.state = s]
    OBVIOUS
  <2>3. g \in Goal
    BY <2>2, SetState DEF TrackerTypeOK
  <2>4. heap' = [heap EXCEPT ![p] = g]
    BY <1>1, <2>1, <2>2 DEF UpdateGoalState
  <2> QED
    BY <2>3, <2>4, AssignAlive
<1>2. CASE ~(IsTracked(id) /\ IsValidTransition(StateOf(id), s))
  BY <1>2 DEF UpdateGoalState, trackerVars, Alive
<1> QED
  BY <1>1, <1>2

LEMMA FoldAlive ==
    ASSUME Shapes, NEW c \in Clients, FoldAnswer(c), NEW q \in Pointers, Alive(q)
    PROVE  Alive(q)'
<1>1. PICK p \in Pointers : p = handler[c].ptr
  BY DEF FoldAnswer, Shapes, HandlersOK, HandlerOK
<1>2. PICK g : g = [heap[p] EXCEPT !.question = FALSE]
  OBVIOUS
<1>3. heap' = [heap EXCEPT ![p] = g] /\ TrackerTypeOK
  BY <1>1, <1>2 DEF FoldAnswer, Shapes
<1>4. CASE heap[p] \in Goal
  BY <1>2, <1>3, <1>4, SetQuestion, AssignAlive
<1>5. CASE heap[p] = NoGoal
  BY <1>3, <1>5 DEF Alive, TrackerTypeOK
<1> QED
  BY <1>3, <1>4, <1>5 DEF TrackerTypeOK

LEMMA AliveKept ==
    ASSUME Shapes, \/ \E c \in Clients : Request(c) \/ HandlerStep(c)
                   \/ RunnerStep,
           NEW q \in Pointers, Alive(q)
    PROVE  Alive(q)'
<1>0. TrackerTypeOK /\ HandlersOK /\ RunnerOK /\ IssuedOK
  BY DEF Shapes
<1>1. ASSUME NEW c \in Clients, Request(c)
      PROVE  Alive(q)'
  <2>1. ASSUME NEW draft, NEW out, SubmitGoal(c, draft, out)
        PROVE  Alive(q)'
    <3>1. PICK p \in Pointers : p = <<issued + 1, 1>>
      BY <1>0, <2>1, GoalsAssumption DEF SubmitGoal, Pointers, Ids, Versions, IssuedOK
    <3>2. heap' = [heap EXCEPT ![p] = NewGoal]
      BY <2>1, <3>1 DEF SubmitGoal, TrackGoal
    <3> QED
      BY <1>0, <3>2, GoalIsSome, AssignAlive
  <2>2. ASSUME NEW id \in Ids, NEW out,
               RunGoal(c, id) \/ AnswerGoal(c, id) \/ DismissGoal(c, id, out)
        PROVE  Alive(q)'
    BY <2>2 DEF RunGoal, AnswerGoal, DismissGoal, DeleteGoal, Alive
  <2> QED
    BY <1>1, <2>1, <2>2 DEF Request
<1>2. ASSUME NEW c \in Clients, HandlerStep(c)
      PROVE  Alive(q)'
  <2>1. CASE RefineFails(c) \/ QueueCheck(c) \/ QueueEnqueue(c)
    BY <2>1 DEF RefineFails, QueueCheck, QueueEnqueue, Alive
  <2>2. CASE RefineAsks(c) \/ RefineAccepts(c) \/ RefineRewrites(c)
    <3>1. handler[c].ptr \in Pointers
      BY <1>0, <2>2 DEF RefineAsks, RefineAccepts, RefineRewrites, RefineLeaves, HandlersOK, HandlerOK
    <3>2. PICK p \in Pointers, g \in Goal, asks \in BOOLEAN : RefineLeaves(c, p, g, asks)
      BY <2>2, <3>1, RefineCases
    <3> QED
      BY <1>0, <3>2, AssignAlive DEF RefineLeaves
  <2>3. CASE FoldAnswer(c)
    BY <2>3, FoldAlive
  <2>4. ASSUME NEW out, QueueActivate(c, out)
        PROVE  Alive(q)'
    <3>1. handler[c].ptr[1] \in Ids /\ "active" \in GoalStates
      BY <1>0, <2>4 DEF QueueActivate, HandlersOK, HandlerOK, Pointers, GoalStates
    <3> QED
      BY <1>0, <2>4, <3>1, UpdateAlive DEF QueueActivate
  <2>5. ASSUME NEW out, TrackRefined(c, out) \/ TrackAnswer(c, out) \/ DropResult(c, out)
        PROVE  Alive(q)'
    BY <2>5 DEF TrackRefined, TrackAnswer, DropResult, TrackGoal, Alive
  <2> QED
    BY <1>2, <2>1, <2>2, <2>3, <2>4, <2>5 DEF HandlerStep
<1>3. CASE RunnerStep
  <2>1. ASSUME NEW ok, NEW out, FinishRun(ok, out)
        PROVE  Alive(q)'
    <3>1. runner.ptr[1] \in Ids /\ (IF ok THEN "done" ELSE "blocked") \in GoalStates
      BY <1>0, <2>1 DEF FinishRun, RunnerOK, Pointers, GoalStates
    <3> QED
      BY <1>0, <2>1, <3>1, UpdateAlive DEF FinishRun
  <2> QED
    BY <1>3, <2>1 DEF RunnerStep, RunNext, RecordResult, Alive
<1> QED
  BY <1>1, <1>2, <1>3

Held(p) == \E c \in Clients : p \in {handler[c].ptr, handler[c].ref}
Queued(p) == \E i \in DOMAIN queue : queue[i] = p

\* A step makes a pointer used only by leaving it alive, or by copying one in use.
NoneDangles == \A p \in Pointers : InUse(p)' => InUse(p) \/ Alive(p)'

LEMMA NilIsNoPointer == Nil \notin Pointers
BY DEF Nil, Pointers, Ids

LEMMA GotoHeld ==
    ASSUME HandlersOK, NEW c \in Clients, NEW h \in Handler, Goto(c, h),
           NEW p \in Pointers, Held(p)'
    PROVE  Held(p) \/ p \in {h.ptr, h.ref}
BY DEF HandlersOK, Goto, Held

LEMMA AtHeld ==
    ASSUME HandlersOK, NEW c \in Clients, NEW q \in Pointers,
           NEW pc \in HandlerPcs \ {"idle", "track"}, Goto(c, At(pc, q)),
           NEW p \in Pointers, Held(p)'
    PROVE  Held(p) \/ p = q
BY AtShape, NilIsNoPointer, GotoHeld

LEMMA IdleHeld ==
    ASSUME HandlersOK, NEW c \in Clients, Goto(c, Idle), NEW p \in Pointers, Held(p)'
    PROVE  Held(p)
<1>1. Idle.ptr = Nil /\ Idle.ref = Nil
  BY DEF Idle
<1> QED
  BY <1>1, IdleShape, NilIsNoPointer, GotoHeld

LEMMA TrackedUse ==
    ASSUME TrackerTypeOK, NEW h, NEW r \in Pointers, NEW out, TrackGoal(h, r, out),
           NEW p \in Pointers, tracked'[p[1]] = p[2]
    PROVE  tracked[p[1]] = p[2] \/ p = r
<1>1. PICK i \in Ids, v \in Versions : p = <<i, v>>
  BY DEF Pointers
<1>2. PICK j \in Ids, w \in Versions : r = <<j, w>>
  BY DEF Pointers
<1> QED
  BY <1>1, <1>2 DEF TrackGoal, TrackerTypeOK

LEMMA UpdateUse ==
    ASSUME NEW id, NEW s, NEW out, UpdateGoalState(id, s, out)
    PROVE  tracked' = tracked
BY DEF UpdateGoalState, trackerVars

LEMMA HandlerUse ==
    ASSUME Shapes, NEW c \in Clients, HandlerStep(c)
    PROVE  NoneDangles
<1>0. /\ TrackerTypeOK /\ HandlersOK /\ QueueOK
      /\ handler[c].pc # "idle" => handler[c].ptr \in Pointers
      /\ handler[c].pc = "track" => handler[c].ref \in Pointers
  BY DEF Shapes, HandlersOK, HandlerOK
<1> SUFFICES ASSUME NEW p \in Pointers, InUse(p)' PROVE InUse(p) \/ Alive(p)'
  BY DEF NoneDangles
<1>i. /\ InUse(p)' <=> \/ tracked'[p[1]] = p[2] \/ Queued(p)' \/ Held(p)' \/ runner'.ptr = p
      /\ InUse(p) <=> \/ tracked[p[1]] = p[2] \/ Queued(p) \/ Held(p) \/ runner.ptr = p
  BY DEF InUse, Queued, Held
<1>r. handler[c].pc # "idle" => Held(handler[c].ptr)
  BY DEF Held
<1>1. CASE RefineFails(c) \/ QueueCheck(c)
  <2>1. handler[c].ptr \in Pointers /\ Held(handler[c].ptr)
    BY <1>0, <1>1, <1>r DEF RefineFails, QueueCheck
  <2>2. PICK pc \in {"queue", "enqueue", "activate"} : Goto(c, At(pc, handler[c].ptr))
    BY <1>1 DEF RefineFails, QueueCheck
  <2>3. Held(p)' => Held(p)
    BY <1>0, <2>1, <2>2, AtHeld DEF HandlerPcs
  <2> QED
    BY <1>1, <1>i, <2>3 DEF RefineFails, QueueCheck, Queued
<1>2. CASE RefineAsks(c) \/ RefineAccepts(c) \/ RefineRewrites(c)
  <2>1. handler[c].ptr \in Pointers /\ Held(handler[c].ptr)
    BY <1>0, <1>2, <1>r DEF RefineAsks, RefineAccepts, RefineRewrites, RefineLeaves
  <2>2. PICK r \in Pointers, g \in Goal, asks \in BOOLEAN :
           r[1] = handler[c].ptr[1] /\ RefineLeaves(c, r, g, asks)
    BY <1>2, <2>1, RefineCases
  <2>3. Alive(r)'
    BY <1>0, <2>2, GoalIsSome DEF RefineLeaves, Alive, TrackerTypeOK
  <2>4. /\ Tracking(handler[c].ptr, r, asks) \in Handler
        /\ Tracking(handler[c].ptr, r, asks).ptr = handler[c].ptr
        /\ Tracking(handler[c].ptr, r, asks).ref = r
    BY <2>1, <2>2, TrackShape
  <2>5. Held(p)' => Held(p) \/ p = r
    BY <1>0, <2>1, <2>2, <2>4, GotoHeld DEF RefineLeaves
  <2> QED
    BY <1>i, <2>2, <2>3, <2>5 DEF RefineLeaves, Queued
<1>3. CASE QueueEnqueue(c)
  <2>1. handler[c].ptr \in Pointers /\ Held(handler[c].ptr)
    BY <1>0, <1>3, <1>r DEF QueueEnqueue
  <2>2. Queued(p)' => Queued(p) \/ p = handler[c].ptr
    BY <1>0, <1>3, <2>1, EnqueueType DEF QueueEnqueue, QueueOK, Queued
  <2>3. Held(p)' => Held(p)
    BY <1>0, <1>3, IdleHeld DEF QueueEnqueue
  <2> QED
    BY <1>3, <1>i, <2>1, <2>2, <2>3 DEF QueueEnqueue
<1>4. CASE FoldAnswer(c)
  <2>1. handler[c].ptr \in Pointers /\ Held(handler[c].ptr)
    BY <1>0, <1>4, <1>r DEF FoldAnswer
  <2>2. Held(p)' => Held(p)
    BY <1>0, <1>4, <2>1, AtHeld DEF FoldAnswer, HandlerPcs
  <2> QED
    BY <1>4, <1>i, <2>2 DEF FoldAnswer, Queued
<1>5. ASSUME NEW out, TrackRefined(c, out)
      PROVE  InUse(p) \/ Alive(p)'
  <2>1. /\ handler[c].ptr \in Pointers /\ Held(handler[c].ptr)
        /\ handler[c].ref \in Pointers /\ Held(handler[c].ref)
    BY <1>0, <1>5 DEF TrackRefined, Held
  <2>2. tracked'[p[1]] = p[2] => tracked[p[1]] = p[2] \/ p = handler[c].ref
    BY <1>0, <1>5, <2>1, TrackedUse DEF TrackRefined
  <2>3. \/ Goto(c, Idle)
        \/ Goto(c, At("queue", handler[c].ptr))
        \/ Goto(c, At("queue", handler[c].ref))
    BY <1>5 DEF TrackRefined
  <2>4. Held(p)' => Held(p)
    BY <1>0, <2>1, <2>3, AtHeld, IdleHeld DEF HandlerPcs
  <2> QED
    BY <1>5, <1>i, <2>1, <2>2, <2>4 DEF TrackRefined, Queued
<1>6. ASSUME NEW out, QueueActivate(c, out)
      PROVE  InUse(p) \/ Alive(p)'
  <2>1. handler[c].ptr \in Pointers /\ Held(handler[c].ptr)
    BY <1>0, <1>6, <1>r DEF QueueActivate
  <2>2. Held(p)' => Held(p)
    BY <1>0, <1>6, <2>1, AtHeld DEF QueueActivate, HandlerPcs
  <2>3. tracked' = tracked
    BY <1>6, UpdateUse DEF QueueActivate
  <2> QED
    BY <1>6, <1>i, <2>2, <2>3 DEF QueueActivate, Queued
<1>7. ASSUME NEW out, TrackAnswer(c, out)
      PROVE  InUse(p) \/ Alive(p)'
  <2>1. handler[c].ptr \in Pointers /\ Held(handler[c].ptr)
    BY <1>0, <1>7, <1>r DEF TrackAnswer
  <2>2. tracked'[p[1]] = p[2] => tracked[p[1]] = p[2] \/ p = handler[c].ptr
    BY <1>0, <1>7, <2>1, TrackedUse DEF TrackAnswer
  <2>3. Held(p)' => Held(p)
    BY <1>0, <1>7, <2>1, AtHeld, IdleHeld DEF TrackAnswer, HandlerPcs
  <2> QED
    BY <1>7, <1>i, <2>1, <2>2, <2>3 DEF TrackAnswer, Queued
<1>8. ASSUME NEW out, DropResult(c, out)
      PROVE  InUse(p) \/ Alive(p)'
  BY <1>0, <1>8, <1>i, IdleHeld DEF DropResult, Queued
<1> QED
  BY <1>1, <1>2, <1>3, <1>4, <1>5, <1>6, <1>7, <1>8 DEF HandlerStep

LEMMA RequestUse ==
    ASSUME Shapes, NEW c \in Clients, Request(c)
    PROVE  NoneDangles
<1>0. /\ TrackerTypeOK /\ HandlersOK /\ IssuedOK
      /\ \A id \in Ids : IsTracked(id) => TrackedPtr(id) \in Pointers
  BY DEF Shapes, IsTracked, TrackedPtr, TrackerTypeOK, Pointers, Versions
<1> SUFFICES ASSUME NEW p \in Pointers, InUse(p)' PROVE InUse(p) \/ Alive(p)'
  BY DEF NoneDangles
<1>i. /\ InUse(p)' <=> \/ tracked'[p[1]] = p[2] \/ Queued(p)' \/ Held(p)' \/ runner'.ptr = p
      /\ InUse(p) <=> \/ tracked[p[1]] = p[2] \/ Queued(p) \/ Held(p) \/ runner.ptr = p
  BY DEF InUse, Queued, Held
<1>t. \A id \in Ids : p = TrackedPtr(id) => InUse(p)
  BY <1>i DEF TrackedPtr
<1>1. ASSUME NEW draft, NEW out, SubmitGoal(c, draft, out)
      PROVE  InUse(p) \/ Alive(p)'
  <2>1. PICK r \in Pointers : r = <<issued + 1, 1>>
    BY <1>0, <1>1, GoalsAssumption DEF SubmitGoal, Pointers, Ids, Versions, IssuedOK
  <2>2. PICK h : h = [heap EXCEPT ![r] = NewGoal] /\ TrackGoal(h, r, out)
    BY <1>1, <2>1 DEF SubmitGoal
  <2>3. Alive(r)'
    BY <1>0, <2>2, GoalIsSome DEF TrackGoal, Alive, TrackerTypeOK
  <2>4. tracked'[p[1]] = p[2] => tracked[p[1]] = p[2] \/ p = r
    BY <1>0, <2>2, TrackedUse
  <2>5. handler' = handler \/ Goto(c, At("refine", r))
    BY <1>1, <2>1 DEF SubmitGoal
  <2>6. Held(p)' => Held(p) \/ p = r
    BY <1>0, <2>5, AtHeld DEF HandlerPcs, Held
  <2> QED
    BY <1>1, <1>i, <2>3, <2>4, <2>6 DEF SubmitGoal, Queued
<1>2. ASSUME NEW id \in Ids, RunGoal(c, id) \/ AnswerGoal(c, id)
      PROVE  InUse(p) \/ Alive(p)'
  <2>1. TrackedPtr(id) \in Pointers
    BY <1>0, <1>2 DEF RunGoal, AnswerGoal
  <2>2. Held(p)' => Held(p) \/ p = TrackedPtr(id)
    BY <1>0, <1>2, <2>1, AtHeld DEF RunGoal, AnswerGoal, HandlerPcs
  <2> QED
    BY <1>2, <1>i, <1>t, <2>2 DEF RunGoal, AnswerGoal, Queued
<1>3. ASSUME NEW id \in Ids, NEW out, DismissGoal(c, id, out)
      PROVE  InUse(p) \/ Alive(p)'
  <2>1. TrackedPtr(id) \in Pointers /\ p[1] \in Ids /\ p[2] # 0
    BY <1>0, <1>3 DEF DismissGoal, DeleteGoal, Pointers, Versions
  <2>2. Held(p)' => Held(p) \/ p = TrackedPtr(id)
    BY <1>0, <1>3, <2>1, AtHeld DEF DismissGoal, HandlerPcs, Held
  <2>3. tracked'[p[1]] = p[2] => tracked[p[1]] = p[2]
    BY <1>0, <1>3, <2>1 DEF DismissGoal, DeleteGoal, TrackerTypeOK
  <2> QED
    BY <1>3, <1>i, <1>t, <2>2, <2>3 DEF DismissGoal, Queued
<1> QED
  BY <1>1, <1>2, <1>3 DEF Request

LEMMA RunnerUse ==
    ASSUME Shapes, RunnerStep
    PROVE  NoneDangles
<1>0. TrackerTypeOK /\ RunnerOK /\ QueueOK
  BY DEF Shapes
<1> SUFFICES ASSUME NEW p \in Pointers, InUse(p)' PROVE InUse(p)
  BY DEF NoneDangles
<1>i. /\ InUse(p)' <=> \/ tracked'[p[1]] = p[2] \/ Queued(p)' \/ Held(p)' \/ runner'.ptr = p
      /\ InUse(p) <=> \/ tracked[p[1]] = p[2] \/ Queued(p) \/ Held(p) \/ runner.ptr = p
  BY DEF InUse, Queued, Held
<1>1. CASE RunNext
  <2>1. PICK i \in DOMAIN queue :
           /\ PopNext(i)
           /\ runner' = [Polling EXCEPT !.pc = "run", !.ptr = queue[i]]
    BY <1>1 DEF RunNext
  <2>2. Queued(p)' => Queued(p)
    BY <1>0, <2>1, RemovedSeq DEF QueueOK, PopNext, Queued
  <2>3. runner'.ptr = queue[i]
    BY <2>1 DEF Polling
  <2> QED
    BY <1>1, <1>i, <2>2, <2>3 DEF RunNext, Held, Queued
<1>2. ASSUME NEW ok, NEW out, FinishRun(ok, out)
      PROVE  InUse(p)
  <2>1. tracked' = tracked /\ runner'.ptr = runner.ptr
    BY <1>0, <1>2, UpdateUse DEF FinishRun, RunnerOK, Runner
  <2> QED
    BY <1>2, <1>i, <2>1 DEF FinishRun, Held, Queued
<1>3. ASSUME NEW out, RecordResult(out)
      PROVE  InUse(p)
  <2>1. runner'.ptr # p
    BY <1>3, NilIsNoPointer DEF RecordResult, Polling
  <2> QED
    BY <1>3, <1>i, <2>1 DEF RecordResult, Held, Queued
<1> QED
  BY <1>1, <1>2, <1>3 DEF RunnerStep

\* A crash leaves nothing in use; a restart uses what the file holds.
LEMMA NothingInUse ==
    ASSUME DownIsEmpty, ~up, NEW p \in Pointers, InUse(p)
    PROVE  tracked[p[1]] = p[2]
<1>1. Idle.ptr = Nil /\ Idle.ref = Nil /\ Polling.ptr = Nil
  BY DEF Idle, Polling
<1>2. /\ queue = <<>> /\ runner.ptr = Nil
      /\ \A c \in Clients : handler[c].ptr = Nil /\ handler[c].ref = Nil
  BY <1>1 DEF DownIsEmpty
<1> QED
  BY <1>2, NilIsNoPointer DEF InUse

LEMMA DownIsEmptyNext ==
    ASSUME DownIsEmpty, [Next]_vars
    PROVE  DownIsEmpty'
<1>1. CASE up /\ \E c \in Clients : Request(c) \/ HandlerStep(c)
  <2>1. UNCHANGED up
    BY <1>1 DEF Request, HandlerStep, SubmitGoal, RunGoal, AnswerGoal, DismissGoal,
           RefineFails, RefineAsks, RefineAccepts, RefineRewrites, RefineLeaves, QueueCheck,
           QueueEnqueue, FoldAnswer, TrackRefined, QueueActivate, TrackAnswer, DropResult
  <2> QED
    BY <1>1, <2>1 DEF DownIsEmpty
<1>2. CASE up /\ RunnerStep
  BY <1>2 DEF RunnerStep, RunNext, FinishRun, RecordResult, DownIsEmpty
<1>3. CASE Crash \/ Restart \/ UNCHANGED vars
  BY <1>3 DEF Crash, Restart, vars, DownIsEmpty
<1> QED
  BY <1>1, <1>2, <1>3 DEF Next, Serving

LEMMA NoDanglingInit == Init => NoDanglingPointer
<1>1. Idle.ptr = Nil /\ Idle.ref = Nil /\ Polling.ptr = Nil
  BY DEF Idle, Polling
<1> QED
  BY <1>1, NilIsNoPointer
     DEF Init, TrackerInit, NoDanglingPointer, InUse, Pointers, Versions

LEMMA NoDanglingNext ==
    ASSUME Shapes, DownIsEmpty, NoDanglingPointer, [Next]_vars
    PROVE  NoDanglingPointer'
<1>0. Shapes' /\ DownIsEmpty'
  BY ShapesNext, DownIsEmptyNext
<1>1. CASE (\E c \in Clients : Request(c) \/ HandlerStep(c)) \/ RunnerStep
  <2>1. NoneDangles
    BY <1>1, HandlerUse, RequestUse, RunnerUse
  <2> QED
    BY <1>1, <2>1, AliveKept DEF NoneDangles, NoDanglingPointer, Alive
<1>2. CASE Crash
  <2>1. \A p \in Pointers : tracked'[p[1]] # p[2]
    BY <1>2 DEF Crash, ForgetGoals, Pointers, Versions
  <2>2. \A p \in Pointers : InUse(p)' => tracked'[p[1]] = p[2]
    <3>1. \A c \in Clients : handler'[c] = Idle
      BY <1>2 DEF Crash
    <3>2. Idle.ptr = Nil /\ Idle.ref = Nil /\ Polling.ptr = Nil
      BY DEF Idle, Polling
    <3> QED
      BY <1>2, <3>1, <3>2, NilIsNoPointer DEF Crash, InUse
  <2> QED
    BY <2>1, <2>2 DEF NoDanglingPointer
<1>3. CASE Restart
  <2>1. \A p \in Pointers : InUse(p)' => tracked'[p[1]] = p[2]
    <3>1. \A p \in Pointers : InUse(p)' => InUse(p) \/ tracked'[p[1]] = p[2]
      BY <1>3 DEF Restart, InUse
    <3>2. /\ queue = <<>> /\ runner.ptr = Nil
          /\ \A c \in Clients : handler[c].ptr = Nil /\ handler[c].ref = Nil
      BY <1>3 DEF DownIsEmpty, Restart, Idle, Polling
    <3> QED
      BY <1>3, <3>2, NilIsNoPointer DEF Restart, InUse
  <2>2. ASSUME NEW p \in Pointers, tracked'[p[1]] = p[2]
        PROVE  heap'[p] # NoGoal
    <3>1. p[1] \in Ids /\ p[2] \in Versions /\ p[2] # 0
      BY DEF Pointers, Versions
    <3>2. p[2] = 1 /\ disk[p[1]] # NoGoal
      BY <1>3, <2>2, <3>1 DEF Restart, LoadGoals
    <3> QED
      BY <1>3, <3>2 DEF Restart, LoadGoals
  <2> QED
    BY <2>1, <2>2 DEF NoDanglingPointer
<1>4. CASE UNCHANGED vars
  BY <1>4 DEF vars, NoDanglingPointer, InUse
<1> QED
  BY <1>1, <1>2, <1>3, <1>4 DEF Next, Serving

-----------------------------------------------------------------------------
(* Only IDs handed out are known.                                           *)

Unknown(id) == tracked[id] = 0 /\ (disk # Torn => disk[id] = NoGoal)

LEMMA PersistUnknown ==
    ASSUME NEW h, NEW t, NEW out, Persist(h, t, out), NEW id \in Ids, t[id] = 0,
           disk # Torn => disk[id] = NoGoal
    PROVE  disk' # Torn => disk'[id] = NoGoal
BY DEF Persist, AfterWrite, Image

LEMMA TrackUnknown ==
    ASSUME TrackerTypeOK, NEW h, NEW p \in Pointers, NEW out, TrackGoal(h, p, out),
           NEW id \in Ids, Unknown(id), id # p[1]
    PROVE  Unknown(id)'
<1> DEFINE t == [tracked EXCEPT ![p[1]] = p[2]]
<1>1. t[id] = 0 /\ tracked' = t /\ Persist(h, t, out)
  BY DEF TrackGoal, TrackerTypeOK, Unknown
<1> HIDE DEF t
<1> QED
  BY <1>1, PersistUnknown DEF Unknown

LEMMA UpdateUnknown ==
    ASSUME NEW i, NEW s, NEW out, UpdateGoalState(i, s, out), NEW id \in Ids, Unknown(id)
    PROVE  Unknown(id)'
BY PersistUnknown DEF UpdateGoalState, trackerVars, Unknown

LEMMA KnownHandlers ==
    ASSUME HandlersOK, NEW c \in Clients, NEW h \in Handler, Goto(c, h),
           h.pc # "idle" => h.ptr[1] <= issued',
           \A d \in Clients : handler[d].pc # "idle" => handler[d].ptr[1] <= issued'
    PROVE  \A d \in Clients : handler'[d].pc # "idle" => handler'[d].ptr[1] <= issued'
BY DEF HandlersOK, Goto

LEMMA KnownIdsHandler ==
    ASSUME Shapes, KnownIds, NEW c \in Clients, HandlerStep(c)
    PROVE  KnownIds'
<1>0. /\ TrackerTypeOK /\ HandlersOK /\ issued \in Nat
      /\ handler[c].pc # "idle" =>
            /\ handler[c].ptr \in Pointers /\ handler[c].ptr[1] \in Ids
            /\ handler[c].ptr[1] <= issued
      /\ handler[c].pc = "track" =>
            handler[c].ref \in Pointers /\ handler[c].ref[1] = handler[c].ptr[1]
      /\ \A id \in Ids : id > issued => Unknown(id)
      /\ Ids \subseteq Nat
  BY GoalsAssumption DEF Shapes, HandlersOK, HandlerOK, KnownIds, IssuedOK, Pointers, Unknown, Ids
<1>k. ASSUME issued' = issued, \A id \in Ids : id > issued => Unknown(id)',
             NEW h \in Handler, Goto(c, h), h.pc # "idle" => h.ptr[1] <= issued
      PROVE  KnownIds'
  BY <1>0, <1>k, KnownHandlers DEF KnownIds, Unknown
<1>a. ASSUME issued' = issued, \A id \in Ids : id > issued => Unknown(id)',
             NEW pc \in HandlerPcs \ {"idle", "track"}, NEW q \in Pointers, q[1] <= issued,
             Goto(c, At(pc, q)) \/ Goto(c, Idle)
      PROVE  KnownIds'
  BY <1>a, <1>k, AtShape, IdleShape
<1>1. CASE RefineFails(c) \/ QueueCheck(c) \/ FoldAnswer(c) \/ QueueEnqueue(c)
  <2>1. \A id \in Ids : id > issued => Unknown(id)'
    BY <1>0, <1>1 DEF RefineFails, QueueCheck, FoldAnswer, QueueEnqueue, Unknown
  <2>2. handler[c].pc # "idle" /\ issued' = issued
    BY <1>1 DEF RefineFails, QueueCheck, FoldAnswer, QueueEnqueue
  <2>3. \/ \E pc \in {"queue", "enqueue", "activate", "trackAnswer"} :
              Goto(c, At(pc, handler[c].ptr))
        \/ Goto(c, Idle)
    BY <1>1 DEF RefineFails, QueueCheck, FoldAnswer, QueueEnqueue
  <2>4. {"queue", "enqueue", "activate", "trackAnswer"} \subseteq HandlerPcs \ {"idle", "track"}
    BY DEF HandlerPcs
  <2> QED
    BY <1>0, <1>a, <2>1, <2>2, <2>3, <2>4
<1>2. CASE RefineAsks(c) \/ RefineAccepts(c) \/ RefineRewrites(c)
  <2>1. handler[c].ptr \in Pointers /\ handler[c].ptr[1] <= issued
    BY <1>0, <1>2 DEF RefineAsks, RefineAccepts, RefineRewrites, RefineLeaves
  <2>2. PICK r \in Pointers, g \in Goal, asks \in BOOLEAN :
           r[1] = handler[c].ptr[1] /\ RefineLeaves(c, r, g, asks)
    BY <1>2, <2>1, RefineCases
  <2>3. /\ Tracking(handler[c].ptr, r, asks) \in Handler
        /\ Tracking(handler[c].ptr, r, asks).ptr = handler[c].ptr
    BY <2>1, <2>2, TrackShape
  <2>4. \A id \in Ids : id > issued => Unknown(id)'
    BY <1>0, <2>2 DEF RefineLeaves, Unknown
  <2> QED
    BY <1>k, <2>1, <2>2, <2>3, <2>4 DEF RefineLeaves
<1>3. ASSUME NEW out, TrackRefined(c, out)
      PROVE  KnownIds'
  <2>1. /\ handler[c].ptr \in Pointers /\ handler[c].ref \in Pointers
        /\ handler[c].ptr[1] <= issued /\ handler[c].ref[1] <= issued
    BY <1>0, <1>3 DEF TrackRefined
  <2>2. \A id \in Ids : id > issued => Unknown(id)'
    BY <1>0, <1>3, <2>1, TrackUnknown DEF TrackRefined
  <2>3. PICK q \in {handler[c].ptr, handler[c].ref} : Goto(c, At("queue", q)) \/ Goto(c, Idle)
    BY <1>3 DEF TrackRefined
  <2> QED
    BY <1>3, <1>a, <2>1, <2>2, <2>3 DEF TrackRefined, HandlerPcs
<1>4. ASSUME NEW out, QueueActivate(c, out)
      PROVE  KnownIds'
  <2>1. \A id \in Ids : id > issued => Unknown(id)'
    BY <1>0, <1>4, UpdateUnknown DEF QueueActivate
  <2> QED
    BY <1>0, <1>4, <1>a, <2>1 DEF QueueActivate, HandlerPcs
<1>5. ASSUME NEW out, TrackAnswer(c, out)
      PROVE  KnownIds'
  <2>1. /\ handler[c].ptr \in Pointers /\ handler[c].ptr[1] <= issued
        /\ handler[c].ptr[1] \in Nat
    BY <1>0, <1>5 DEF TrackAnswer
  <2>2. \A id \in Ids : id > issued => Unknown(id)'
    BY <1>0, <1>5, <2>1, TrackUnknown DEF TrackAnswer
  <2>3. Goto(c, At("refine", handler[c].ptr)) \/ Goto(c, Idle)
    BY <1>5 DEF TrackAnswer
  <2> QED
    BY <1>5, <1>a, <2>1, <2>2, <2>3 DEF TrackAnswer, HandlerPcs
<1>6. ASSUME NEW out, DropResult(c, out)
      PROVE  KnownIds'
  <2>1. \A id \in Ids : id > issued => Unknown(id)'
    BY <1>0, <1>6 DEF DropResult, Unknown
  <2> QED
    BY <1>0, <1>6, <1>k, <2>1, IdleShape DEF DropResult
<1> QED
  BY <1>1, <1>2, <1>3, <1>4, <1>5, <1>6 DEF HandlerStep

LEMMA KnownIdsRequest ==
    ASSUME Shapes, KnownIds, NEW c \in Clients, Request(c)
    PROVE  KnownIds'
<1>0. /\ TrackerTypeOK /\ HandlersOK /\ issued \in Nat /\ Ids \subseteq Nat
      /\ \A id \in Ids : id > issued => Unknown(id)
      /\ \A d \in Clients : handler[d].pc # "idle" =>
            handler[d].ptr[1] <= issued /\ handler[d].ptr[1] \in Nat
  BY GoalsAssumption DEF Shapes, HandlersOK, HandlerOK, KnownIds, IssuedOK, Pointers, Unknown, Ids
<1>t. \A id \in Ids : IsTracked(id) =>
         TrackedPtr(id) \in Pointers /\ TrackedPtr(id)[1] = id /\ id <= issued
  BY <1>0 DEF IsTracked, TrackedPtr, TrackerTypeOK, Pointers, Versions, Unknown
<1>k. ASSUME issued <= issued', \A id \in Ids : id > issued' => Unknown(id)',
             issued' \in Nat, NEW q \in Pointers, q[1] <= issued',
             \/ handler' = handler
             \/ \E pc \in {"refine", "queue", "fold", "dropResult"} : Goto(c, At(pc, q))
      PROVE  KnownIds'
  <2>1. \A d \in Clients : handler[d].pc # "idle" => handler[d].ptr[1] <= issued'
    BY <1>0, <1>k
  <2>2. CASE handler' = handler
    BY <1>k, <2>1, <2>2 DEF KnownIds, Unknown
  <2>3. ASSUME NEW pc \in {"refine", "queue", "fold", "dropResult"}, Goto(c, At(pc, q))
        PROVE  KnownIds'
    <3>1. At(pc, q) \in Handler /\ At(pc, q).ptr = q
      BY AtShape DEF HandlerPcs
    <3>2. \A d \in Clients : handler'[d].pc # "idle" => handler'[d].ptr[1] <= issued'
      BY <1>0, <1>k, <2>1, <2>3, <3>1, KnownHandlers
    <3> QED
      BY <1>k, <3>2 DEF KnownIds, Unknown
  <2> QED
    BY <1>k, <2>2, <2>3
<1>1. ASSUME NEW draft, NEW out, SubmitGoal(c, draft, out)
      PROVE  KnownIds'
  <2>1. PICK r \in Pointers : r = <<issued + 1, 1>>
    BY <1>0, <1>1, GoalsAssumption
       DEF SubmitGoal, Pointers, Ids, Versions, Shapes, IssuedOK
  <2>2. PICK h : TrackGoal(h, r, out)
    BY <1>1, <2>1 DEF SubmitGoal
  <2>3. issued' = issued + 1
    BY <1>1 DEF SubmitGoal
  <2>4. \A id \in Ids : id > issued' => Unknown(id)'
    <3>1. ASSUME NEW id \in Ids, id > issued' PROVE Unknown(id)'
      <4>1. issued \in Nat /\ id \in Nat /\ r[1] = issued + 1
        BY <1>0, <2>1, GoalsAssumption DEF Ids
      <4>2. id > issued /\ id # r[1]
        BY ONLY <2>3, <3>1, <4>1
      <4>3. Unknown(id) /\ TrackerTypeOK
        BY <1>0, <4>2
      <4> QED BY <2>2, <4>2, <4>3, TrackUnknown
    <3> QED BY <3>1
  <2>5. handler' = handler \/ Goto(c, At("refine", r))
    BY <1>1, <2>1 DEF SubmitGoal
  <2> QED
    BY <1>0, <1>k, <2>1, <2>3, <2>4, <2>5
<1>2. ASSUME NEW id \in Ids, RunGoal(c, id) \/ AnswerGoal(c, id)
      PROVE  KnownIds'
  <2>1. \A i \in Ids : i > issued => Unknown(i)'
    BY <1>0, <1>2 DEF RunGoal, AnswerGoal, Unknown
  <2>2. /\ TrackedPtr(id) \in Pointers /\ TrackedPtr(id)[1] <= issued
        /\ issued' = issued
    BY <1>t, <1>2 DEF RunGoal, AnswerGoal
  <2>3. Goto(c, At("queue", TrackedPtr(id))) \/ Goto(c, At("fold", TrackedPtr(id)))
    BY <1>2 DEF RunGoal, AnswerGoal
  <2> QED
    BY <1>0, <1>k, <2>1, <2>2, <2>3
<1>3. ASSUME NEW id \in Ids, NEW out, DismissGoal(c, id, out)
      PROVE  KnownIds'
  <2>1. PICK t : t = [tracked EXCEPT ![id] = 0]
    OBVIOUS
  <2>2. tracked' = t /\ Persist(heap, t, out) /\ issued' = issued
    BY <1>3, <2>1 DEF DismissGoal, DeleteGoal
  <2>3. \A i \in Ids : i > issued => t[i] = 0
    BY <1>0, <2>1 DEF TrackerTypeOK, Unknown
  <2>4. \A i \in Ids : i > issued => Unknown(i)'
    BY <1>0, <2>2, <2>3, PersistUnknown DEF Unknown
  <2>5. TrackedPtr(id) \in Pointers /\ TrackedPtr(id)[1] <= issued
    BY <1>t, <1>3 DEF DismissGoal, DeleteGoal
  <2>6. handler' = handler \/ Goto(c, At("dropResult", TrackedPtr(id)))
    BY <1>3 DEF DismissGoal
  <2> QED
    BY <1>0, <1>k, <2>2, <2>4, <2>5, <2>6
<1> QED
  BY <1>1, <1>2, <1>3 DEF Request

LEMMA KnownIdsNext ==
    ASSUME Shapes, KnownIds, [Next]_vars
    PROVE  KnownIds'
<1>1. CASE \E c \in Clients : Request(c) \/ HandlerStep(c)
  BY <1>1, KnownIdsRequest, KnownIdsHandler
<1>2. CASE RunnerStep
  <2>1. ASSUME NEW ok, NEW out, FinishRun(ok, out)
        PROVE  KnownIds'
    <3>1. \A id \in Ids : Unknown(id) => Unknown(id)'
      BY <2>1, UpdateUnknown DEF FinishRun
    <3> QED
      BY <2>1, <3>1 DEF FinishRun, KnownIds, Unknown
  <2> QED
    BY <1>2, <2>1 DEF RunnerStep, RunNext, RecordResult, KnownIds
<1>3. CASE Crash
  <2>1. \A c \in Clients : handler'[c].pc = "idle"
    BY <1>3, IdleShape DEF Crash
  <2>2. \A id \in Ids : tracked'[id] = 0
    BY <1>3 DEF Crash, ForgetGoals
  <2>3. disk' = disk \/ disk' = Torn
    BY <1>3 DEF Crash, CutShort
  <2> QED
    BY <1>3, <2>1, <2>2, <2>3 DEF Crash, KnownIds
<1>4. CASE Restart
  BY <1>4 DEF Restart, LoadGoals, KnownIds
<1>5. CASE UNCHANGED vars
  BY <1>5 DEF vars, KnownIds
<1> QED
  BY <1>1, <1>2, <1>3, <1>4, <1>5 DEF Next, Serving

-----------------------------------------------------------------------------
(* The inductive invariant.                                                 *)

LEMMA IInvInit == Init => IInv
<1> SUFFICES ASSUME Init PROVE IInv
  OBVIOUS
<1>1. TypeOK
  BY ShapesInit, NoDanglingInit DEF TypeOK
<1>2. KnownIds
  BY IdleShape DEF Init, TrackerInit, KnownIds
<1>3. DownIsEmpty
  BY DEF Init, DownIsEmpty
<1>4. DiskMirror
  BY MirrorInit DEF DiskMirror, Mirror, Mirrored
<1> QED
  BY <1>1, <1>2, <1>3, <1>4 DEF IInv

LEMMA IInvNext == IInv /\ [Next]_vars => IInv'
BY ShapesNext, NoDanglingNext, KnownIdsNext, DownIsEmptyNext, MirrorNext DEF IInv, TypeOK

\* Whatever requests, runs, failed or torn writes, crashes and restarts happen, the
\* inductive invariant holds: the shape of every variable, no dangling goal pointer,
\* no trace of an ID never handed out, an empty process while it is down, and the
\* mirror of memory in the two files.
THEOREM Inductive == Spec => []IInv
<1>1. Init => IInv
  BY IInvInit
<1>2. IInv /\ [Next]_vars => IInv'
  BY IInvNext
<1> QED
  BY <1>1, <1>2, PTL DEF Spec

\* Type correctness of the goal pipeline: no handler, queue entry, map entry or run
\* ever holds a pointer to a goal that was not made (no nil *types.Goal is followed
\* in server.go, processor.go or tracker.go), across crashes and restarts.
THEOREM TypeCorrect == Spec => []TypeOK
<1>1. IInv => TypeOK
  BY DEF IInv
<1> QED
  BY <1>1, Inductive, PTL

\* If no write fails, goals.json and agent_results.json agree with memory after every
\* step of any number of concurrent requests, except for a goal whose handler is about
\* to track it (tracker.go persist, results_store.go persist).
THEOREM FilesMirrorMemory == Spec => []DiskMirror
<1>1. IInv => DiskMirror
  BY DEF IInv
<1> QED
  BY <1>1, Inductive, PTL

-----------------------------------------------------------------------------
(* A finished goal stays finished.                                          *)

Excused(id) ==
    \/ \E c \in Clients : Refines(c, id)
    \/ \E c \in Clients : handler[c].pc = "trackAnswer" /\ handler[c].ptr[1] = id

StaysDone(id) == StateOf(id) = "done" => StateOf(id)' \in {"done", "none"} \/ Excused(id)

LEMMA UntouchedStaysDone ==
    ASSUME NEW id, tracked'[id] = tracked[id],
           IsTracked(id) => heap'[TrackedPtr(id)].state = heap[TrackedPtr(id)].state
    PROVE  StaysDone(id)
BY DEF StaysDone, StateOf, IsTracked, TrackedPtr

\* The transition table has no way out of done.
LEMMA UpdateStaysDone ==
    ASSUME TrackerTypeOK, NEW i \in Ids, NEW s, NEW out, UpdateGoalState(i, s, out),
           NEW id \in Ids
    PROVE  StaysDone(id)
<1>1. CASE IsTracked(i) /\ IsValidTransition(StateOf(i), s) /\ id # i
  <2>1. PICK p \in Pointers : p = TrackedPtr(i)
    BY <1>1 DEF TrackedPtr, IsTracked, TrackerTypeOK, Pointers, Versions
  <2>2. PICK g : g = [heap[p] EXCEPT !.state = s]
    OBVIOUS
  <2>3. heap' = [heap EXCEPT ![p] = g] /\ tracked' = tracked
    BY <1>1, <2>1, <2>2 DEF UpdateGoalState
  <2>4. IsTracked(id) => TrackedPtr(id) \in Pointers /\ TrackedPtr(id) # p
    BY <1>1, <2>1 DEF TrackedPtr, IsTracked, TrackerTypeOK, Pointers, Versions
  <2> QED
    BY <2>3, <2>4, UntouchedStaysDone DEF TrackerTypeOK
<1>2. CASE IsValidTransition(StateOf(i), s) /\ id = i
  BY <1>2 DEF IsValidTransition, StaysDone
<1>3. CASE ~(IsTracked(i) /\ IsValidTransition(StateOf(i), s))
  BY <1>3, UntouchedStaysDone DEF UpdateGoalState, trackerVars
<1> QED
  BY <1>1, <1>2, <1>3

LEMMA HandlerStaysDone ==
    ASSUME Shapes, NEW c \in Clients, HandlerStep(c), NEW id \in Ids
    PROVE  StaysDone(id)
<1>0. /\ TrackerTypeOK /\ HandlersOK
      /\ handler[c].pc # "idle" => handler[c].ptr \in Pointers /\ handler[c].ptr[1] \in Ids
      /\ handler[c].pc = "track" =>
            handler[c].ref \in Pointers /\ handler[c].ref[1] = handler[c].ptr[1]
      /\ IsTracked(id) => TrackedPtr(id) \in Pointers /\ TrackedPtr(id)[1] = id
  BY DEF Shapes, HandlersOK, HandlerOK, IsTracked, TrackedPtr, TrackerTypeOK, Pointers, Versions
<1>1. CASE RefineFails(c) \/ QueueCheck(c) \/ QueueEnqueue(c)
  BY <1>1, UntouchedStaysDone DEF RefineFails, QueueCheck, QueueEnqueue
<1>2. CASE RefineAsks(c) \/ RefineAccepts(c) \/ RefineRewrites(c)
  <2>1. handler[c].ptr \in Pointers
    BY <1>0, <1>2 DEF RefineAsks, RefineAccepts, RefineRewrites, RefineLeaves
  <2>2. PICK r \in Pointers, g \in Goal, asks \in BOOLEAN :
           r[1] = handler[c].ptr[1] /\ RefineLeaves(c, r, g, asks)
    BY <1>2, <2>1, RefineCases
  <2>3. CASE handler[c].ptr[1] = id
    <3>1. Tracking(handler[c].ptr, r, asks).pc = "track"
      BY <2>1, <2>2, TrackShape
    <3>2. Refines(c, id)
      BY <1>0, <2>2, <2>3, <3>1 DEF RefineLeaves, Refines, Goto, HandlersOK
    <3> QED
      BY <3>2 DEF StaysDone, Excused
  <2>4. CASE handler[c].ptr[1] # id
    <3>1. IsTracked(id) => heap'[TrackedPtr(id)] = heap[TrackedPtr(id)]
      BY <1>0, <2>2, <2>4 DEF RefineLeaves, TrackerTypeOK
    <3> QED
      BY <2>2, <3>1, UntouchedStaysDone DEF RefineLeaves
  <2> QED
    BY <2>3, <2>4
<1>3. CASE FoldAnswer(c)
  <2>1. PICK p \in Pointers : p = handler[c].ptr
    BY <1>0, <1>3 DEF FoldAnswer
  <2>2. PICK g : g = [heap[p] EXCEPT !.question = FALSE]
    OBVIOUS
  <2>3. g.state = heap[p].state
    BY <1>0, <2>2, SetQuestion DEF TrackerTypeOK
  <2>4. heap' = [heap EXCEPT ![p] = g] /\ tracked' = tracked
    BY <1>3, <2>1, <2>2 DEF FoldAnswer
  <2>5. \A q \in Pointers : heap'[q].state = heap[q].state
    BY <1>0, <2>3, <2>4 DEF TrackerTypeOK
  <2> QED
    BY <1>0, <2>4, <2>5, UntouchedStaysDone
<1>4. ASSUME NEW out, TrackRefined(c, out)
      PROVE  StaysDone(id)
  <2>1. CASE handler[c].ptr[1] = id
    <3>1. At("queue", handler[c].ptr).pc = "queue" /\ At("queue", handler[c].ref).pc = "queue"
      BY <1>0, <1>4, AtShape DEF TrackRefined, HandlerPcs
    <3>2. handler'[c].pc \in {"idle", "queue"}
      BY <1>0, <1>4, <3>1, IdleShape DEF TrackRefined, Goto, HandlersOK
    <3>3. Refines(c, id)
      BY <1>4, <2>1, <3>2 DEF TrackRefined, Refines
    <3> QED
      BY <3>3 DEF StaysDone, Excused
  <2>2. CASE handler[c].ptr[1] # id
    BY <1>0, <1>4, <2>2, UntouchedStaysDone DEF TrackRefined, TrackGoal, TrackerTypeOK
  <2> QED
    BY <2>1, <2>2
<1>5. ASSUME NEW out, QueueActivate(c, out)
      PROVE  StaysDone(id)
  BY <1>0, <1>5, UpdateStaysDone DEF QueueActivate
<1>6. ASSUME NEW out, TrackAnswer(c, out)
      PROVE  StaysDone(id)
  <2>1. CASE handler[c].ptr[1] = id
    BY <1>6, <2>1 DEF TrackAnswer, StaysDone, Excused
  <2>2. CASE handler[c].ptr[1] # id
    BY <1>0, <1>6, <2>2, UntouchedStaysDone DEF TrackAnswer, TrackGoal, TrackerTypeOK
  <2> QED
    BY <2>1, <2>2
<1>7. ASSUME NEW out, DropResult(c, out)
      PROVE  StaysDone(id)
  BY <1>7, UntouchedStaysDone DEF DropResult
<1> QED
  BY <1>1, <1>2, <1>3, <1>4, <1>5, <1>6, <1>7 DEF HandlerStep

LEMMA RequestStaysDone ==
    ASSUME Shapes, KnownIds, NEW c \in Clients, Request(c), NEW id \in Ids
    PROVE  StaysDone(id)
<1>0. /\ TrackerTypeOK /\ issued \in Nat /\ (id > issued => ~IsTracked(id)) /\ id \in Nat
      /\ IsTracked(id) => TrackedPtr(id) \in Pointers /\ TrackedPtr(id)[1] = id
  BY GoalsAssumption
     DEF Shapes, KnownIds, IssuedOK, IsTracked, TrackedPtr, TrackerTypeOK, Pointers, Versions, Ids
<1>1. ASSUME NEW draft, NEW out, SubmitGoal(c, draft, out)
      PROVE  StaysDone(id)
  <2>1. CASE id > issued
    BY <1>0, <2>1 DEF StaysDone, StateOf
  <2>2. CASE ~(id > issued)
    <3>1. PICK r \in Pointers : r = <<issued + 1, 1>>
      BY <1>0, <1>1, GoalsAssumption
         DEF SubmitGoal, Pointers, Ids, Versions, Shapes, IssuedOK
    <3>2. /\ heap' = [heap EXCEPT ![r] = NewGoal]
          /\ tracked' = [tracked EXCEPT ![r[1]] = r[2]]
      BY <1>1, <3>1 DEF SubmitGoal, TrackGoal
    <3>3. r[1] = issued + 1
      BY <3>1
    <3>4. IsTracked(id) => heap'[TrackedPtr(id)] = heap[TrackedPtr(id)]
      BY <1>0, <2>2, <3>2, <3>3 DEF TrackerTypeOK
    <3> QED
      BY <1>0, <2>2, <3>2, <3>3, <3>4, UntouchedStaysDone DEF TrackerTypeOK
  <2> QED
    BY <2>1, <2>2
<1>2. ASSUME NEW i \in Ids, RunGoal(c, i) \/ AnswerGoal(c, i)
      PROVE  StaysDone(id)
  BY <1>2, UntouchedStaysDone DEF RunGoal, AnswerGoal
<1>3. ASSUME NEW i \in Ids, NEW out, DismissGoal(c, i, out)
      PROVE  StaysDone(id)
  <2>1. CASE i = id
    BY <1>0, <1>3, <2>1
       DEF DismissGoal, DeleteGoal, TrackerTypeOK, StaysDone, StateOf, IsTracked
  <2>2. CASE i # id
    BY <1>0, <1>3, <2>2, UntouchedStaysDone DEF DismissGoal, DeleteGoal, TrackerTypeOK
  <2> QED
    BY <2>1, <2>2
<1> QED
  BY <1>1, <1>2, <1>3 DEF Request

LEMMA NextStaysDone ==
    ASSUME IInv, [Next]_vars, up, up', NEW id \in Ids
    PROVE  StaysDone(id)
<1>0. Shapes /\ KnownIds
  BY DEF IInv, TypeOK
<1>1. CASE \E c \in Clients : Request(c) \/ HandlerStep(c)
  BY <1>0, <1>1, HandlerStaysDone, RequestStaysDone
<1>2. CASE RunnerStep
  <2>1. ASSUME NEW ok, NEW out, FinishRun(ok, out)
        PROVE  StaysDone(id)
    <3>1. runner.ptr[1] \in Ids /\ TrackerTypeOK
      BY <1>0, <2>1 DEF FinishRun, Shapes, RunnerOK, Pointers
    <3> QED
      BY <2>1, <3>1, UpdateStaysDone DEF FinishRun
  <2> QED
    BY <1>2, <2>1, UntouchedStaysDone DEF RunnerStep, RunNext, RecordResult
<1>3. CASE UNCHANGED vars
  BY <1>3, UntouchedStaysDone DEF vars
<1> QED
  BY <1>1, <1>2, <1>3 DEF Next, Serving, Crash, Restart

\* While the process runs, a done goal leaves done only by being deleted or by a
\* refinement or answer in progress for that very goal: no run that ends, no /run
\* request and no duplicate queue entry moves it (tracker.go isValidTransition).
THEOREM DoneStays == Spec => DoneIsFinal
<1>1. ASSUME IInv, [Next]_vars, up, up'
      PROVE  \A id \in Ids : StateOf(id) = "done" =>
                \/ StateOf(id)' \in {"done", "none"}
                \/ \E c \in Clients : Refines(c, id)
                \/ \E c \in Clients : handler[c].pc = "trackAnswer" /\ handler[c].ptr[1] = id
  BY <1>1, NextStaysDone DEF StaysDone, Excused
<1>2. IInv /\ [Next]_vars =>
         [up /\ up' => \A id \in Ids : StateOf(id) = "done" =>
            \/ StateOf(id)' \in {"done", "none"}
            \/ \E c \in Clients : Refines(c, id)
            \/ \E c \in Clients : handler[c].pc = "trackAnswer" /\ handler[c].ptr[1] = id]_vars
  BY <1>1
<1> QED
  BY <1>2, Inductive, PTL DEF Spec, DoneIsFinal

-----------------------------------------------------------------------------
(* The active entries of the queue.                                         *)

\* A request that will enqueue the goal, whatever happens to it on the way.
Enqueues(h, id) ==
    /\ h.ptr[1] = id
    /\ h.pc \in {"queue", "activate", "enqueue"} \/ (h.pc = "track" /\ ~h.asks)

SureToEnqueue(id) == \E c \in Clients : Enqueues(handler[c], id)

\* Nothing newer stands before an active entry, unless a sort is about to come.  What
\* stands before it need not be active: it may turn active without being moved.
Sorted ==
    \A i, j \in DOMAIN queue : i < j /\ IsActive(queue[j]) =>
        queue[i][1] <= queue[j][1] \/ SureToEnqueue(queue[j][1])

\* The sort of Enqueue puts every active entry in its place.
LEMMA EnqueueSorts ==
    ASSUME QueueOK, NEW p \in Pointers, Enqueue(p), UNCHANGED heap
    PROVE  Sorted'
<1> DEFINE s == Append(queue, p)
<1>1. PICK f \in StableOrders(s) : queue' = [i \in DOMAIN s |-> s[f[i]]]
  BY DEF Enqueue
<1>2. f \in [DOMAIN s -> DOMAIN s] /\ s \in Seq(Pointers)
  BY <1>1 DEF StableOrders, Bijection, Injection, QueueOK
<1> HIDE DEF s
<1>3. ASSUME NEW i \in DOMAIN s, NEW j \in DOMAIN s, i < j, IsActive(s[f[j]])
      PROVE  s[f[i]][1] <= s[f[j]][1]
  <2>1. \/ Before(s[f[i]], s[f[j]])
        \/ ~Before(s[f[j]], s[f[i]])
    BY <1>1, <1>3 DEF StableOrders
  <2>2. s[f[i]] \in Pointers /\ s[f[j]] \in Pointers
    BY <1>2
  <2>3. s[f[i]][1] \in Int /\ s[f[j]][1] \in Int
    BY <2>2 DEF Pointers, Ids
  <2> QED
    BY <1>3, <2>1, <2>3 DEF Before, IsActive
<1>4. \A i \in DOMAIN queue' : i \in DOMAIN s /\ queue'[i] = s[f[i]]
  BY <1>1
<1>5. \A q : IsActive(q)' <=> IsActive(q)
  BY DEF IsActive
<1> QED
  BY <1>3, <1>4, <1>5 DEF Sorted, IsActive

\* A step that leaves the queue, turns only goals active that are sure to be enqueued,
\* and loses no request that was going to enqueue.
LEMMA SortedKept ==
    ASSUME QueueOK, Sorted, UNCHANGED queue,
           \A p \in Pointers : IsActive(p)' => IsActive(p) \/ SureToEnqueue(p[1])',
           \A id \in Ids : SureToEnqueue(id) => SureToEnqueue(id)'
    PROVE  Sorted'
<1>1. \A j \in DOMAIN queue : queue[j] \in Pointers /\ queue[j][1] \in Ids
  BY DEF QueueOK, Pointers
<1> QED
  BY <1>1 DEF Sorted, IsActive

\* What a handler's own move does to the requests that will enqueue.
LEMMA MoveKeepsSure ==
    ASSUME HandlersOK, NEW c \in Clients, NEW h, Goto(c, h),
           NEW id, Enqueues(handler[c], id) => Enqueues(h, id),
           SureToEnqueue(id)
    PROVE  SureToEnqueue(id)'
<1>1. handler'[c] = h /\ \A d \in Clients \ {c} : handler'[d] = handler[d]
  BY DEF Goto, HandlersOK
<1> QED
  BY <1>1 DEF SureToEnqueue

LEMMA AssignActive ==
    ASSUME TrackerTypeOK, NEW p \in Pointers, NEW g, heap' = [heap EXCEPT ![p] = g],
           NEW q \in Pointers, IsActive(q)'
    PROVE  IsActive(q) \/ (q = p /\ g.state = "active")
BY DEF TrackerTypeOK, IsActive

LEMMA UpdateActive ==
    ASSUME TrackerTypeOK, NEW id \in Ids, NEW s \in GoalStates, NEW out,
           UpdateGoalState(id, s, out), NEW q \in Pointers, IsActive(q)'
    PROVE  IsActive(q) \/ (q[1] = id /\ s = "active")
<1>1. CASE IsTracked(id) /\ IsValidTransition(StateOf(id), s)
  <2>0. TrackedPtr(id) \in Pointers /\ TrackedPtr(id)[1] = id
    BY <1>1 DEF TrackedPtr, IsTracked, TrackerTypeOK, Pointers, Versions
  <2>1. PICK p \in Pointers : p = TrackedPtr(id) /\ p[1] = id
    BY <2>0
  <2>2. PICK g : g = [heap[p] EXCEPT !.state = s]
    OBVIOUS
  <2>3. heap[p] \in AnyGoal
    BY <2>1, GoalShape DEF TrackerTypeOK
  <2>4. g.state = s
    BY <2>2, <2>3 DEF AnyGoal
  <2>5. heap' = [heap EXCEPT ![p] = g]
    BY <1>1, <2>1, <2>2 DEF UpdateGoalState
  <2> QED
    BY <2>1, <2>4, <2>5, AssignActive
<1>2. CASE ~(IsTracked(id) /\ IsValidTransition(StateOf(id), s))
  BY <1>2 DEF UpdateGoalState, trackerVars, IsActive
<1> QED
  BY <1>1, <1>2

LEMMA FoldActive ==
    ASSUME Shapes, NEW c \in Clients, FoldAnswer(c), NEW q \in Pointers, IsActive(q)'
    PROVE  IsActive(q)
<1>1. PICK p \in Pointers : p = handler[c].ptr
  BY DEF FoldAnswer, Shapes, HandlersOK, HandlerOK
<1>2. PICK g : g = [heap[p] EXCEPT !.question = FALSE]
  OBVIOUS
<1>3. heap' = [heap EXCEPT ![p] = g] /\ TrackerTypeOK
  BY <1>1, <1>2 DEF FoldAnswer, Shapes
<1>4. g.state = heap[p].state
  BY <1>2, <1>3, SetQuestion DEF TrackerTypeOK
<1> QED
  BY <1>3, <1>4, AssignActive DEF IsActive

LEMMA SortedHandler ==
    ASSUME Shapes, Sorted, NEW c \in Clients, HandlerStep(c)
    PROVE  Sorted'
<1>0. /\ TrackerTypeOK /\ HandlersOK /\ QueueOK
      /\ handler[c].pc # "idle" => handler[c].ptr \in Pointers /\ handler[c].ptr[1] \in Ids
      /\ handler[c].pc = "track" =>
            handler[c].ref \in Pointers /\ handler[c].ref[1] = handler[c].ptr[1]
  BY DEF Shapes, HandlersOK, HandlerOK, Pointers
<1>1. CASE RefineFails(c) \/ QueueCheck(c)
  <2>1. PICK pc \in {"queue", "enqueue", "activate"} : Goto(c, At(pc, handler[c].ptr))
    BY <1>1 DEF RefineFails, QueueCheck
  <2>2. handler[c].ptr \in Pointers
    BY <1>0, <1>1 DEF RefineFails, QueueCheck
  <2>3. \A id : Enqueues(handler[c], id) => Enqueues(At(pc, handler[c].ptr), id)
    BY <2>1, <2>2, AtShape DEF Enqueues, HandlerPcs
  <2> QED
    BY <1>0, <1>1, <2>1, <2>3, MoveKeepsSure, SortedKept DEF RefineFails, QueueCheck, IsActive
<1>2. CASE RefineAsks(c) \/ RefineAccepts(c) \/ RefineRewrites(c)
  <2>1. handler[c].ptr \in Pointers /\ handler[c].pc = "refine"
    BY <1>0, <1>2 DEF RefineAsks, RefineAccepts, RefineRewrites, RefineLeaves
  <2>2. PICK r \in Pointers, g \in Goal, asks \in BOOLEAN :
           /\ r[1] = handler[c].ptr[1] /\ RefineLeaves(c, r, g, asks)
           /\ g.state = "active" => ~asks
    <3>1. CASE RefineAsks(c)
      <4>1. PICK q \in BOOLEAN :
               RefineLeaves(c, handler[c].ptr, [state |-> "refining", question |-> q], TRUE)
        BY <3>1 DEF RefineAsks
      <4>2. /\ [state |-> "refining", question |-> q] \in Goal
            /\ [state |-> "refining", question |-> q].state # "active"
        BY DEF Goal, GoalStates
      <4> QED
        BY <2>1, <4>1, <4>2
    <3>2. CASE RefineAccepts(c)
      BY <2>1, <3>2 DEF RefineAccepts, Goal, GoalStates
    <3>3. CASE RefineRewrites(c)
      <4>1. PICK v \in Versions : RefineLeaves(c, <<handler[c].ptr[1], v>>,
                                     [state |-> "active", question |-> FALSE], FALSE)
        BY <3>3 DEF RefineRewrites
      <4>2. <<handler[c].ptr[1], v>> \in Pointers
        BY <2>1, <4>1 DEF Pointers
      <4> QED
        BY <4>1, <4>2 DEF Goal, GoalStates
    <3> QED
      BY <1>2, <3>1, <3>2, <3>3
  <2> DEFINE h == Tracking(handler[c].ptr, r, asks)
  <2>3. h.pc = "track" /\ h.ptr = handler[c].ptr /\ h.asks = asks
    BY DEF Tracking, At, Idle
  <2>4. Goto(c, h)
    BY <2>2 DEF RefineLeaves
  <2> HIDE DEF h
  <2>5. handler'[c] = h
    BY <1>0, <2>4 DEF Goto, HandlersOK
  <2>6. \A p \in Pointers : IsActive(p)' => IsActive(p) \/ SureToEnqueue(p[1])'
    <3>1. \A p \in Pointers : IsActive(p)' => IsActive(p) \/ (p = r /\ g.state = "active")
      BY <1>0, <2>2, AssignActive DEF RefineLeaves
    <3>2. g.state = "active" => SureToEnqueue(r[1])'
      BY <2>2, <2>3, <2>5 DEF SureToEnqueue, Enqueues
    <3> QED
      BY <3>1, <3>2
  <2>7. \A id : Enqueues(handler[c], id) => Enqueues(h, id)
    BY <2>1 DEF Enqueues
  <2> QED
    BY <1>0, <2>2, <2>4, <2>6, <2>7, MoveKeepsSure, SortedKept DEF RefineLeaves
<1>3. CASE QueueEnqueue(c)
  BY <1>0, <1>3, EnqueueSorts DEF QueueEnqueue
<1>4. CASE FoldAnswer(c)
  <2>1. \A id : ~Enqueues(handler[c], id)
    BY <1>4 DEF FoldAnswer, Enqueues
  <2> QED
    BY <1>0, <1>4, <2>1, FoldActive, MoveKeepsSure, SortedKept DEF FoldAnswer
<1>5. ASSUME NEW out, TrackRefined(c, out)
      PROVE  Sorted'
  <2>1. \E h : /\ Goto(c, h)
               /\ \A id : Enqueues(handler[c], id) => Enqueues(h, id)
    <3>1. handler[c].ptr \in Pointers /\ handler[c].ref \in Pointers
      BY <1>0, <1>5 DEF TrackRefined
    <3>2. /\ At("queue", handler[c].ptr).pc = "queue" /\ At("queue", handler[c].ref).pc = "queue"
          /\ At("queue", handler[c].ptr).ptr = handler[c].ptr
          /\ At("queue", handler[c].ref).ptr = handler[c].ref
      BY <3>1, AtShape DEF HandlerPcs
    <3>3. handler[c].asks => \A id : ~Enqueues(handler[c], id)
      BY <1>5 DEF TrackRefined, Enqueues
    <3>4. \/ Goto(c, Idle) /\ handler[c].asks
          \/ Goto(c, At("queue", handler[c].ptr)) \/ Goto(c, At("queue", handler[c].ref))
      BY <1>5 DEF TrackRefined
    <3>5. \A id : Enqueues(handler[c], id) =>
             Enqueues(At("queue", handler[c].ptr), id) /\ Enqueues(At("queue", handler[c].ref), id)
      BY <1>0, <1>5, <3>2 DEF TrackRefined, Enqueues
    <3> QED
      BY <3>3, <3>4, <3>5
  <2> QED
    BY <1>0, <1>5, <2>1, MoveKeepsSure, SortedKept DEF TrackRefined, TrackGoal, IsActive
<1>6. ASSUME NEW out, QueueActivate(c, out)
      PROVE  Sorted'
  <2> DEFINE h == At("enqueue", handler[c].ptr)
  <2>1. /\ handler[c].ptr \in Pointers /\ handler[c].ptr[1] \in Ids
        /\ "active" \in GoalStates
    BY <1>0, <1>6 DEF QueueActivate, GoalStates
  <2>2. h.pc = "enqueue" /\ h.ptr = handler[c].ptr /\ Goto(c, h)
    BY <1>6, <2>1, AtShape DEF QueueActivate, HandlerPcs
  <2> HIDE DEF h
  <2>3. handler'[c] = h
    BY <1>0, <2>2 DEF Goto, HandlersOK
  <2>4. \A id : id = handler[c].ptr[1] => SureToEnqueue(id)'
    BY <2>2, <2>3 DEF SureToEnqueue, Enqueues
  <2>5. \A p \in Pointers : IsActive(p)' => IsActive(p) \/ SureToEnqueue(p[1])'
    <3>1. \A p \in Pointers : IsActive(p)' => IsActive(p) \/ p[1] = handler[c].ptr[1]
      BY <1>0, <1>6, <2>1, UpdateActive DEF QueueActivate
    <3> QED
      BY <2>4, <3>1
  <2>6. \A id : Enqueues(handler[c], id) => Enqueues(h, id)
    BY <2>2 DEF Enqueues
  <2> QED
    BY <1>0, <1>6, <2>2, <2>5, <2>6, MoveKeepsSure, SortedKept DEF QueueActivate
<1>7. ASSUME NEW out, TrackAnswer(c, out) \/ DropResult(c, out)
      PROVE  Sorted'
  <2>1. \A id : ~Enqueues(handler[c], id)
    BY <1>7 DEF TrackAnswer, DropResult, Enqueues
  <2>2. \E h : Goto(c, h)
    BY <1>7 DEF TrackAnswer, DropResult
  <2> QED
    BY <1>0, <1>7, <2>1, <2>2, MoveKeepsSure, SortedKept DEF TrackAnswer, DropResult, TrackGoal, IsActive
<1> QED
  BY <1>1, <1>2, <1>3, <1>4, <1>5, <1>6, <1>7 DEF HandlerStep

LEMMA SortedRequest ==
    ASSUME Shapes, Sorted, NEW c \in Clients, Request(c)
    PROVE  Sorted'
<1>0. TrackerTypeOK /\ HandlersOK /\ QueueOK /\ IssuedOK
  BY DEF Shapes
<1>1. handler[c] = Idle => \A id : ~Enqueues(handler[c], id)
  BY IdleShape DEF Enqueues
<1>2. ASSUME NEW draft, NEW out, SubmitGoal(c, draft, out)
      PROVE  Sorted'
  <2>1. PICK r \in Pointers : r = <<issued + 1, 1>>
    BY <1>0, <1>2, GoalsAssumption DEF SubmitGoal, Pointers, Ids, Versions, IssuedOK
  <2>2. heap' = [heap EXCEPT ![r] = NewGoal] /\ NewGoal.state # "active"
    BY <1>2, <2>1 DEF SubmitGoal, TrackGoal, NewGoal
  <2>3. \A p \in Pointers : IsActive(p)' => IsActive(p)
    BY <1>0, <2>2, AssignActive
  <2>4. handler' = handler \/ \E h : Goto(c, h)
    BY <1>2 DEF SubmitGoal
  <2>5. \A id : SureToEnqueue(id) => SureToEnqueue(id)'
    BY <1>0, <1>1, <1>2, <2>4, MoveKeepsSure DEF SubmitGoal, SureToEnqueue
  <2> QED
    BY <1>0, <1>2, <2>3, <2>5, SortedKept DEF SubmitGoal
<1>3. ASSUME NEW id \in Ids, NEW out,
             RunGoal(c, id) \/ AnswerGoal(c, id) \/ DismissGoal(c, id, out)
      PROVE  Sorted'
  <2>1. handler' = handler \/ \E h : Goto(c, h)
    BY <1>3 DEF RunGoal, AnswerGoal, DismissGoal
  <2>2. \A i : SureToEnqueue(i) => SureToEnqueue(i)'
    BY <1>0, <1>1, <1>3, <2>1, MoveKeepsSure DEF RunGoal, AnswerGoal, DismissGoal, SureToEnqueue
  <2> QED
    BY <1>0, <1>3, <2>2, SortedKept DEF RunGoal, AnswerGoal, DismissGoal, DeleteGoal, IsActive
<1> QED
  BY <1>2, <1>3 DEF Request

LEMMA SortedRunner ==
    ASSUME Shapes, Sorted, RunnerStep
    PROVE  Sorted'
<1>0. TrackerTypeOK /\ RunnerOK /\ QueueOK
  BY DEF Shapes
<1>1. CASE RunNext
  <2>1. PICK i \in DOMAIN queue : queue' = RemoveAt(queue, i)
    BY <1>1 DEF RunNext, PopNext
  <2>2. /\ DOMAIN queue' = 1 .. Len(queue) - 1 /\ DOMAIN queue = 1 .. Len(queue)
        /\ Len(queue) \in Nat /\ i \in 1 .. Len(queue)
        /\ \A j \in 1 .. Len(queue) - 1 : queue'[j] = queue[IF j < i THEN j ELSE j + 1]
    BY <1>0, <2>1, RemovedAt DEF QueueOK
  <2>3. /\ \A id : SureToEnqueue(id)' <=> SureToEnqueue(id)
        /\ \A p : IsActive(p)' <=> IsActive(p)
    BY <1>1 DEF RunNext, SureToEnqueue, IsActive
  <2>4. ASSUME NEW j \in DOMAIN queue', NEW k \in DOMAIN queue', j < k, IsActive(queue'[k])
        PROVE  queue'[j][1] <= queue'[k][1] \/ SureToEnqueue(queue'[k][1])
    <3>1. PICK m, n \in DOMAIN queue : m < n /\ queue'[j] = queue[m] /\ queue'[k] = queue[n]
      <4>1. /\ (IF j < i THEN j ELSE j + 1) \in DOMAIN queue
            /\ (IF k < i THEN k ELSE k + 1) \in DOMAIN queue
            /\ (IF j < i THEN j ELSE j + 1) < (IF k < i THEN k ELSE k + 1)
        BY <2>2, <2>4
      <4> QED
        BY <2>2, <2>4, <4>1
    <3> QED
      BY <2>4, <3>1 DEF Sorted
  <2> QED
    BY <2>3, <2>4 DEF Sorted, IsActive
<1>2. ASSUME NEW ok, NEW out, FinishRun(ok, out)
      PROVE  Sorted'
  <2>1. runner.ptr[1] \in Ids /\ (IF ok THEN "done" ELSE "blocked") \in GoalStates \ {"active"}
    BY <1>0, <1>2 DEF FinishRun, RunnerOK, Pointers, GoalStates
  <2>2. \A p \in Pointers : IsActive(p)' => IsActive(p)
    BY <1>0, <1>2, <2>1, UpdateActive DEF FinishRun
  <2> QED
    BY <1>0, <1>2, <2>2, SortedKept DEF FinishRun, SureToEnqueue
<1>3. ASSUME NEW out, RecordResult(out)
      PROVE  Sorted'
  BY <1>0, <1>3, SortedKept DEF RecordResult, SureToEnqueue, IsActive
<1> QED
  BY <1>1, <1>2, <1>3 DEF RunnerStep

LEMMA SortedNext ==
    ASSUME IInv, Sorted, [Next]_vars
    PROVE  Sorted'
<1>0. Shapes /\ DownIsEmpty
  BY DEF IInv, TypeOK
<1>1. CASE (\E c \in Clients : Request(c) \/ HandlerStep(c)) \/ RunnerStep
  BY <1>0, <1>1, SortedHandler, SortedRequest, SortedRunner
<1>2. CASE Crash \/ Restart
  <2>1. queue' = <<>>
    BY <1>0, <1>2 DEF Crash, Restart, DownIsEmpty
  <2> QED
    BY <2>1 DEF Sorted
<1>3. CASE UNCHANGED vars
  BY <1>3 DEF vars, Sorted, IsActive, SureToEnqueue
<1> QED
  BY <1>1, <1>2, <1>3 DEF Next, Serving

\* The active entries of the run queue stand in the order of their goals' creation, for
\* any number of concurrent requests, with failed writes and restarts: an entry out of
\* place belongs to a goal a request is about to enqueue, and the sort of that Enqueue
\* puts it right (prioritizer.go Enqueue, Next; the states it sorts by change through
\* shared pointers while the slice waits).
THEOREM OldestActiveFirst == Spec => []QueueInOrder
<1>1. Init => Sorted
  BY DEF Init, Sorted
<1>2. IInv /\ Sorted /\ [Next]_vars => Sorted'
  BY SortedNext
<1>3. IInv /\ Sorted => QueueInOrder
  <2> SUFFICES ASSUME IInv, Sorted, NEW i \in DOMAIN queue, NEW j \in DOMAIN queue,
                      i < j, IsActive(queue[j]), queue[i][1] > queue[j][1]
               PROVE  OnItsWay(queue[j][1])
    BY DEF QueueInOrder
  <2>1. queue[i][1] \in Int /\ queue[j][1] \in Int
    BY DEF IInv, TypeOK, Shapes, QueueOK, Pointers, Ids
  <2>2. SureToEnqueue(queue[j][1])
    BY <2>1 DEF Sorted
  <2> QED
    BY <2>2 DEF SureToEnqueue, Enqueues, OnItsWay
<1> QED
  BY <1>1, <1>2, <1>3, Inductive, PTL DEF Spec
=============================================================================
