----------------------- MODULE SelfImprovementProofs -----------------------
(***************************************************************************)
(* For any number of results, of analyses at once and of goals: no recorded *)
(* result is analysed twice or disappears, none is left in the buffer with  *)
(* nobody coming for it, and what an analysis proposed is in effect but for *)
(* what it reports as failed.                                               *)
(***************************************************************************)
EXTENDS SelfImprovement, Sums

\* The part of the types the arguments below need.
Shape ==
    /\ recorded \in 0 .. MaxResults /\ earlier \in 0 .. recorded
    /\ pending \subseteq Results /\ read \subseteq Results /\ lost \subseteq Results
    /\ analysis \in [Results -> Analysis]
    /\ stats \in Nat

\* There is a slot for the result of the run in progress: the goroutine of a result
\* starts when the result is recorded.
SlotFree ==
    /\ runner.pc # "poll" => recorded < MaxResults
    /\ \A r \in Results : r > recorded => analysis[r].pc = "off"

\* Only a goroutine that waits for the model holds results.
OnlyAskingHolds == \A r \in Results : analysis[r].pc # "ask" => analysis[r].batch = {}

\* A submission that goes on has something left to submit.
Counting == \A r \in Results : analysis[r].pc = "submit" => analysis[r].left > 0

SIInv == Shape /\ SlotFree /\ OnlyAskingHolds /\ Counting /\ AnalysedOnce /\ NoneStranded

-----------------------------------------------------------------------------
\* The next step of a cycle is "submit" only when a goal is left.
LEMMA NextPcIs ==
    ASSUME NEW left \in Nat, NEW rules
    PROVE  /\ NextPc(left, rules) \in {"submit", "learn", "finish"}
           /\ NextPc(left, rules) = "submit" => left > 0
           /\ NextPc(left, rules) # "submit" => left = 0
           /\ NextPc(left, rules) = "finish" => rules = {}
  BY DEF NextPc

\* The invariant holds of the empty system.
LEMMA InitHolds == ASSUME Init PROVE SIInv
  BY ImprovementAssumption
  DEF Init, SIInv, Shape, SlotFree, OnlyAskingHolds, Counting, AnalysedOnce, NoneStranded, Batched, Analysis,
      Off, Pcs, Results, Polling

\* A step of the analysis of r that leaves buffer and batches alone, and does not drain,
\* keeps the invariant.
LEMMA Proceeds ==
    ASSUME SIInv, NEW r \in Results, NEW a \in Analysis,
           analysis' = [analysis EXCEPT ![r] = a],
           a.pc \in {"submit", "learn", "finish", "done"}, a.batch = {},
           a.pc = "submit" => a.left > 0,
           analysis[r].pc \in {"submit", "learn", "finish"},
           UNCHANGED <<runner, recorded, pending, stats, read, lost, earlier>>
    PROVE  SIInv'
<1>1. \A q \in Results : analysis'[q] = IF q = r THEN a ELSE analysis[q]
  BY DEF SIInv, Shape
<1>2. \A q \in Results : analysis'[q].batch = analysis[q].batch
  BY <1>1 DEF SIInv, OnlyAskingHolds
<1>3. Shape'
  BY DEF SIInv, Shape
<1>4. SlotFree'
  BY <1>1 DEF SIInv, SlotFree
<1>5. Counting' /\ OnlyAskingHolds'
  BY <1>1 DEF SIInv, Counting, OnlyAskingHolds
<1>6. Batched' = Batched
  BY <1>2 DEF Batched
<1>7. AnalysedOnce'
  BY <1>2, <1>6 DEF SIInv, AnalysedOnce
<1>8. NoneStranded'
  BY <1>1 DEF SIInv, NoneStranded
<1> QED BY <1>3, <1>4, <1>5, <1>7, <1>8 DEF SIInv

\* Recording a result puts it, and only it, into the buffer.
LEMMA RecordKeeps == ASSUME SIInv, RecordResult PROVE SIInv'
<1> DEFINE n == recorded + 1
<1>1. n \in Results /\ n \notin 1 .. recorded /\ 1 .. n = (1 .. recorded) \cup {n}
  BY ImprovementAssumption DEF SIInv, Shape, SlotFree, RecordResult, Results
<1>2. /\ recorded' = n /\ pending' = pending \cup {n}
      /\ analysis' = [analysis EXCEPT ![n] = [Off EXCEPT !.pc = "drain"]]
      /\ runner' = Polling
      /\ UNCHANGED <<read, lost, earlier>>
  BY DEF RecordResult
<1>3. [Off EXCEPT !.pc = "drain"] \in Analysis
  <2>1. Off \in Analysis
    BY ImprovementAssumption DEF Off, Analysis, Pcs
  <2> QED BY <2>1 DEF Analysis, Pcs
<1>4. \A q \in Results : analysis'[q] = IF q = n THEN [Off EXCEPT !.pc = "drain"] ELSE analysis[q]
  BY <1>1, <1>2 DEF SIInv, Shape
<1>5. \A q \in Results : analysis'[q].batch = analysis[q].batch
  <2>1. analysis[n].batch = {}
    BY <1>1 DEF SIInv, Shape, SlotFree, OnlyAskingHolds
  <2> QED BY <1>4, <2>1 DEF Off
<1>6. stats' \in Nat /\ stats' = stats + 1
  BY DEF SIInv, Shape, RecordResult
<1>7. Shape'
  BY <1>1, <1>2, <1>3, <1>6, ImprovementAssumption DEF SIInv, Shape, Polling, Results
<1>8. SlotFree'
  BY <1>1, <1>2, <1>4 DEF SIInv, Shape, SlotFree, Polling, Results
<1>9. Counting' /\ OnlyAskingHolds'
  BY <1>4 DEF SIInv, Counting, OnlyAskingHolds, Off
<1>10. Batched' = Batched
  BY <1>5 DEF Batched
<1>11. AnalysedOnce'
  <2>1. n \notin Batched \cup read \cup lost \cup pending
    BY <1>1 DEF SIInv, AnalysedOnce
  <2>2. 1 .. recorded' = pending' \cup Batched' \cup read' \cup lost'
    BY <1>1, <1>2, <1>10 DEF SIInv, AnalysedOnce
  <2>3. stats' = recorded' - earlier'
    BY <1>2, <1>6 DEF SIInv, Shape, AnalysedOnce
  <2> QED BY <1>2, <1>5, <1>10, <2>1, <2>2, <2>3 DEF SIInv, AnalysedOnce
<1>12. NoneStranded'
  BY <1>1, <1>4 DEF NoneStranded, Off
<1> QED BY <1>7, <1>8, <1>9, <1>11, <1>12 DEF SIInv

\* A drain moves the whole buffer into one batch.
LEMMA DrainKeeps == ASSUME SIInv, NEW r \in Results, Drain(r) PROVE SIInv'
<1> DEFINE a == [analysis[r] EXCEPT !.pc = IF pending = {} THEN "done" ELSE "ask", !.batch = pending]
<1>1. /\ analysis' = [analysis EXCEPT ![r] = a] /\ analysis[r].pc = "drain"
      /\ pending' = {} /\ UNCHANGED <<runner, recorded, stats, read, lost, earlier>>
  BY DEF Drain, SIInv, Shape
<1>2. a \in Analysis /\ a.batch = pending /\ a.pc # "submit"
  <2>1. analysis[r] \in Analysis /\ pending \in SUBSET Results
    BY DEF SIInv, Shape
  <2>2. (IF pending = {} THEN "done" ELSE "ask") \in Pcs \ {"submit"}
    BY DEF Pcs
  <2> QED BY <2>1, <2>2 DEF Analysis
<1>3. \A q \in Results : analysis'[q] = IF q = r THEN a ELSE analysis[q]
  BY <1>1 DEF SIInv, Shape
<1> HIDE DEF a
<1>4. Shape'
  BY <1>1, <1>2 DEF SIInv, Shape
<1>5. SlotFree'
  BY <1>1, <1>3 DEF SIInv, SlotFree
<1>6. Counting' /\ OnlyAskingHolds'
  <2>1. a.pc # "ask" => pending = {}
    BY DEF a, SIInv, Shape, Analysis
  <2> QED BY <1>2, <1>3, <2>1 DEF SIInv, Counting, OnlyAskingHolds
<1>7. analysis[r].batch = {}
  BY <1>1 DEF SIInv, OnlyAskingHolds
<1>8. Batched' = Batched \cup pending
  BY <1>2, <1>3, <1>7 DEF SIInv, Shape, Batched
<1>9. AnalysedOnce'
  BY <1>1, <1>2, <1>3, <1>7, <1>8 DEF SIInv, AnalysedOnce, Batched
<1>10. NoneStranded'
  BY <1>1 DEF NoneStranded
<1> QED BY <1>4, <1>5, <1>6, <1>9, <1>10 DEF SIInv


\* When the model answers or fails, one batch moves to read or to lost.
LEMMA AskEnds ==
    ASSUME SIInv, NEW r \in Results, analysis[r].pc = "ask", NEW a \in Analysis,
           analysis' = [analysis EXCEPT ![r] = a],
           a.pc \in {"submit", "learn", "finish", "done"}, a.batch = {},
           a.pc = "submit" => a.left > 0,
           \/ read' = read \cup analysis[r].batch /\ lost' = lost
           \/ lost' = lost \cup analysis[r].batch /\ read' = read,
           UNCHANGED <<runner, recorded, pending, stats, earlier>>
    PROVE  SIInv'
<1>1. \A q \in Results : analysis'[q] = IF q = r THEN a ELSE analysis[q]
  BY DEF SIInv, Shape
<1>2. analysis[r].batch \subseteq Results
  BY DEF SIInv, Shape, Analysis
<1>3. Shape'
  BY <1>2 DEF SIInv, Shape
<1>4. SlotFree'
  BY <1>1 DEF SIInv, SlotFree
<1>5. Counting' /\ OnlyAskingHolds'
  BY <1>1 DEF SIInv, Counting, OnlyAskingHolds
<1>6. Batched' = Batched \ analysis[r].batch /\ analysis[r].batch \subseteq Batched
  BY <1>1, <1>2 DEF SIInv, AnalysedOnce, Batched
<1>7. AnalysedOnce'
  BY <1>1, <1>6 DEF SIInv, AnalysedOnce
<1>8. NoneStranded'
  BY <1>1 DEF SIInv, NoneStranded
<1> QED BY <1>3, <1>4, <1>5, <1>7, <1>8 DEF SIInv

\* Every step of an analysis keeps the invariant.
LEMMA AnalysisKeeps == ASSUME SIInv, NEW r \in Results, AnalysisStep(r) PROVE SIInv'
<1> DEFINE a == analysis[r]
<1>1. a \in Analysis /\ a.left \in Nat
  BY ImprovementAssumption DEF SIInv, Shape, Analysis
<1>2. CASE Drain(r)
  BY <1>2, DrainKeeps
<1>3. CASE NoAnswer(r)
  <2> DEFINE b == [a EXCEPT !.pc = "done", !.batch = {}, !.errs = TRUE]
  <2>1. b \in Analysis /\ b.pc = "done" /\ b.batch = {}
    BY <1>1 DEF Analysis, Pcs
  <2>2. analysis' = [analysis EXCEPT ![r] = b]
    BY <1>3 DEF NoAnswer, SIInv, Shape
  <2> HIDE DEF b
  <2> QED BY <1>3, <2>1, <2>2, AskEnds DEF NoAnswer
<1>4. ASSUME NEW n \in 0 .. MaxIdeas, NEW texts \in SUBSET Rules, Answered(r, n, texts)
      PROVE  SIInv'
  <2> DEFINE b == [a EXCEPT !.pc = NextPc(n, texts), !.batch = {}, !.goals = n, !.left = n,
                            !.texts = texts, !.rules = texts]
  <2>1. n \in Nat /\ NextPc(n, texts) \in {"submit", "learn", "finish"}
        /\ (NextPc(n, texts) = "submit" => n > 0)
    BY ImprovementAssumption, NextPcIs
  <2>2. b \in Analysis /\ b.pc = NextPc(n, texts) /\ b.batch = {} /\ b.left = n
    BY <1>1, <2>1 DEF Analysis, Pcs
  <2>3. analysis' = [analysis EXCEPT ![r] = b]
    BY <1>4 DEF Answered, SIInv, Shape
  <2> HIDE DEF b
  <2> QED BY <1>4, <2>1, <2>2, <2>3, AskEnds DEF Answered
<1>5. ASSUME NEW out \in WriteOutcomes, SubmitIdea(r, out)
      PROVE  SIInv'
  <2> DEFINE pc == NextPc(a.left - 1, a.rules)
             b == [a EXCEPT !.pc = pc, !.left = a.left - 1, !.errs = a.errs \/ out # "written"]
  <2>1. a.pc = "submit" /\ a.left - 1 \in 0 .. MaxIdeas
    BY <1>1, <1>5, ImprovementAssumption DEF SubmitIdea, SIInv, Counting, Analysis
  <2>2. pc \in {"submit", "learn", "finish"} /\ (pc = "submit" => a.left - 1 > 0)
    BY <2>1, NextPcIs, ImprovementAssumption
  <2>3. a.batch = {}
    BY <2>1 DEF SIInv, OnlyAskingHolds
  <2> HIDE DEF pc
  <2>4. b \in Analysis /\ b.pc = pc /\ b.batch = {} /\ b.left = a.left - 1
    BY <1>1, <2>1, <2>2, <2>3 DEF Analysis, Pcs
  <2>5. analysis' = [analysis EXCEPT ![r] = b]
    BY <1>5 DEF SubmitIdea, pc
  <2> HIDE DEF b
  <2> QED BY <1>5, <2>1, <2>2, <2>4, <2>5, Proceeds DEF SubmitIdea
<1>6. ASSUME NEW text \in Rules, NEW written \in BOOLEAN, Learn(r, text, written)
      PROVE  SIInv'
  <2> DEFINE pc == NextPc(0, a.rules \ {text})
             f == IF written THEN a.failed ELSE a.failed \cup {text}
             b == [a EXCEPT !.pc = pc, !.rules = a.rules \ {text}, !.errs = a.errs \/ ~written,
                            !.failed = f]
  <2>1. a.pc = "learn"
    BY <1>6 DEF Learn
  <2>2. pc \in {"learn", "finish"}
    BY NextPcIs
  <2>3. a.batch = {}
    BY <2>1 DEF SIInv, OnlyAskingHolds
  <2>6. f \in SUBSET Rules
    BY <1>1 DEF Analysis
  <2> HIDE DEF pc, f
  <2>4. b \in Analysis /\ b.pc = pc /\ b.batch = {}
    BY <1>1, <2>2, <2>3, <2>6 DEF Analysis, Pcs
  <2>5. analysis' = [analysis EXCEPT ![r] = b]
    BY <1>6 DEF Learn, pc, f
  <2> HIDE DEF b
  <2> QED BY <1>6, <2>1, <2>2, <2>4, <2>5, Proceeds DEF Learn
<1>7. CASE Finish(r)
  <2> DEFINE b == [a EXCEPT !.pc = "done"]
  <2>1. a.pc = "finish" /\ a.batch = {}
    BY <1>7 DEF Finish, SIInv, OnlyAskingHolds
  <2>2. b \in Analysis /\ b.pc = "done" /\ b.batch = {}
    BY <1>1, <2>1 DEF Analysis, Pcs
  <2>3. analysis' = [analysis EXCEPT ![r] = b]
    BY <1>7 DEF Finish
  <2> HIDE DEF b
  <2> QED BY <1>7, <2>1, <2>2, <2>3, Proceeds DEF Finish
<1> QED BY <1>2, <1>3, <1>4, <1>5, <1>6, <1>7 DEF AnalysisStep

\* A step that touches neither results nor analyses keeps the invariant.
LEMMA Elsewhere ==
    ASSUME SIInv, Shape', SlotFree', UNCHANGED siVars, UNCHANGED earlier
    PROVE  SIInv'
  BY DEF SIInv, siVars, OnlyAskingHolds, Counting, AnalysedOnce, Batched, NoneStranded

\* Every step keeps the invariant.
LEMMA StepKeeps == ASSUME SIInv, [Next]_vars PROVE SIInv'
<1>1. CASE UNCHANGED vars
  BY <1>1, Elsewhere DEF vars, siVars, SIInv, Shape, SlotFree
<1>2. CASE RequestGoal
  BY <1>2, Elsewhere DEF RequestGoal, siVars, SIInv, Shape, SlotFree
<1>3. ASSUME NEW id \in Ids, RunGoal(id) PROVE SIInv'
  BY <1>3, Elsewhere DEF RunGoal, siVars, SIInv, Shape, SlotFree
<1>4. ASSUME NEW id \in Ids, NEW out \in WriteOutcomes, DismissGoal(id, out) PROVE SIInv'
  BY <1>4, Elsewhere DEF DismissGoal, siVars, SIInv, Shape, SlotFree
<1>5. ASSUME NEW id \in DirectiveIDs, RemoveDirective(id) PROVE SIInv'
  BY <1>5, Elsewhere DEF RemoveDirective, siVars, SIInv, Shape, SlotFree
<1>6. CASE RunNext
  BY <1>6, Elsewhere DEF RunNext, siVars, SIInv, Shape, SlotFree, Polling
<1>7. ASSUME NEW ok \in BOOLEAN, FinishRun(ok) PROVE SIInv'
  BY <1>7, Elsewhere DEF FinishRun, siVars, SIInv, Shape, SlotFree
<1>8. CASE RecordResult
  BY <1>8, RecordKeeps
<1>9. ASSUME NEW r \in Results, AnalysisStep(r) PROVE SIInv'
  BY <1>9, AnalysisKeeps
<1>10. CASE Restart
  <2>1. /\ earlier' = recorded /\ recorded' = recorded /\ runner' = Polling
        /\ pending' = {} /\ analysis' = [r \in Results |-> Off] /\ stats' = 0
        /\ lost' = (1 .. recorded) \ read /\ read' = read
    BY <1>10 DEF Restart
  <2>2. Off \in Analysis
    BY ImprovementAssumption DEF Off, Analysis, Pcs
  <2>3. 1 .. recorded \subseteq Results /\ read \subseteq 1 .. recorded
    BY ImprovementAssumption DEF SIInv, Shape, AnalysedOnce, Results
  <2>4. Shape'
    BY <2>1, <2>2, <2>3, ImprovementAssumption DEF SIInv, Shape
  <2>5. SlotFree' /\ OnlyAskingHolds' /\ Counting' /\ NoneStranded'
    BY <2>1 DEF SlotFree, OnlyAskingHolds, Counting, NoneStranded, Off, Polling
  <2>6. Batched' = {}
    BY <2>1 DEF Batched, Off
  <2>7. \A r \in Results : analysis'[r].batch = {}
    BY <2>1 DEF Off
  <2>8. stats' = recorded' - earlier'
    BY <2>1, ImprovementAssumption DEF SIInv, Shape
  <2>9. AnalysedOnce'
    BY <2>1, <2>3, <2>6, <2>7, <2>8 DEF AnalysedOnce
  <2> QED BY <2>4, <2>5, <2>9 DEF SIInv
<1> QED BY <1>1, <1>2, <1>3, <1>4, <1>5, <1>6, <1>7, <1>8, <1>9, <1>10 DEF Next, RunnerStep

-----------------------------------------------------------------------------
\* The invariant holds in every state any number of analyses can reach.
THEOREM ImprovementInvariant == Spec => []SIInv
  BY InitHolds, StepKeeps, PTL DEF Spec

\* Every recorded result is in exactly one place, always: none is analysed twice and
\* none disappears without a failed call or the end of the process.
THEOREM ResultsAnalysedOnce == Spec => []AnalysedOnce
<1>1. SIInv => AnalysedOnce
  BY DEF SIInv
<1> QED BY <1>1, ImprovementInvariant, PTL

\* While there is a result in the buffer, some analysis is still to drain it.
THEOREM ResultsNotStranded == Spec => []NoneStranded
<1>1. SIInv => NoneStranded
  BY DEF SIInv
<1> QED BY <1>1, ImprovementInvariant, PTL

-----------------------------------------------------------------------------
(* What an analysis has got through is in effect, but for what it failed at. *)

\* The part of the types the arguments above do not need.
OtherTypes ==
    /\ TrackerTypeOK
    /\ issued \in 0 .. MaxGoals /\ waiting \subseteq Ids
    /\ runner \in Runner /\ (runner.pc = "run" => runner.id \in Ids)
    /\ lastError \in BOOLEAN /\ directives \subseteq DirectiveIDs /\ revoked \subseteq Rules
    /\ origin \in [Ids -> 0 .. MaxResults] /\ refused \subseteq Ids /\ dismissed \subseteq Ids

\* A tracked goal is a goal, and what is on disk is tracked unless it is to be deleted.
GoalsHeld ==
    /\ disk \in [Ids -> Goal \cup {NoGoal}]
    /\ \A id \in Ids : IsTracked(id) => heap[TrackedPtr(id)] # NoGoal
    /\ \A id \in Ids : disk[id] # NoGoal => IsTracked(id) \/ id \in dismissed

\* The goals of an analysis are those submitted since it started.
OriginsKnown ==
    /\ \A id \in Ids : origin[id] <= recorded
    /\ \A id \in Ids : id > issued => origin[id] = 0
    /\ \A id \in refused : id <= issued

\* The goals and the rules that a finished analysis need not answer for any more: they
\* are in effect, or somebody has seen to it that they are not.
GoalsSettled == {id \in Ids : disk[id] # NoGoal \/ id \in refused \/ id \in dismissed}
RulesSettled == {text \in Rules : LearnedID(text) \in directives \/ text \in revoked}

\* How far the analysis a has got with what it proposed.
StillEmpty(a) == a.goals = 0 /\ a.left = 0 /\ a.texts = {} /\ a.rules = {} /\ a.failed = {}

IdeasOf(r, o) == {id \in Ids : o[id] = r}

Landed(a, ideas, ref, gs, rs) ==
    /\ ideas \subseteq gs
    /\ Cardinality(ideas) + a.left = a.goals
    /\ a.texts \ (a.rules \cup a.failed) \subseteq rs
    /\ ideas \cap ref # {} \/ a.failed # {} => a.errs

Landing(a, ideas, ref, gs, rs) ==
    /\ a.pc \in {"off", "drain", "ask"} => StillEmpty(a)
    /\ a.pc \in {"learn", "finish", "done"} => a.left = 0
    /\ a.pc \in {"finish", "done"} => a.rules = {}
    /\ a.pc # "off" => Landed(a, ideas, ref, gs, rs)

AllLanding ==
    \A r \in Results : Landing(analysis[r], IdeasOf(r, origin), refused, GoalsSettled, RulesSettled)

-----------------------------------------------------------------------------
(* Types.                                                                   *)

LEMMA StateSet ==
    ASSUME NEW g \in Goal, NEW s \in GoalStates
    PROVE  [g EXCEPT !.state = s] \in Goal /\ [g EXCEPT !.state = s] # NoGoal
  BY DEF Goal, GoalStates, NoGoal

LEMMA FreshGoal == NewGoal \in Goal /\ NewGoal # NoGoal
  BY DEF NewGoal, Goal, GoalStates, NoGoal

LEMMA ImageIs ==
    ASSUME NEW h \in [Pointers -> Goal \cup {NoGoal}], NEW t \in [Ids -> Versions \cup {0}]
    PROVE  /\ Image(h, t) \in [Ids -> Goal \cup {NoGoal}]
           /\ \A id \in Ids : Image(h, t)[id] = IF t[id] = 0 THEN NoGoal ELSE h[<<id, t[id]>>]
<1>1. ASSUME NEW id \in Ids, t[id] # 0 PROVE h[<<id, t[id]>>] \in Goal \cup {NoGoal}
  <2>1. <<id, t[id]>> \in Pointers
    BY <1>1 DEF Pointers
  <2> QED BY <2>1
<1> QED BY <1>1 DEF Image

\* A mutation of the tracker ends with a write of the new heap and map.
Mutated(out) == disk' = AfterWrite(disk, Image(heap', tracked'), out)

HeapType == heap \in [Pointers -> Goal \cup {NoGoal}]
MapType == tracked \in [Ids -> Versions \cup {0}]

LEMMA MutationTypes ==
    ASSUME TrackerTypeOK, HeapType', MapType', NEW out, Mutated(out)
    PROVE  TrackerTypeOK'
<1>1. disk' \in {disk, Image(heap', tracked'), Torn}
  BY DEF AfterWrite, Mutated
<1>2. Image(heap', tracked') \in [Ids -> Goal \cup {NoGoal}]
  BY ImageIs DEF HeapType, MapType
<1> QED BY <1>1, <1>2 DEF TrackerTypeOK, HeapType, MapType

\* A new goal.
LEMMA TrackIs ==
    ASSUME TrackerTypeOK, NEW id \in Ids, NEW g \in Goal, NEW out, g # NoGoal,
           TrackGoal([heap EXCEPT ![<<id, 1>>] = g], <<id, 1>>, out)
    PROVE  /\ HeapType' /\ MapType' /\ Mutated(out)
           /\ tracked'[id] # 0 /\ heap'[<<id, tracked'[id]>>] # NoGoal
           /\ \A i \in Ids : i # id => /\ tracked'[i] = tracked[i]
                                      /\ heap'[<<i, tracked[i]>>] = heap[<<i, tracked[i]>>]
<1>1. 1 \in Versions /\ <<id, 1>> \in Pointers
  BY GoalsAssumption DEF Versions, Pointers
<1>2. heap' = [heap EXCEPT ![<<id, 1>>] = g] /\ tracked' = [tracked EXCEPT ![id] = 1]
  BY DEF TrackGoal
<1>3. HeapType' /\ MapType'
  BY <1>1, <1>2 DEF TrackerTypeOK, HeapType, MapType
<1>4. Mutated(out)
  BY DEF TrackGoal, Persist, Mutated
<1>5. tracked'[id] = 1 /\ heap'[<<id, 1>>] = g
  BY <1>1, <1>2 DEF TrackerTypeOK
<1>6. ASSUME NEW i \in Ids, i # id
      PROVE  tracked'[i] = tracked[i] /\ heap'[<<i, tracked[i]>>] = heap[<<i, tracked[i]>>]
  <2>1. <<i, tracked[i]>> # <<id, 1>>
    BY <1>6
  <2> QED BY <1>2, <1>6, <2>1 DEF TrackerTypeOK
<1> QED BY <1>3, <1>4, <1>5, <1>6

\* A new state of a tracked goal, or nothing.
LEMMA UpdateIs ==
    ASSUME TrackerTypeOK, NEW id \in Ids, NEW s \in GoalStates, UpdateGoalState(id, s, "written")
    PROVE  \/ UNCHANGED trackerVars
           \/ /\ HeapType' /\ MapType' /\ Mutated("written") /\ tracked' = tracked
              /\ \A i \in Ids : IsTracked(i) /\ heap[TrackedPtr(i)] # NoGoal => heap'[TrackedPtr(i)] # NoGoal
<1>1. SUFFICES ASSUME IsTracked(id), IsValidTransition(StateOf(id), s)
               PROVE  /\ HeapType' /\ MapType' /\ Mutated("written") /\ tracked' = tracked
                      /\ \A i \in Ids : IsTracked(i) /\ heap[TrackedPtr(i)] # NoGoal
                                           => heap'[TrackedPtr(i)] # NoGoal
  BY DEF UpdateGoalState
<1> DEFINE p == TrackedPtr(id)
<1>2. p \in Pointers
  BY <1>1 DEF TrackerTypeOK, TrackedPtr, IsTracked, Pointers
<1>3. heap[p] \in Goal
  <2>1. heap[p] \in Goal \cup {NoGoal}
    BY <1>2 DEF TrackerTypeOK
  <2>2. StateOf(id) = heap[p].state /\ StateOf(id) # "none"
    BY <1>1 DEF StateOf, IsValidTransition
  <2> QED BY <2>1, <2>2 DEF NoGoal
<1>4. [heap[p] EXCEPT !.state = s] \in Goal /\ [heap[p] EXCEPT !.state = s] # NoGoal
  BY <1>3, StateSet
<1>5. heap' = [heap EXCEPT ![p] = [heap[p] EXCEPT !.state = s]] /\ tracked' = tracked
  BY <1>1 DEF UpdateGoalState
<1>6. Mutated("written")
  BY <1>1 DEF UpdateGoalState, Persist, Mutated
<1>7. heap \in [Pointers -> Goal \cup {NoGoal}] /\ MapType'
  BY <1>5 DEF TrackerTypeOK, MapType
<1> HIDE DEF p
<1>8. HeapType'
  BY <1>2, <1>4, <1>5, <1>7 DEF HeapType
<1>9. ASSUME NEW i \in Ids, IsTracked(i), heap[TrackedPtr(i)] # NoGoal PROVE heap'[TrackedPtr(i)] # NoGoal
  <2>1. TrackedPtr(i) \in Pointers
    BY <1>9 DEF TrackerTypeOK, TrackedPtr, IsTracked, Pointers
  <2> QED BY <1>2, <1>4, <1>5, <1>7, <1>9, <2>1
<1> QED BY <1>5, <1>6, <1>7, <1>8, <1>9

\* A goal less.
LEMMA DeleteIs ==
    ASSUME TrackerTypeOK, NEW id \in Ids, NEW out, DeleteGoal(id, out)
    PROVE  /\ HeapType' /\ MapType' /\ Mutated(out) /\ heap' = heap
           /\ tracked'[id] = 0 /\ \A i \in Ids : i # id => tracked'[i] = tracked[i]
<1>1. tracked' = [tracked EXCEPT ![id] = 0] /\ heap' = heap
      /\ Persist(heap, [tracked EXCEPT ![id] = 0], out)
  BY DEF DeleteGoal
<1>2. HeapType' /\ MapType'
  BY <1>1 DEF TrackerTypeOK, HeapType, MapType
<1>3. Mutated(out)
  BY <1>1 DEF Persist, Mutated
<1> QED BY <1>1, <1>2, <1>3 DEF TrackerTypeOK

\* The goals analyses have still to submit are so many.
LEMMA ReservedIs == ASSUME Shape PROVE Reserved \in Nat
<1> DEFINE f == [r \in Results |-> analysis[r].left]
<1>1. \A r \in Results : analysis[r].left \in Nat
  BY ImprovementAssumption DEF Shape, Analysis
<1>2. f \in [Results -> Nat]
  BY <1>1
<1>3. IsFiniteSet(Results)
  BY ImprovementAssumption, FS_Interval DEF Results
<1>4. Reserved = SumFunction(f)
  BY DEF Reserved
<1> HIDE DEF f
<1> QED BY <1>2, <1>3, <1>4, SumType

\* A submission, with the types of what it adds.
LEMMA SubmitTypes ==
    ASSUME TrackerTypeOK, issued \in 0 .. MaxGoals, issued < MaxGoals, NEW g \in Goal, g # NoGoal, NEW out,
           TrackGoal([heap EXCEPT ![<<issued + 1, 1>>] = g], <<issued + 1, 1>>, out), issued' = issued + 1
    PROVE  TrackerTypeOK' /\ issued' \in 0 .. MaxGoals /\ issued + 1 \in Ids
<1>1. issued + 1 \in Ids /\ issued' \in 0 .. MaxGoals
  BY GoalsAssumption DEF Ids
<1>2. PICK id : id = issued + 1
  OBVIOUS
<1>3. id \in Ids /\ TrackGoal([heap EXCEPT ![<<id, 1>>] = g], <<id, 1>>, out)
  BY <1>1, <1>2
<1>4. HeapType' /\ MapType' /\ Mutated(out)
  BY <1>3, TrackIs
<1> QED BY <1>1, <1>4, MutationTypes

LEMMA UpdateTypes ==
    ASSUME TrackerTypeOK, NEW id \in Ids, NEW s \in GoalStates, UpdateGoalState(id, s, "written")
    PROVE  TrackerTypeOK'
<1>1. CASE UNCHANGED trackerVars
  BY <1>1 DEF trackerVars, TrackerTypeOK
<1> QED BY <1>1, UpdateIs, MutationTypes

\* What is read back is well formed if the file was.
LEMMA LoadTypes == ASSUME TrackerTypeOK, LoadGoals PROVE TrackerTypeOK'
<1>1. disk \in [Ids -> Goal \cup {NoGoal}] /\ 1 \in Versions
  BY GoalsAssumption DEF LoadGoals, TrackerTypeOK, Versions
<1>2. \A p \in Pointers : p[1] \in Ids
  BY DEF Pointers
<1>3. heap' \in [Pointers -> Goal \cup {NoGoal}] /\ tracked' \in [Ids -> Versions \cup {0}]
  BY <1>1, <1>2 DEF LoadGoals
<1> QED BY <1>3 DEF LoadGoals, TrackerTypeOK

LEMMA TypesInit == ASSUME Init PROVE OtherTypes
<1>1. TrackerTypeOK
  BY DEF Init, TrackerInit, TrackerTypeOK
<1>2. runner \in Runner /\ runner.pc # "run"
  BY DEF Init, Polling, Runner
<1>3. issued \in 0 .. MaxGoals /\ origin \in [Ids -> 0 .. MaxResults]
      /\ refused \subseteq Ids /\ dismissed \subseteq Ids /\ directives \subseteq DirectiveIDs
  BY GoalsAssumption, ImprovementAssumption DEF Init
<1> QED BY <1>1, <1>2, <1>3 DEF Init, OtherTypes

LEMMA AnalysisTypes ==
    ASSUME SIInv, OtherTypes, NEW r \in Results, AnalysisStep(r)
    PROVE  OtherTypes'
<1>1. CASE UNCHANGED <<trackerVars, issued, waiting, runner, goalVars, ruleVars>> /\ lastError' \in BOOLEAN
  BY <1>1 DEF OtherTypes, trackerVars, TrackerTypeOK, goalVars, ruleVars
<1>2. CASE Drain(r)
  BY <1>1, <1>2 DEF Drain, OtherTypes
<1>3. CASE NoAnswer(r)
  BY <1>1, <1>3 DEF NoAnswer, OtherTypes
<1>4. CASE Finish(r)
  BY <1>1, <1>4 DEF Finish, OtherTypes, SIInv, Shape, Analysis
<1>5. ASSUME NEW n \in 0 .. MaxIdeas, NEW texts \in SUBSET Rules, Answered(r, n, texts) PROVE OtherTypes'
  BY <1>1, <1>5 DEF Answered, OtherTypes
<1>6. ASSUME NEW text \in Rules, NEW written \in BOOLEAN, Learn(r, text, written) PROVE OtherTypes'
  <2>1. LearnedID(text) \in DirectiveIDs
    BY DEF DirectiveIDs
  <2>2. directives' \subseteq DirectiveIDs /\ revoked' \subseteq Rules
        /\ UNCHANGED <<trackerVars, issued, waiting, runner, goalVars, lastError>>
    BY <1>6, <2>1 DEF Learn, OtherTypes
  <2> QED BY <2>2 DEF OtherTypes, trackerVars, TrackerTypeOK, goalVars
<1>7. ASSUME NEW out \in WriteOutcomes, SubmitIdea(r, out) PROVE OtherTypes'
  <2>1. TrackGoal([heap EXCEPT ![<<issued + 1, 1>>] = NewGoal], <<issued + 1, 1>>, out)
        /\ issued < MaxGoals /\ issued' = issued + 1
        /\ origin' = [origin EXCEPT ![issued + 1] = r]
        /\ refused' = (IF out = "written" THEN refused ELSE refused \cup {issued + 1})
        /\ UNCHANGED <<waiting, runner, lastError, ruleVars, dismissed>>
    BY <1>7 DEF SubmitIdea
  <2>2. TrackerTypeOK' /\ issued' \in 0 .. MaxGoals /\ issued + 1 \in Ids
    BY <2>1, FreshGoal, SubmitTypes DEF OtherTypes
  <2>3. r \in 0 .. MaxResults
    BY ImprovementAssumption DEF Results
  <2> QED BY <2>1, <2>2, <2>3 DEF OtherTypes, ruleVars
<1> QED BY <1>2, <1>3, <1>4, <1>5, <1>6, <1>7 DEF AnalysisStep

LEMMA TypesStep == ASSUME SIInv, OtherTypes, [Next]_vars PROVE OtherTypes'
<1>1. CASE UNCHANGED vars
  BY <1>1 DEF vars, OtherTypes, TrackerTypeOK
<1>2. CASE RequestGoal
  <2>1. Reserved \in Nat
    BY ReservedIs DEF SIInv
  <2>2. TrackGoal([heap EXCEPT ![<<issued + 1, 1>>] = [NewGoal EXCEPT !.state = "active"]],
                  <<issued + 1, 1>>, "written")
        /\ issued + Reserved < MaxGoals /\ issued' = issued + 1 /\ waiting' = waiting \cup {issued + 1}
        /\ UNCHANGED <<runner, siVars, ruleVars, goalVars>>
    BY <1>2 DEF RequestGoal
  <2>3. [NewGoal EXCEPT !.state = "active"] \in Goal /\ [NewGoal EXCEPT !.state = "active"] # NoGoal
    BY FreshGoal, StateSet DEF GoalStates
  <2>4. issued < MaxGoals
    BY <2>1, <2>2, GoalsAssumption DEF OtherTypes
  <2>5. TrackerTypeOK' /\ issued' \in 0 .. MaxGoals /\ issued + 1 \in Ids
    BY <2>2, <2>3, <2>4, SubmitTypes DEF OtherTypes
  <2> QED BY <2>2, <2>5 DEF OtherTypes, siVars, ruleVars, goalVars
<1>3. ASSUME NEW id \in Ids, RunGoal(id) PROVE OtherTypes'
  <2>1. TrackerTypeOK'
    BY <1>3, UpdateTypes DEF RunGoal, OtherTypes, GoalStates
  <2> QED BY <1>3, <2>1 DEF RunGoal, OtherTypes, siVars, ruleVars, goalVars
<1>4. ASSUME NEW id \in Ids, NEW out \in WriteOutcomes, DismissGoal(id, out) PROVE OtherTypes'
  <2>1. DeleteGoal(id, out) /\ dismissed' = dismissed \cup {id}
        /\ UNCHANGED <<issued, waiting, runner, siVars, ruleVars, origin, refused>>
    BY <1>4 DEF DismissGoal
  <2>2. TrackerTypeOK'
    BY <2>1, DeleteIs, MutationTypes DEF OtherTypes
  <2> QED BY <2>1, <2>2 DEF OtherTypes, siVars, ruleVars
<1>5. ASSUME NEW id \in DirectiveIDs, RemoveDirective(id) PROVE OtherTypes'
  <2>1. id[2] \in Rules
    BY DEF LearnedID, DirectiveIDs
  <2> QED BY <1>5, <2>1 DEF RemoveDirective, OtherTypes, siVars, goalVars, trackerVars, TrackerTypeOK
<1>6. CASE RunNext
  <2>1. PICK id \in waiting : waiting' = waiting \ {id} /\ runner' = [Polling EXCEPT !.pc = "run", !.id = id]
    BY <1>6 DEF RunNext
  <2>2. runner' \in Runner /\ runner'.id \in Ids
    BY <2>1 DEF OtherTypes, Runner, Polling
  <2> QED BY <1>6, <2>1, <2>2 DEF RunNext, OtherTypes, siVars, ruleVars, goalVars, trackerVars, TrackerTypeOK
<1>7. ASSUME NEW ok \in BOOLEAN, FinishRun(ok) PROVE OtherTypes'
  <2>1. runner' \in Runner
    BY <1>7 DEF FinishRun, OtherTypes, Runner
  <2>2. UpdateGoalState(runner.id, IF ok THEN "done" ELSE "blocked", "written")
    BY <1>7 DEF FinishRun
  <2>3. (IF ok THEN "done" ELSE "blocked") \in GoalStates /\ runner.id \in Ids
    BY <1>7 DEF FinishRun, GoalStates, OtherTypes
  <2>4. TrackerTypeOK'
    BY <2>2, <2>3, UpdateTypes DEF OtherTypes
  <2>5. runner'.pc # "run"
    BY <1>7 DEF FinishRun, OtherTypes, Runner
  <2> QED BY <1>7, <2>1, <2>4, <2>5 DEF FinishRun, OtherTypes, siVars, ruleVars, goalVars
<1>8. CASE RecordResult
  BY <1>8 DEF RecordResult, OtherTypes, ruleVars, goalVars, trackerVars, TrackerTypeOK, Polling, Runner
<1>9. ASSUME NEW r \in Results, AnalysisStep(r) PROVE OtherTypes'
  BY <1>9, AnalysisTypes
<1>10. CASE Restart
  <2>1. TrackerTypeOK'
    BY <1>10, LoadTypes DEF Restart, OtherTypes
  <2> QED BY <1>10, <2>1 DEF Restart, OtherTypes, ruleVars, goalVars, Polling, Runner
<1> QED BY <1>1, <1>2, <1>3, <1>4, <1>5, <1>6, <1>7, <1>8, <1>9, <1>10 DEF Next, RunnerStep

-----------------------------------------------------------------------------
(* Goals and rules that have landed stay.                                   *)

\* A mutation that keeps every tracked goal but dismissed ones keeps every other goal on
\* disk, and one that is written brings every tracked goal there.
LEMMA MutationHolds ==
    ASSUME "torn" \notin WriteOutcomes, TrackerTypeOK, GoalsHeld, HeapType', MapType',
           NEW out \in WriteOutcomes, Mutated(out), dismissed \subseteq dismissed',
           \A i \in Ids : tracked[i] # 0 => tracked'[i] # 0 \/ i \in dismissed',
           \A i \in Ids : tracked'[i] # 0 => heap'[<<i, tracked'[i]>>] # NoGoal
    PROVE  /\ GoalsHeld'
           /\ \A i \in Ids : disk[i] # NoGoal => disk'[i] # NoGoal \/ i \in dismissed'
           /\ out = "written" => \A i \in Ids : tracked'[i] # 0 => disk'[i] # NoGoal
<1> DEFINE image == Image(heap', tracked')
<1>1. image \in [Ids -> Goal \cup {NoGoal}] /\ \A i \in Ids : image[i] # NoGoal <=> tracked'[i] # 0
  BY ImageIs DEF HeapType, MapType
<1>2. disk' \in {disk, image} /\ (out = "written" => disk' = image)
  BY WriteAssumption DEF Mutated, AfterWrite
<1> HIDE DEF image
<1>3. disk' \in [Ids -> Goal \cup {NoGoal}]
  BY <1>1, <1>2 DEF GoalsHeld
<1>4. \A i \in Ids : /\ disk'[i] # NoGoal => tracked'[i] # 0 \/ i \in dismissed'
                     /\ disk[i] # NoGoal => disk'[i] # NoGoal \/ i \in dismissed'
  BY <1>1, <1>2 DEF GoalsHeld, IsTracked
<1>5. GoalsHeld'
  BY <1>3, <1>4 DEF GoalsHeld, IsTracked, TrackedPtr
<1> QED BY <1>1, <1>2, <1>4, <1>5

\* What is settled stays settled if the file loses no goal but dismissed ones.
LEMMA SettledStays ==
    ASSUME refused \subseteq refused', dismissed \subseteq dismissed',
           \A i \in Ids : disk[i] # NoGoal => disk'[i] # NoGoal \/ i \in dismissed'
    PROVE  GoalsSettled \subseteq GoalsSettled'
  BY DEF GoalsSettled

\* A submission of the user's or of an analysis.
LEMMA SubmitHolds ==
    ASSUME "torn" \notin WriteOutcomes, OtherTypes, GoalsHeld, issued < MaxGoals, NEW g \in Goal, g # NoGoal,
           NEW out \in WriteOutcomes, dismissed' = dismissed,
           TrackGoal([heap EXCEPT ![<<issued + 1, 1>>] = g], <<issued + 1, 1>>, out)
    PROVE  /\ GoalsHeld'
           /\ \A i \in Ids : disk[i] # NoGoal => disk'[i] # NoGoal \/ i \in dismissed'
           /\ out = "written" => disk'[issued + 1] # NoGoal
<1>1. issued + 1 \in Ids
  BY GoalsAssumption DEF OtherTypes, Ids
<1>2. PICK id : id = issued + 1
  OBVIOUS
<1>3. id \in Ids /\ TrackGoal([heap EXCEPT ![<<id, 1>>] = g], <<id, 1>>, out)
  BY <1>1, <1>2
<1>4. TrackerTypeOK
  BY DEF OtherTypes
<1>5. /\ HeapType' /\ MapType' /\ Mutated(out)
      /\ tracked'[id] # 0 /\ heap'[<<id, tracked'[id]>>] # NoGoal
      /\ \A i \in Ids : i # id => /\ tracked'[i] = tracked[i]
                                 /\ heap'[<<i, tracked[i]>>] = heap[<<i, tracked[i]>>]
  BY <1>3, <1>4, TrackIs
<1>6. \A i \in Ids : /\ tracked[i] # 0 => tracked'[i] # 0
                     /\ tracked'[i] # 0 => heap'[<<i, tracked'[i]>>] # NoGoal
  BY <1>5 DEF GoalsHeld, IsTracked, TrackedPtr
<1>7. /\ GoalsHeld'
      /\ \A i \in Ids : disk[i] # NoGoal => disk'[i] # NoGoal \/ i \in dismissed'
      /\ out = "written" => \A i \in Ids : tracked'[i] # 0 => disk'[i] # NoGoal
  BY <1>4, <1>5, <1>6, MutationHolds
<1> QED BY <1>2, <1>3, <1>5, <1>7

\* A goal that is dismissed.
LEMMA DeleteHolds ==
    ASSUME "torn" \notin WriteOutcomes, OtherTypes, GoalsHeld, NEW id \in Ids, NEW out \in WriteOutcomes,
           DeleteGoal(id, out), dismissed' = dismissed \cup {id}
    PROVE  GoalsHeld' /\ \A i \in Ids : disk[i] # NoGoal => disk'[i] # NoGoal \/ i \in dismissed'
<1>1. TrackerTypeOK
  BY DEF OtherTypes
<1>2. /\ HeapType' /\ MapType' /\ Mutated(out) /\ heap' = heap
      /\ tracked'[id] = 0 /\ \A i \in Ids : i # id => tracked'[i] = tracked[i]
  BY <1>1, DeleteIs
<1>3. \A i \in Ids : /\ tracked[i] # 0 => tracked'[i] # 0 \/ i \in dismissed'
                     /\ tracked'[i] # 0 => heap'[<<i, tracked'[i]>>] # NoGoal
  BY <1>2 DEF GoalsHeld, IsTracked, TrackedPtr
<1>4. dismissed \subseteq dismissed'
  OBVIOUS
<1> QED BY <1>1, <1>2, <1>3, <1>4, MutationHolds

\* A goal that is run.
LEMMA UpdateHolds ==
    ASSUME "torn" \notin WriteOutcomes, OtherTypes, GoalsHeld, NEW id \in Ids, NEW s \in GoalStates,
           UpdateGoalState(id, s, "written"), dismissed' = dismissed
    PROVE  GoalsHeld' /\ \A i \in Ids : disk[i] # NoGoal => disk'[i] # NoGoal \/ i \in dismissed'
<1>1. CASE UNCHANGED trackerVars
  BY <1>1 DEF trackerVars, GoalsHeld, IsTracked, TrackedPtr
<1>2. TrackerTypeOK
  BY DEF OtherTypes
<1>3. CASE /\ HeapType' /\ MapType' /\ Mutated("written") /\ tracked' = tracked
           /\ \A i \in Ids : IsTracked(i) /\ heap[TrackedPtr(i)] # NoGoal => heap'[TrackedPtr(i)] # NoGoal
  <2>1. \A i \in Ids : /\ tracked[i] # 0 => tracked'[i] # 0
                       /\ tracked'[i] # 0 => heap'[<<i, tracked'[i]>>] # NoGoal
    BY <1>3 DEF GoalsHeld, IsTracked, TrackedPtr
  <2> QED BY <1>2, <1>3, <2>1, MutationHolds, WriteAssumption
<1> QED BY <1>1, <1>2, <1>3, UpdateIs

\* What one analysis has got through stays settled as long as its own goals are the same.
LEMMA LandingStays ==
    ASSUME NEW a, NEW ideas, NEW ref, NEW ref2, NEW gs, NEW gs2, NEW rs, NEW rs2,
           ideas \cap ref2 = ideas \cap ref, gs \subseteq gs2, rs \subseteq rs2,
           Landing(a, ideas, ref, gs, rs)
    PROVE  Landing(a, ideas, ref2, gs2, rs2)
<1>1. Landed(a, ideas, ref, gs, rs) => Landed(a, ideas, ref2, gs2, rs2)
  BY DEF Landed
<1> QED BY <1>1 DEF Landing

\* A step that keeps analyses and origins keeps what has landed.
LEMMA LandElsewhere ==
    ASSUME AllLanding, UNCHANGED <<analysis, origin, refused>>,
           GoalsSettled \subseteq GoalsSettled', RulesSettled \subseteq RulesSettled'
    PROVE  AllLanding'
<1>1. ASSUME NEW r \in Results
      PROVE  Landing(analysis[r], IdeasOf(r, origin), refused, GoalsSettled', RulesSettled')
  <2>1. Landing(analysis[r], IdeasOf(r, origin), refused, GoalsSettled, RulesSettled)
    BY DEF AllLanding
  <2> QED BY <2>1, LandingStays
<1> QED BY <1>1 DEF AllLanding

\* A step of the analysis of r: the others keep what they have put into effect.
LEMMA LandOne ==
    ASSUME SIInv, AllLanding, NEW r \in Results, NEW b, analysis' = [analysis EXCEPT ![r] = b],
           \A q \in Results : q # r => /\ IdeasOf(q, origin') = IdeasOf(q, origin)
                                      /\ IdeasOf(q, origin) \cap refused' = IdeasOf(q, origin) \cap refused,
           GoalsSettled \subseteq GoalsSettled', RulesSettled \subseteq RulesSettled',
           Landing(b, IdeasOf(r, origin'), refused', GoalsSettled', RulesSettled')
    PROVE  AllLanding'
<1>1. \A q \in Results : analysis'[q] = IF q = r THEN b ELSE analysis[q]
  BY DEF SIInv, Shape
<1>2. ASSUME NEW q \in Results
      PROVE  Landing(analysis'[q], IdeasOf(q, origin'), refused', GoalsSettled', RulesSettled')
  <2>1. CASE q = r
    BY <1>1, <2>1
  <2>2. CASE q # r
    <3>1. Landing(analysis[q], IdeasOf(q, origin), refused, GoalsSettled, RulesSettled)
          /\ analysis'[q] = analysis[q]
      BY <1>1, <2>2 DEF AllLanding
    <3>2. IdeasOf(q, origin') = IdeasOf(q, origin)
          /\ IdeasOf(q, origin) \cap refused' = IdeasOf(q, origin) \cap refused
      BY <2>2
    <3>3. Landing(analysis[q], IdeasOf(q, origin), refused', GoalsSettled', RulesSettled')
      BY <3>1, <3>2, LandingStays
    <3> QED BY <3>1, <3>2, <3>3
  <2> QED BY <2>1, <2>2
<1> QED BY <1>2 DEF AllLanding

LEMMA IdeasFinite == ASSUME NEW r, NEW o PROVE IsFiniteSet(IdeasOf(r, o)) /\ Cardinality(IdeasOf(r, o)) \in Nat
<1>1. IsFiniteSet(Ids)
  BY GoalsAssumption, FS_Interval DEF Ids
<1>2. IdeasOf(r, o) \in SUBSET Ids
  BY DEF IdeasOf
<1> QED BY <1>1, <1>2, FS_Subset, FS_CardinalityType

\* A step of an analysis that changes neither goals nor directives.
LEMMA LandAlone ==
    ASSUME SIInv, GoalsHeld, OriginsKnown, AllLanding, NEW r \in Results, NEW b,
           analysis' = [analysis EXCEPT ![r] = b],
           UNCHANGED <<trackerVars, issued, recorded, goalVars, ruleVars>>,
           Landing(b, IdeasOf(r, origin), refused, GoalsSettled, RulesSettled)
    PROVE  GoalsHeld' /\ OriginsKnown' /\ AllLanding'
<1>1. GoalsHeld' /\ OriginsKnown'
  BY DEF GoalsHeld, OriginsKnown, IsTracked, TrackedPtr, trackerVars, goalVars
<1>2. GoalsSettled' = GoalsSettled /\ RulesSettled' = RulesSettled /\ origin' = origin /\ refused' = refused
  BY DEF trackerVars, goalVars, ruleVars, GoalsSettled, RulesSettled
<1>3. Landing(b, IdeasOf(r, origin'), refused', GoalsSettled', RulesSettled')
  BY <1>2
<1> QED BY <1>1, <1>2, <1>3, LandOne

\* A submission counts as one of its analysis' goals, on disk if it was written, and an
\* error if it was not.
LEMMA SubmitLands ==
    ASSUME "torn" \notin WriteOutcomes, SIInv, OtherTypes, GoalsHeld, OriginsKnown, AllLanding,
           NEW r \in Results, NEW out \in WriteOutcomes, SubmitIdea(r, out)
    PROVE  GoalsHeld' /\ OriginsKnown' /\ AllLanding'
<1> DEFINE a == analysis[r]
           b == [a EXCEPT !.pc = NextPc(a.left - 1, a.rules), !.left = a.left - 1,
                          !.errs = a.errs \/ out # "written"]
<1>1. a \in Analysis /\ a.left \in Nat /\ a.goals \in Nat /\ a.left > 0 /\ a.errs \in BOOLEAN /\ a.pc = "submit"
  BY ImprovementAssumption DEF SIInv, Shape, Analysis, Counting, SubmitIdea
<1>2. Landed(a, IdeasOf(r, origin), refused, GoalsSettled, RulesSettled)
  BY <1>1 DEF AllLanding, Landing
<1>3. /\ TrackGoal([heap EXCEPT ![<<issued + 1, 1>>] = NewGoal], <<issued + 1, 1>>, out)
      /\ issued < MaxGoals /\ issued' = issued + 1 /\ recorded' = recorded
      /\ origin' = [origin EXCEPT ![issued + 1] = r]
      /\ refused' = (IF out = "written" THEN refused ELSE refused \cup {issued + 1})
      /\ dismissed' = dismissed /\ RulesSettled' = RulesSettled
      /\ analysis' = [analysis EXCEPT ![r] = b]
  BY DEF SubmitIdea, ruleVars, RulesSettled
<1>4. /\ GoalsHeld'
      /\ \A i \in Ids : disk[i] # NoGoal => disk'[i] # NoGoal \/ i \in dismissed'
      /\ out = "written" => disk'[issued + 1] # NoGoal
  BY <1>3, FreshGoal, SubmitHolds
<1>5. issued + 1 \in Ids /\ issued \in Nat /\ origin \in [Ids -> 0 .. MaxResults] /\ origin[issued + 1] = 0
  BY <1>3, GoalsAssumption DEF OtherTypes, OriginsKnown, Ids
<1>6. PICK id : id = issued + 1
  OBVIOUS
<1>7. id \in Ids /\ origin[id] = 0 /\ id \notin refused
      /\ \A i \in Ids : origin'[i] = IF i = id THEN r ELSE origin[i]
  BY <1>3, <1>5, <1>6 DEF OriginsKnown
<1>8. r # 0 /\ r <= recorded /\ recorded \in Nat
  BY <1>1, ImprovementAssumption DEF SIInv, Shape, SlotFree, Results
<1>9. OriginsKnown'
  <2>1. \A i \in Ids : i > issued + 1 => i # id /\ i > issued
    BY <1>5, <1>6 DEF Ids
  <2>2. \A i \in Ids : i > issued + 1 => origin'[i] = 0
    BY <1>7, <2>1 DEF OriginsKnown
  <2>3. \A i \in Ids : origin'[i] <= recorded
    BY <1>7, <1>8 DEF OriginsKnown
  <2>4. \A i \in refused' : i <= issued + 1
    BY <1>3, <1>5 DEF OriginsKnown, OtherTypes, Ids
  <2> QED BY <1>3, <2>2, <2>3, <2>4 DEF OriginsKnown
<1>10. IdeasOf(r, origin') = IdeasOf(r, origin) \cup {id} /\ id \notin IdeasOf(r, origin)
  BY <1>7, <1>8 DEF IdeasOf
<1>11. \A q \in Results : q # r => /\ IdeasOf(q, origin') = IdeasOf(q, origin)
                                  /\ IdeasOf(q, origin) \cap refused' = IdeasOf(q, origin) \cap refused
  <2>1. ASSUME NEW q \in Results PROVE id \notin IdeasOf(q, origin)
    BY <1>7 DEF IdeasOf, Results
  <2> QED BY <1>3, <1>6, <1>7, <2>1 DEF IdeasOf
<1>12. /\ Cardinality(IdeasOf(r, origin')) = Cardinality(IdeasOf(r, origin)) + 1
       /\ Cardinality(IdeasOf(r, origin)) \in Nat
  BY <1>10, IdeasFinite, FS_AddElement
<1>13. b.left = a.left - 1 /\ b.goals = a.goals /\ b.texts = a.texts /\ b.rules = a.rules
       /\ b.failed = a.failed /\ b.errs = (a.errs \/ out # "written")
       /\ b.pc = NextPc(a.left - 1, a.rules)
  BY <1>1 DEF Analysis
<1> HIDE DEF b
<1>14. /\ b.pc \in {"submit", "learn", "finish"}
       /\ b.pc # "submit" => b.left = 0
       /\ b.pc = "finish" => b.rules = {}
  <2>1. PICK n \in Nat : n = a.left - 1
    BY <1>1
  <2> QED BY <1>13, <2>1, NextPcIs
<1>18. GoalsSettled \subseteq GoalsSettled' /\ id \in GoalsSettled'
  <2>1. refused \subseteq refused' /\ dismissed \subseteq dismissed'
    BY <1>3
  <2>2. disk'[id] # NoGoal \/ id \in refused'
    BY <1>3, <1>4, <1>6
  <2> QED BY <1>4, <1>7, <2>1, <2>2, SettledStays DEF GoalsSettled
<1>15. Landed(b, IdeasOf(r, origin'), refused', GoalsSettled', RulesSettled')
  <2>1. IdeasOf(r, origin') \subseteq GoalsSettled'
    BY <1>2, <1>10, <1>18 DEF Landed
  <2>2. Cardinality(IdeasOf(r, origin')) + b.left = b.goals
    BY <1>1, <1>2, <1>12, <1>13 DEF Landed
  <2>3. IdeasOf(r, origin') \cap refused' # {} => b.errs
    <3>1. CASE out = "written"
      BY <1>2, <1>3, <1>7, <1>10, <1>13, <3>1 DEF Landed
    <3>2. CASE out # "written"
      BY <1>13, <3>2
    <3> QED BY <3>1, <3>2
  <2> QED BY <1>2, <1>3, <1>13, <2>1, <2>2, <2>3 DEF Landed
<1>16. Landing(b, IdeasOf(r, origin'), refused', GoalsSettled', RulesSettled')
  BY <1>14, <1>15 DEF Landing
<1>17. AllLanding'
  BY <1>3, <1>11, <1>16, <1>18, LandOne
<1> QED BY <1>4, <1>9, <1>17

\* A rule that is learned is a directive, and one that is not is an error of the cycle.
LEMMA LearnLands ==
    ASSUME SIInv, OtherTypes, GoalsHeld, OriginsKnown, AllLanding,
           NEW r \in Results, NEW text \in Rules, NEW written \in BOOLEAN, Learn(r, text, written)
    PROVE  GoalsHeld' /\ OriginsKnown' /\ AllLanding'
<1> DEFINE a == analysis[r]
           b == [a EXCEPT !.pc = NextPc(0, a.rules \ {text}), !.rules = a.rules \ {text},
                          !.errs = a.errs \/ ~written,
                          !.failed = IF written THEN a.failed ELSE a.failed \cup {text}]
<1>1. a \in Analysis /\ a.errs \in BOOLEAN /\ a.pc = "learn"
  BY DEF SIInv, Shape, Analysis, Learn
<1>2. Landed(a, IdeasOf(r, origin), refused, GoalsSettled, RulesSettled) /\ a.left = 0
  BY <1>1 DEF AllLanding, Landing
<1>3. /\ UNCHANGED <<trackerVars, issued, recorded, goalVars>>
      /\ directives' = IF written THEN directives \cup {LearnedID(text)} ELSE directives
      /\ revoked' = IF written THEN revoked \ {text} ELSE revoked
      /\ analysis' = [analysis EXCEPT ![r] = b]
  BY DEF Learn
<1>4. GoalsHeld' /\ OriginsKnown' /\ GoalsSettled' = GoalsSettled /\ origin' = origin /\ refused' = refused
  BY <1>3 DEF GoalsHeld, OriginsKnown, IsTracked, TrackedPtr, trackerVars, goalVars, GoalsSettled
<1>5. RulesSettled \subseteq RulesSettled' /\ (written => text \in RulesSettled')
  BY <1>3 DEF RulesSettled
<1>6. b.left = a.left /\ b.goals = a.goals /\ b.texts = a.texts /\ b.rules = a.rules \ {text}
       /\ b.failed = (IF written THEN a.failed ELSE a.failed \cup {text})
       /\ b.errs = (a.errs \/ ~written) /\ b.pc = NextPc(0, a.rules \ {text})
  BY <1>1 DEF Analysis
<1> HIDE DEF b
<1>7. b.pc \in {"learn", "finish"} /\ (b.pc = "finish" => b.rules = {})
  BY <1>6, NextPcIs
<1>8. Landed(b, IdeasOf(r, origin'), refused', GoalsSettled', RulesSettled')
  <2>1. b.texts \ (b.rules \cup b.failed) \subseteq RulesSettled'
    BY <1>2, <1>5, <1>6 DEF Landed
  <2>2. b.failed # {} => b.errs
    BY <1>2, <1>6 DEF Landed
  <2> QED BY <1>2, <1>4, <1>6, <2>1, <2>2 DEF Landed
<1>9. Landing(b, IdeasOf(r, origin'), refused', GoalsSettled', RulesSettled')
  BY <1>2, <1>6, <1>7, <1>8 DEF Landing
<1>10. AllLanding'
  <2>1. \A q \in Results : q # r => /\ IdeasOf(q, origin') = IdeasOf(q, origin)
                                   /\ IdeasOf(q, origin) \cap refused' = IdeasOf(q, origin) \cap refused
    BY <1>4
  <2> QED BY <1>3, <1>4, <1>5, <1>9, <2>1, LandOne
<1> QED BY <1>4, <1>10

LEMMA AnalysisLands ==
    ASSUME "torn" \notin WriteOutcomes, SIInv, OtherTypes, GoalsHeld, OriginsKnown, AllLanding,
           NEW r \in Results, AnalysisStep(r)
    PROVE  GoalsHeld' /\ OriginsKnown' /\ AllLanding'
<1> DEFINE a == analysis[r]
<1>1. a \in Analysis /\ a.errs \in BOOLEAN
  BY DEF SIInv, Shape, Analysis
<1>2. Landing(a, IdeasOf(r, origin), refused, GoalsSettled, RulesSettled)
  BY DEF AllLanding
<1>3. CASE Drain(r)
  <2> DEFINE b == [a EXCEPT !.pc = IF pending = {} THEN "done" ELSE "ask", !.batch = pending]
  <2>1. analysis' = [analysis EXCEPT ![r] = b] /\ a.pc = "drain"
        /\ UNCHANGED <<trackerVars, issued, recorded, goalVars, ruleVars>>
    BY <1>3 DEF Drain, SIInv, Shape
  <2>2. /\ b.pc \in {"ask", "done"} /\ b.errs = a.errs /\ b.left = a.left /\ b.goals = a.goals
        /\ b.texts = a.texts /\ b.rules = a.rules /\ b.failed = a.failed
    BY <1>1 DEF Analysis
  <2> HIDE DEF a, b
  <2>3. Landing(b, IdeasOf(r, origin), refused, GoalsSettled, RulesSettled)
    BY <1>2, <2>1, <2>2 DEF Landing, Landed, StillEmpty
  <2> QED BY <2>1, <2>3, LandAlone
<1>4. CASE NoAnswer(r)
  <2> DEFINE b == [a EXCEPT !.pc = "done", !.batch = {}, !.errs = TRUE]
  <2>1. analysis' = [analysis EXCEPT ![r] = b] /\ a.pc = "ask"
        /\ UNCHANGED <<trackerVars, issued, recorded, goalVars, ruleVars>>
    BY <1>4 DEF NoAnswer
  <2>2. /\ b.pc = "done" /\ b.errs /\ b.left = a.left /\ b.goals = a.goals
        /\ b.texts = a.texts /\ b.rules = a.rules /\ b.failed = a.failed
    BY <1>1 DEF Analysis
  <2> HIDE DEF a, b
  <2>3. Landing(b, IdeasOf(r, origin), refused, GoalsSettled, RulesSettled)
    BY <1>2, <2>1, <2>2 DEF Landing, Landed, StillEmpty
  <2> QED BY <2>1, <2>3, LandAlone
<1>5. CASE Finish(r)
  <2> DEFINE b == [a EXCEPT !.pc = "done"]
  <2>1. analysis' = [analysis EXCEPT ![r] = b] /\ a.pc = "finish"
        /\ UNCHANGED <<trackerVars, issued, recorded, goalVars, ruleVars>>
    BY <1>5 DEF Finish
  <2>2. /\ b.pc = "done" /\ b.errs = a.errs /\ b.left = a.left /\ b.goals = a.goals
        /\ b.texts = a.texts /\ b.rules = a.rules /\ b.failed = a.failed
    BY <1>1 DEF Analysis
  <2> HIDE DEF a, b
  <2>3. Landing(b, IdeasOf(r, origin), refused, GoalsSettled, RulesSettled)
    BY <1>2, <2>1, <2>2 DEF Landing, Landed
  <2> QED BY <2>1, <2>3, LandAlone
<1>6. ASSUME NEW n \in 0 .. MaxIdeas, NEW texts \in SUBSET Rules, Answered(r, n, texts)
      PROVE  GoalsHeld' /\ OriginsKnown' /\ AllLanding'
  <2> DEFINE b == [a EXCEPT !.pc = NextPc(n, texts), !.batch = {}, !.goals = n, !.left = n,
                            !.texts = texts, !.rules = texts]
  <2>1. analysis' = [analysis EXCEPT ![r] = b] /\ a.pc = "ask"
        /\ UNCHANGED <<trackerVars, issued, recorded, goalVars, ruleVars>>
    BY <1>6 DEF Answered
  <2>2. /\ b.pc = NextPc(n, texts) /\ b.errs = a.errs /\ b.left = n /\ b.goals = n
        /\ b.texts = texts /\ b.rules = texts /\ b.failed = a.failed
    BY <1>1 DEF Analysis
  <2>3. n \in Nat
    BY ImprovementAssumption
  <2> HIDE DEF a, b
  <2>4. /\ b.pc \in {"submit", "learn", "finish"}
        /\ b.pc # "submit" => b.left = 0
        /\ b.pc = "finish" => b.rules = {}
    BY <2>2, <2>3, NextPcIs
  <2>5. Landed(b, IdeasOf(r, origin), refused, GoalsSettled, RulesSettled)
    <3>1. Landed(a, IdeasOf(r, origin), refused, GoalsSettled, RulesSettled) /\ StillEmpty(a)
      BY <1>2, <2>1 DEF Landing
    <3>2. Cardinality(IdeasOf(r, origin)) = 0
      BY <3>1, IdeasFinite DEF Landed, StillEmpty
    <3> QED BY <2>2, <2>3, <3>1, <3>2 DEF Landed, StillEmpty
  <2>6. Landing(b, IdeasOf(r, origin), refused, GoalsSettled, RulesSettled)
    BY <2>4, <2>5 DEF Landing
  <2> QED BY <2>1, <2>6, LandAlone
<1>7. ASSUME NEW out \in WriteOutcomes, SubmitIdea(r, out)
      PROVE  GoalsHeld' /\ OriginsKnown' /\ AllLanding'
  BY <1>7, SubmitLands
<1>8. ASSUME NEW text \in Rules, NEW written \in BOOLEAN, Learn(r, text, written)
      PROVE  GoalsHeld' /\ OriginsKnown' /\ AllLanding'
  BY <1>8, LearnLands
<1> QED BY <1>3, <1>4, <1>5, <1>6, <1>7, <1>8 DEF AnalysisStep

\* A new result starts an analysis that has not submitted anything.
LEMMA RecordLands ==
    ASSUME SIInv, OtherTypes, GoalsHeld, OriginsKnown, AllLanding, RecordResult
    PROVE  GoalsHeld' /\ OriginsKnown' /\ AllLanding'
<1> DEFINE b == [Off EXCEPT !.pc = "drain"]
<1>1. PICK n : n = recorded + 1
  OBVIOUS
<1>2. n \in Results /\ recorded \in Nat
  BY <1>1, ImprovementAssumption DEF SIInv, Shape, SlotFree, RecordResult, Results
<1>3. /\ UNCHANGED <<trackerVars, issued, goalVars, ruleVars>>
      /\ recorded' = n /\ analysis' = [analysis EXCEPT ![n] = b]
  BY <1>1 DEF RecordResult
<1>4. origin \in [Ids -> 0 .. MaxResults]
  BY DEF OtherTypes
<1>5. GoalsHeld' /\ OriginsKnown'
  <2>1. \A i \in Ids : origin[i] <= n
    BY <1>1, <1>2, <1>4, ImprovementAssumption DEF OriginsKnown
  <2> QED BY <1>3, <2>1 DEF GoalsHeld, OriginsKnown, IsTracked, TrackedPtr, trackerVars, goalVars
<1>6. IdeasOf(n, origin) = {}
  BY <1>1, <1>2, <1>4, ImprovementAssumption DEF OriginsKnown, IdeasOf
<1>7. b.pc = "drain" /\ b.goals = 0 /\ b.left = 0 /\ b.texts = {} /\ b.rules = {} /\ b.failed = {}
  BY DEF Off
<1> HIDE DEF b
<1>8. Landing(b, {}, refused', GoalsSettled', RulesSettled')
  BY <1>7, FS_EmptySet DEF Landing, Landed, StillEmpty
<1>9. GoalsSettled' = GoalsSettled /\ RulesSettled' = RulesSettled /\ origin' = origin /\ refused' = refused
  BY <1>3 DEF trackerVars, goalVars, ruleVars, GoalsSettled, RulesSettled
<1>10. Landing(b, IdeasOf(n, origin'), refused', GoalsSettled', RulesSettled')
  BY <1>6, <1>8, <1>9
<1>11. AllLanding'
  BY <1>2, <1>3, <1>9, <1>10, LandOne
<1> QED BY <1>5, <1>11

\* After a restart nothing is at work, and what is tracked is what the file holds.
LEMMA RestartLands ==
    ASSUME OtherTypes, GoalsHeld, OriginsKnown, Restart
    PROVE  GoalsHeld' /\ OriginsKnown' /\ AllLanding'
<1>1. /\ analysis' = [r \in Results |-> Off] /\ disk' = disk
      /\ UNCHANGED <<issued, recorded, origin>> /\ refused' = {}
      /\ tracked' = [id \in Ids |-> IF disk[id] = NoGoal THEN 0 ELSE 1]
      /\ heap' = [p \in Pointers |-> IF p[2] = 1 THEN disk[p[1]] ELSE NoGoal]
  BY DEF Restart, LoadGoals
<1>2. OriginsKnown'
  BY <1>1 DEF OriginsKnown
<1>3. AllLanding'
  BY <1>1 DEF AllLanding, Landing, StillEmpty, Off
<1>4. ASSUME NEW id \in Ids, tracked'[id] # 0 PROVE heap'[<<id, tracked'[id]>>] # NoGoal
  <2>1. tracked'[id] = 1 /\ disk[id] # NoGoal
    BY <1>1, <1>4
  <2>2. <<id, 1>> \in Pointers
    BY GoalsAssumption DEF Pointers, Versions
  <2>3. heap'[<<id, 1>>] = disk[id]
    BY <1>1, <2>2
  <2> QED BY <2>1, <2>3
<1>5. GoalsHeld'
  BY <1>1, <1>4 DEF GoalsHeld, IsTracked, TrackedPtr
<1> QED BY <1>2, <1>3, <1>5

LEMMA LandsInit == ASSUME Init PROVE GoalsHeld /\ OriginsKnown /\ AllLanding
<1>1. GoalsHeld /\ OriginsKnown
  BY DEF Init, TrackerInit, GoalsHeld, OriginsKnown, IsTracked
<1>2. AllLanding
  BY DEF Init, AllLanding, Landing, StillEmpty, Off
<1> QED BY <1>1, <1>2

LEMMA LandsStep ==
    ASSUME "torn" \notin WriteOutcomes, SIInv, OtherTypes, GoalsHeld, OriginsKnown, AllLanding,
           [Next]_vars
    PROVE  GoalsHeld' /\ OriginsKnown' /\ AllLanding'
<1>1. CASE UNCHANGED <<trackerVars, issued, recorded, goalVars, ruleVars, analysis>>
  BY <1>1 DEF GoalsHeld, OriginsKnown, AllLanding, GoalsSettled, RulesSettled, IsTracked, TrackedPtr, trackerVars,
          goalVars, ruleVars
<1>2. CASE UNCHANGED vars
  BY <1>1, <1>2 DEF vars, trackerVars, goalVars, ruleVars
<1>3. CASE RequestGoal
  <2>1. Reserved \in Nat
    BY ReservedIs DEF SIInv
  <2>2. TrackGoal([heap EXCEPT ![<<issued + 1, 1>>] = [NewGoal EXCEPT !.state = "active"]],
                  <<issued + 1, 1>>, "written")
        /\ issued + Reserved < MaxGoals /\ issued' = issued + 1
        /\ UNCHANGED <<recorded, analysis, ruleVars, goalVars>>
    BY <1>3 DEF RequestGoal, siVars
  <2>3. [NewGoal EXCEPT !.state = "active"] \in Goal /\ [NewGoal EXCEPT !.state = "active"] # NoGoal
    BY FreshGoal, StateSet DEF GoalStates
  <2>4. issued < MaxGoals /\ issued \in Nat
    BY <2>1, <2>2, GoalsAssumption DEF OtherTypes
  <2>5. GoalsHeld' /\ \A i \in Ids : disk[i] # NoGoal => disk'[i] # NoGoal \/ i \in dismissed'
    BY <2>2, <2>3, <2>4, SubmitHolds, WriteAssumption DEF goalVars
  <2>6. OriginsKnown'
    BY <2>2, <2>4 DEF OriginsKnown, OtherTypes, Ids, goalVars
  <2>7. AllLanding'
    BY <2>2, <2>5, SettledStays, LandElsewhere DEF goalVars, ruleVars, RulesSettled
  <2> QED BY <2>5, <2>6, <2>7
<1>4. ASSUME NEW id \in Ids, RunGoal(id) PROVE GoalsHeld' /\ OriginsKnown' /\ AllLanding'
  <2>1. UpdateGoalState(id, "active", "written")
        /\ UNCHANGED <<issued, recorded, analysis, ruleVars, goalVars>>
    BY <1>4 DEF RunGoal, siVars
  <2>2. GoalsHeld' /\ \A i \in Ids : disk[i] # NoGoal => disk'[i] # NoGoal \/ i \in dismissed'
    BY <2>1, UpdateHolds DEF GoalStates, goalVars
  <2>3. AllLanding'
    BY <2>1, <2>2, SettledStays, LandElsewhere DEF goalVars, ruleVars, RulesSettled
  <2> QED BY <2>1, <2>2, <2>3 DEF OriginsKnown, goalVars
<1>5. ASSUME NEW id \in Ids, NEW out \in WriteOutcomes, DismissGoal(id, out)
      PROVE  GoalsHeld' /\ OriginsKnown' /\ AllLanding'
  <2>1. DeleteGoal(id, out) /\ dismissed' = dismissed \cup {id}
        /\ UNCHANGED <<issued, recorded, analysis, ruleVars, origin, refused>>
    BY <1>5 DEF DismissGoal, siVars
  <2>2. GoalsHeld' /\ \A i \in Ids : disk[i] # NoGoal => disk'[i] # NoGoal \/ i \in dismissed'
    BY <2>1, DeleteHolds
  <2>3. dismissed \subseteq dismissed'
    BY <2>1
  <2>4. AllLanding'
    BY <2>1, <2>2, <2>3, SettledStays, LandElsewhere DEF ruleVars, RulesSettled
  <2> QED BY <2>1, <2>2, <2>4 DEF OriginsKnown
<1>6. ASSUME NEW id \in DirectiveIDs, RemoveDirective(id)
      PROVE  GoalsHeld' /\ OriginsKnown' /\ AllLanding'
  <2>1. UNCHANGED <<trackerVars, issued, recorded, analysis, goalVars>>
        /\ directives' = directives \ {id}
        /\ revoked' = revoked \cup {id[2]}
    BY <1>6 DEF RemoveDirective, siVars
  <2>2. ASSUME NEW t \in RulesSettled PROVE t \in RulesSettled'
    <3>1. LearnedID(t)[2] = t
      BY DEF LearnedID
    <3>2. CASE LearnedID(t) = id
      BY <2>1, <3>1, <3>2 DEF RulesSettled
    <3>3. CASE LearnedID(t) # id
      BY <2>1, <3>3 DEF RulesSettled
    <3> QED BY <3>2, <3>3
  <2>3. GoalsSettled' = GoalsSettled
    BY <2>1 DEF GoalsSettled, trackerVars, goalVars
  <2>4. AllLanding'
    BY <2>1, <2>2, <2>3, LandElsewhere DEF goalVars
  <2> QED BY <2>1, <2>4 DEF GoalsHeld, OriginsKnown, IsTracked, TrackedPtr, trackerVars, goalVars
<1>7. CASE RunNext
  BY <1>1, <1>7 DEF RunNext, siVars
<1>8. ASSUME NEW ok \in BOOLEAN, FinishRun(ok) PROVE GoalsHeld' /\ OriginsKnown' /\ AllLanding'
  <2>1. UpdateGoalState(runner.id, IF ok THEN "done" ELSE "blocked", "written")
        /\ UNCHANGED <<issued, recorded, analysis, ruleVars, goalVars>>
    BY <1>8 DEF FinishRun, siVars
  <2>2. (IF ok THEN "done" ELSE "blocked") \in GoalStates /\ runner.id \in Ids
    BY <1>8 DEF FinishRun, GoalStates, OtherTypes
  <2>3. GoalsHeld' /\ \A i \in Ids : disk[i] # NoGoal => disk'[i] # NoGoal \/ i \in dismissed'
    BY <2>1, <2>2, UpdateHolds DEF goalVars
  <2>4. AllLanding'
    BY <2>1, <2>3, SettledStays, LandElsewhere DEF goalVars, ruleVars, RulesSettled
  <2> QED BY <2>1, <2>3, <2>4 DEF OriginsKnown, goalVars
<1>9. CASE RecordResult
  BY <1>9, RecordLands
<1>10. ASSUME NEW r \in Results, AnalysisStep(r) PROVE GoalsHeld' /\ OriginsKnown' /\ AllLanding'
  BY <1>10, AnalysisLands
<1>11. CASE Restart
  BY <1>11, RestartLands
<1> QED BY <1>2, <1>3, <1>4, <1>5, <1>6, <1>7, <1>8, <1>9, <1>10, <1>11
        DEF Next, RunnerStep

-----------------------------------------------------------------------------
LEMMA TypesKept == Spec => [](SIInv /\ OtherTypes)
<1>1. Init => SIInv /\ OtherTypes
  BY InitHolds, TypesInit
<1>2. SIInv /\ OtherTypes /\ [Next]_vars => (SIInv /\ OtherTypes)'
  BY StepKeeps, TypesStep
<1> QED BY <1>1, <1>2, PTL DEF Spec

\* Types, for any number of analyses and whatever they propose; that the goals still to
\* be submitted are finitely many is what keeps the IDs within their bound.
THEOREM TypeCorrect == Spec => []TypeOK
<1>1. SIInv /\ OtherTypes => TypeOK
  BY DEF SIInv, Shape, OtherTypes, TypeOK
<1> QED BY <1>1, TypesKept, PTL

\* When an analysis is done, everything it proposed has been tried and is in effect,
\* whatever failed before it and whatever the user, the run loop and other analyses wrote
\* meanwhile, but for the goals whose own write failed, the rules whose store failed, and
\* what the user took back; what failed is an error of the cycle (self_improvement.go
\* Analyze; tracker.go persist writes the whole map, so a later write of anybody's does
\* not take a goal out again).
THEOREM IdeasTakeEffect == ASSUME "torn" \notin WriteOutcomes PROVE Spec => []IdeasLand
<1>1. Init => GoalsHeld /\ OriginsKnown /\ AllLanding
  BY LandsInit
<1>2. SIInv /\ OtherTypes /\ (GoalsHeld /\ OriginsKnown /\ AllLanding) /\ [Next]_vars
         => (GoalsHeld /\ OriginsKnown /\ AllLanding)'
  BY LandsStep
<1>3. ASSUME SIInv, OtherTypes, AllLanding PROVE IdeasLand
  <2>1. ASSUME NEW r \in Results, analysis[r].pc = "done"
        PROVE  /\ Cardinality(IdeasOf(r, origin)) = analysis[r].goals
               /\ \A id \in IdeasOf(r, origin) \ (refused \cup dismissed) : disk[id] # NoGoal
               /\ \A text \in analysis[r].texts \ (analysis[r].failed \cup revoked) :
                     LearnedID(text) \in directives
               /\ IdeasOf(r, origin) \cap refused # {} \/ analysis[r].failed # {} => analysis[r].errs
    <3>1. /\ Landed(analysis[r], IdeasOf(r, origin), refused, GoalsSettled, RulesSettled)
          /\ analysis[r].left = 0 /\ analysis[r].rules = {}
      BY <1>3, <2>1 DEF AllLanding, Landing
    <3>2. Cardinality(IdeasOf(r, origin)) = analysis[r].goals
      BY <3>1, IdeasFinite DEF Landed
    <3>3. \A id \in IdeasOf(r, origin) \ (refused \cup dismissed) : disk[id] # NoGoal
      BY <3>1 DEF Landed, GoalsSettled
    <3>4. \A text \in analysis[r].texts \ (analysis[r].failed \cup revoked) : LearnedID(text) \in directives
      BY <3>1 DEF Landed, RulesSettled
    <3> QED BY <3>1, <3>2, <3>3, <3>4 DEF Landed
  <2> QED BY <2>1 DEF IdeasLand, IdeasOf
<1> QED BY <1>1, <1>2, <1>3, TypesKept, PTL DEF Spec
=============================================================================
