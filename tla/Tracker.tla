------------------------------ MODULE Tracker ------------------------------
(***************************************************************************)
(* goal_fulfillment.Tracker: the map from goal ID to goal, mirrored to      *)
(* goals.json by a whole-map write at the end of every mutation.  Each      *)
(* operator below is one method under Tracker.mu; memory changes before     *)
(* persist runs and is not rolled back when persist fails.                  *)
(***************************************************************************)
EXTENDS Goals, JsonFile

VARIABLES
    tracked,        \* per ID, the version the map holds (0: not in the map)
    disk            \* goals.json: per ID, the goal as last marshalled, or Torn

trackerVars == <<heap, tracked, disk>>

TrackedPtr(id) == <<id, tracked[id]>>
IsTracked(id) == tracked[id] # 0
StateOf(id) == IF IsTracked(id) THEN heap[TrackedPtr(id)].state ELSE "none"

\* A transition table that forgets that a finished goal is finished.
MutReopensDone(from, to) == from # to

IsValidTransition(from, to) ==
    <<from, to>> \in {<<"refining", "active">>, <<"refining", "cancelled">>,
                      <<"active", "done">>, <<"active", "blocked">>,
                      <<"active", "cancelled">>, <<"active", "refining">>,
                      <<"blocked", "active">>, <<"blocked", "cancelled">>}

\* What json.Marshal makes of the map t whose pointers lead into h.
Image(h, t) ==
    [id \in Ids |-> IF t[id] = 0 THEN NoGoal ELSE h[<<id, t[id]>>]]

\* A persist that marshals the map as it was before the mutation.
MutPersist(h, t, out) == disk' = AfterWrite(disk, Image(heap, tracked), out)

Persist(h, t, out) == disk' = AfterWrite(disk, Image(h, t), out)

\* TrackGoal(p) in the heap h, which the caller's field assignments lead to.
TrackGoal(h, p, out) ==
    LET t == [tracked EXCEPT ![p[1]] = p[2]]
    IN  /\ heap' = h
        /\ tracked' = t
        /\ Persist(h, t, out)

\* An update that inserts a goal it does not find.
MutUpdateGoalState(id, s, out) ==
    LET v == IF IsTracked(id) THEN tracked[id] ELSE 1
        h == [heap EXCEPT ![<<id, v>>].state = s]
        t == [tracked EXCEPT ![id] = v]
    IN  /\ heap' = h
        /\ tracked' = t
        /\ Persist(h, t, out)

UpdateGoalState(id, s, out) ==
    IF IsTracked(id) /\ IsValidTransition(StateOf(id), s)
    THEN LET h == [heap EXCEPT ![TrackedPtr(id)].state = s]
         IN  /\ heap' = h
             /\ Persist(h, tracked, out)
             /\ UNCHANGED tracked
    ELSE UNCHANGED trackerVars

DeleteGoal(id, out) ==
    LET t == [tracked EXCEPT ![id] = 0]
    IN  /\ IsTracked(id)
        /\ tracked' = t
        /\ Persist(heap, t, out)
        /\ UNCHANGED heap

\* A load that enters every ID it knows of, with a goal or without.
MutLoadGoals ==
    /\ disk # Torn
    /\ heap' = [p \in Pointers |-> IF p[2] = 1 THEN disk[p[1]] ELSE NoGoal]
    /\ tracked' = [id \in Ids |-> 1]
    /\ UNCHANGED disk

\* NewTracker: every goal read back is a new struct; a Torn file is an error
\* and the server does not come up.
LoadGoals ==
    /\ disk # Torn
    /\ heap' = [p \in Pointers |-> IF p[2] = 1 THEN disk[p[1]] ELSE NoGoal]
    /\ tracked' = [id \in Ids |-> IF disk[id] = NoGoal THEN 0 ELSE 1]
    /\ UNCHANGED disk

\* The process is gone: nothing but the file is left.
ForgetGoals ==
    /\ heap' = [p \in Pointers |-> NoGoal]
    /\ tracked' = [id \in Ids |-> 0]

TrackerInit ==
    /\ heap = [p \in Pointers |-> NoGoal]
    /\ tracked = [id \in Ids |-> 0]
    /\ disk = [id \in Ids |-> NoGoal]

TrackerTypeOK ==
    /\ heap \in [Pointers -> Goal \cup {NoGoal}]
    /\ tracked \in [Ids -> Versions \cup {0}]
    /\ disk \in [Ids -> Goal \cup {NoGoal}] \cup {Torn}
=============================================================================
