---------------------------- MODULE Prioritizer ----------------------------
(***************************************************************************)
(* processor.Prioritizer: a slice of goal pointers, re-sorted when one is   *)
(* enqueued and at no other time, although the states it sorts by change    *)
(* through the shared pointers while the slice waits.                       *)
(***************************************************************************)
EXTENDS Goals, SequencesExt

VARIABLE queue

\* The comparison of sort: active first, then earliest CreatedAt.
Before(p, q) ==
    IF IsActive(p) = IsActive(q) THEN p[1] < q[1] ELSE IsActive(p)

\* The orders a stable sort of s may leave: exactly one.
StableOrders(s) ==
    {f \in Bijection(DOMAIN s, DOMAIN s) :
        \A i, j \in DOMAIN s : i < j =>
            \/ Before(s[f[i]], s[f[j]])
            \/ ~Before(s[f[j]], s[f[i]]) /\ f[i] < f[j]}

\* A push in front of the queue that leaves out the sort.
MutEnqueue(p) == queue' = <<p>> \o queue

\* A push that puts the new entry in its place and leaves the others as they lie.
MutInsert(p) ==
    \E k \in 1 .. Len(queue) + 1 :
        /\ \A i \in 1 .. k - 1 : ~Before(p, queue[i])
        /\ k <= Len(queue) => Before(p, queue[k])
        /\ queue' = InsertAt(queue, k, p)

Enqueue(p) ==
    LET s == Append(queue, p)
    IN  \E f \in StableOrders(s) : queue' = [i \in DOMAIN s |-> s[f[i]]]

\* The position Next pops: the first active entry, wherever it stands.
IsNext(i) == IsActive(queue[i]) /\ \A j \in 1 .. i - 1 : ~IsActive(queue[j])

PopNext(i) == IsNext(i) /\ queue' = RemoveAt(queue, i)
=============================================================================
