----------------------------- MODULE GoalBoard -----------------------------
(***************************************************************************)
(* What a user who sends one request at a time is promised of a goal: the   *)
(* life of a card on the board of the web UI.  No pointers, queue, locks or *)
(* files; GoalServer implements this with one client and no crash.          *)
(***************************************************************************)
CONSTANT Cards

VARIABLES
    state,      \* per card, the state shown
    question,   \* per card, whether a question is waiting for the user
    phase       \* per card: "free", or what the request at work is doing with it

boardVars == <<state, question, phase>>

States == {"none", "refining", "active", "done", "blocked"}
Phases == {"free", "refining", "queueing"}

BoardInit ==
    /\ state = [k \in Cards |-> "none"]
    /\ question = [k \in Cards |-> FALSE]
    /\ phase = [k \in Cards |-> "free"]

Become(k, s, q, ph) ==
    /\ state' = [state EXCEPT ![k] = s]
    /\ question' = [question EXCEPT ![k] = q]
    /\ phase' = [phase EXCEPT ![k] = ph]

\* A new card; a draft is left alone at once.
Create(k) ==
    /\ state[k] = "none"
    /\ \E ph \in {"free", "refining"} : Become(k, "refining", FALSE, ph)

\* Only a card with a question is refined again, and the answer uses it up.
Answer(k) ==
    /\ phase[k] = "free" /\ state[k] # "none" /\ question[k]
    /\ Become(k, state[k], FALSE, "refining")

Ask(k) ==
    /\ phase[k] = "refining"
    /\ \E q \in BOOLEAN : Become(k, "refining", q, "free")

Accept(k) ==
    /\ phase[k] = "refining"
    /\ Become(k, "active", FALSE, "queueing")

\* The model could not be reached: the card goes on as it is.
GiveUp(k) ==
    /\ phase[k] = "refining"
    /\ Become(k, state[k], question[k], "queueing")

Run(k) ==
    /\ phase[k] = "free" /\ state[k] # "none"
    /\ Become(k, state[k], question[k], "queueing")

Activate(k) ==
    /\ phase[k] = "queueing" /\ state[k] \in {"refining", "blocked"}
    /\ Become(k, "active", question[k], "queueing")

Queued(k) ==
    /\ phase[k] = "queueing"
    /\ Become(k, state[k], question[k], "free")

\* An agent run ends; it may do so at any time while the card is active.
Finish(k) ==
    /\ state[k] = "active"
    /\ \E s \in {"done", "blocked"} : Become(k, s, question[k], phase[k])

Dismiss(k) ==
    /\ phase[k] = "free" /\ state[k] # "none"
    /\ Become(k, "none", FALSE, "free")

CardNext(k) ==
    \/ Create(k) \/ Answer(k) \/ Ask(k) \/ Accept(k) \/ GiveUp(k)
    \/ Run(k) \/ Activate(k) \/ Queued(k) \/ Finish(k) \/ Dismiss(k)

BoardSpec == BoardInit /\ [][\E k \in Cards : CardNext(k)]_boardVars
=============================================================================
