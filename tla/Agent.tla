------------------------------- MODULE Agent -------------------------------
(***************************************************************************)
(* The model calls behind one goal: its refinement, then the agent's run,   *)
(* which asks the model, executes the tools it calls and feeds the results  *)
(* back until the model concludes or the rounds are used up.  Of the tools  *)
(* only "schedule" changes state of the process: the table of jobs.         *)
(***************************************************************************)
EXTENDS Completion, Scheduler, SequencesExt

CONSTANTS
    maxToolIterations,  \* rounds of one run
    MaxCalls,           \* bound: calls in one response
    MaxSteps,           \* bound: calls in one run
    Registered,         \* the tools of the toolbox
    Names               \* names the model may call

ASSUME AgentAssumption == /\ maxToolIterations \in Nat \ {0} /\ MaxCalls \in Nat /\ MaxSteps \in Nat
                          /\ Registered \subseteq Names

VARIABLES
    phase,      \* "refining", "running" or "ended"
    messages,   \* the conversation
    pending,    \* calls of the last response that are still to be executed
    parts,      \* results of those that were, for the next user turn
    round,      \* rounds completed
    lastText,   \* the round of the last text, 0 if there was none
    steps,      \* []AgentStep
    result,     \* *AgentResult
    earlier     \* history: the commands scheduled before this goal

runVars == <<phase, messages, pending, parts, round, lastText, steps, result>>
vars == <<completionVars, schedulerVars, runVars, earlier>>

\* What the model may ask for: a tool, and the command if it is to be scheduled.
Invocations ==
    [name : Names \ {"schedule"}, command : {Nothing}] \cup [name : Names \cap {"schedule"}, command : Commands]

Call(id, i) == [type |-> "tool_use", id |-> id, name |-> i.name, command |-> i.command]
ToolResultPart(id, isError) == [type |-> "tool_result", id |-> id, isError |-> isError]
TextPart == [type |-> "text"]

Turn(role, ps) == [role |-> role, content |-> ps]

\* What the model calls in one response, and the IDs: the local model's count
\* from 0 in every response, the remote one's are new.
Requests == UNION {[1 .. n -> Invocations] : n \in 0 .. MaxCalls}
ToolCalls(names) ==
    [i \in DOMAIN names |-> Call(IF side = "local" THEN <<0, i>> ELSE <<round + 1, i>>, names[i])]

NoRun ==
    /\ messages = <<>> /\ pending = <<>> /\ parts = <<>> /\ round = 0 /\ lastText = 0
    /\ steps = <<>> /\ result = Nothing

Init ==
    /\ CompletionInit
    /\ SchedulerInit /\ earlier = ToSet(entries)
    /\ phase = "refining" /\ NoRun

-----------------------------------------------------------------------------
\* The refinement is over, with an answer or without: the goal is queued, and
\* its run starts with a deadline of its own (Spawn, runWithTools).
Spawn ==
    /\ phase = "refining" /\ call \in {"answered", "failed"}
    /\ phase' = "running" /\ expired' = FALSE
    /\ messages' = <<Turn("user", <<TextPart>>)>>
    /\ Begin(FALSE)
    /\ UNCHANGED <<hybrid, lastUsedLocal, pending, parts, round, lastText, steps, result, schedulerVars, earlier>>

End(success) ==
    /\ phase' = "ended"
    /\ result' = [success |-> success, steps |-> steps, text |-> lastText']

\* A run that drops its steps when the model fails.
MutModelFails ==
    /\ phase = "running" /\ call = "failed"
    /\ phase' = "ended" /\ result' = [success |-> FALSE, steps |-> <<>>, text |-> lastText]
    /\ UNCHANGED <<completionVars, schedulerVars, earlier, messages, pending, parts, round, lastText, steps>>

ModelFails ==
    /\ phase = "running" /\ call = "failed"
    /\ lastText' = lastText /\ End(FALSE)
    /\ UNCHANGED <<completionVars, schedulerVars, earlier, messages, pending, parts, round, steps>>

\* The model has responded, with text or not, and with calls or to conclude.
Responded(names, text) ==
    /\ phase = "running" /\ call = "answered" /\ pending = <<>> /\ parts = <<>>
    /\ Len(steps) + Len(names) <= MaxSteps
    /\ lastText' = IF text THEN round + 1 ELSE lastText
    /\ messages' = Append(messages, Turn("assistant",
                       (IF text THEN <<TextPart>> ELSE <<>>) \o ToolCalls(names)))
    /\ pending' = ToolCalls(names)
    /\ IF names = <<>> THEN End(TRUE) ELSE UNCHANGED <<phase, result>>
    /\ UNCHANGED <<completionVars, schedulerVars, earlier, parts, round, steps>>

\* A tool that is not registered is an error, and so is a schedule without a command
\* or of a job that exists.
IsSchedule(c) == c.name = "schedule" /\ c.name \in Registered

Fails(c, failed) ==
    IF IsSchedule(c) THEN ~Accepts(c.command, ~failed) ELSE failed \/ c.name \notin Registered

\* A loop that feeds back only the results of tools that worked.
MutExecuteTool(failed) ==
    LET c == Head(pending)
        isError == Fails(c, failed)
    IN  /\ pending # <<>> /\ pending' = Tail(pending)
        /\ steps' = Append(steps, [tool |-> c.name, command |-> c.command, isError |-> isError])
        /\ parts' = IF isError THEN parts ELSE Append(parts, ToolResultPart(c.id, isError))
        /\ IF IsSchedule(c) THEN Register(c.command, ~failed) ELSE UNCHANGED schedulerVars
        /\ UNCHANGED <<completionVars, phase, messages, round, lastText, result, earlier>>

\* The next call is executed; the deadline is not looked at.
ExecuteTool(failed) ==
    LET c == Head(pending)
        isError == Fails(c, failed)
    IN  /\ pending # <<>> /\ pending' = Tail(pending)
        /\ steps' = Append(steps, [tool |-> c.name, command |-> c.command, isError |-> isError])
        /\ parts' = Append(parts, ToolResultPart(c.id, isError))
        /\ IF IsSchedule(c) THEN Register(c.command, ~failed) ELSE UNCHANGED schedulerVars
        /\ UNCHANGED <<completionVars, phase, messages, round, lastText, result, earlier>>

\* A loop that allows itself one round more.
MutRoundEnds ==
    /\ pending = <<>> /\ parts # <<>>
    /\ messages' = Append(messages, Turn("user", parts))
    /\ parts' = <<>> /\ round' = round + 1 /\ lastText' = lastText
    /\ IF round < maxToolIterations
       THEN Begin(FALSE) /\ UNCHANGED <<phase, result, hybrid, expired, lastUsedLocal>>
       ELSE End(TRUE) /\ UNCHANGED completionVars
    /\ UNCHANGED <<pending, steps, schedulerVars, earlier>>

\* All calls are executed: their results are one user turn, and the model is
\* asked again unless the rounds are used up, which counts as success.
RoundEnds ==
    /\ pending = <<>> /\ parts # <<>>
    /\ messages' = Append(messages, Turn("user", parts))
    /\ parts' = <<>> /\ round' = round + 1 /\ lastText' = lastText
    /\ IF round + 1 < maxToolIterations
       THEN Begin(FALSE) /\ UNCHANGED <<phase, result, hybrid, expired, lastUsedLocal>>
       ELSE End(TRUE) /\ UNCHANGED completionVars
    /\ UNCHANGED <<pending, steps, schedulerVars, earlier>>

Expire ==
    /\ phase # "ended" /\ ~expired /\ expired' = TRUE
    /\ UNCHANGED <<hybrid, side, call, retrying, attempts, lastUsedLocal, asked, runVars, schedulerVars, earlier>>

Asks == Completing /\ UNCHANGED <<runVars, schedulerVars, earlier>>
Tools == \E failed \in BOOLEAN : ExecuteTool(failed)
Advances == Spawn \/ ModelFails \/ (\E n \in Requests, t \in BOOLEAN : Responded(n, t)) \/ RoundEnds

Next == Asks \/ Tools \/ Advances \/ Expire

Spec == Init /\ [][Next]_vars

\* The code goes on by itself and every request ends (the HTTP clients have
\* timeouts); nothing makes a tool return.
FairSpec == Spec /\ WF_vars(Asks \/ Advances)

-----------------------------------------------------------------------------
(* toOllamaMessages: the turns as the local server is sent them.  A call is *)
(* known by its name there; a result has neither an ID nor a name.          *)

\* The parts of a turn that are of these types, as the loop over its content
\* collects them.
PartsOf(m, types) ==
    LET kept[i \in 0 .. Len(m.content)] ==
            IF i = 0 THEN <<>>
            ELSE IF m.content[i].type \in types THEN Append(kept[i - 1], m.content[i]) ELSE kept[i - 1]
    IN  kept[Len(m.content)]

CallsOf(m) == PartsOf(m, {"tool_use"})
ResultsOf(m) == PartsOf(m, {"tool_result"})

OllamaMessages(m) ==
    LET lead == PartsOf(m, {"text", "tool_use"})
        results == ResultsOf(m)
    IN  (IF lead # <<>> \/ results = <<>> THEN <<[role |-> m.role, calls |-> Len(CallsOf(m))]>> ELSE <<>>)
        \o [i \in DOMAIN results |-> [role |-> "tool", calls |-> 0]]

Wire == FlattenSeq([i \in DOMAIN messages |-> OllamaMessages(messages[i])])

\* The turns of the local model that call tools: its IDs are those of round 0.
LocalTurns ==
    {i \in DOMAIN messages : \E j \in DOMAIN CallsOf(messages[i]) : CallsOf(messages[i])[j].id[1] = 0}

\* No ID of the one turn names another call of the other, or of itself.
NoClash(i, k) ==
    \A j \in DOMAIN CallsOf(messages[i]), l \in DOMAIN CallsOf(messages[k]) :
        CallsOf(messages[i])[j].id = CallsOf(messages[k])[l].id => i = k /\ j = l

-----------------------------------------------------------------------------
TypeOK ==
    /\ CompletionTypeOK /\ SchedulerTypeOK /\ earlier \subseteq Commands
    /\ phase \in {"refining", "running", "ended"}
    /\ round \in 0 .. maxToolIterations /\ lastText \in 0 .. maxToolIterations
    /\ Len(pending) + Len(parts) <= MaxCalls
    /\ steps \in Seq([tool : Names, command : Commands \cup {Nothing}, isError : BOOLEAN])
    /\ result \in {Nothing} \cup [success : BOOLEAN, steps : {steps}, text : {lastText}]

\* Whenever a model is asked, the conversation it is sent is one it can take:
\* turns alternate from the user's prompt on, and every call of every response
\* so far has one result, in the next turn and in the order of the calls,
\* whichever side responded and whatever failed.  In the form sent to the
\* local model, where only the order says which result is whose, as many
\* results as calls follow each response.  An ID names one call but for one case: the
\* local client numbers the calls of each response afresh (ollama.go:257-260), so two
\* responses of the local model share IDs, also when the remote one takes over.
ConversationFits ==
    (phase = "running" /\ call = "asking") =>
        /\ \A i \in DOMAIN messages : messages[i].role = IF i % 2 = 1 THEN "user" ELSE "assistant"
        /\ Last(messages).role = "user"
        /\ \A i \in 1 .. Len(messages) - 1 :
             LET calls == CallsOf(messages[i])
                 results == ResultsOf(messages[i + 1])
             IN  /\ Len(calls) = Len(results)
                 /\ \A j \in DOMAIN calls : results[j].id = calls[j].id
        /\ \A i, k \in DOMAIN messages :
             i = k \/ ~({i, k} \subseteq LocalTurns) => NoClash(i, k)
        /\ LET w == Wire
           IN  \A i \in DOMAIN w :
                 /\ i + w[i].calls <= Len(w)
                 /\ \A j \in i + 1 .. i + w[i].calls : w[j].role = "tool"

\* What the result says was done is what the conversation shows was done: its
\* steps are the calls of all responses with the outcomes fed back, in order,
\* also when a later request failed or the rounds ran out.
StepsTellTheRun ==
    result # Nothing =>
        LET calls == FlattenSeq([i \in DOMAIN messages |-> CallsOf(messages[i])])
            results == FlattenSeq([i \in DOMAIN messages |-> ResultsOf(messages[i])])
        IN  result.steps = [i \in DOMAIN calls |->
                               [tool |-> calls[i].name, command |-> calls[i].command,
                                isError |-> results[i].isError]]

\* What the agent was told is scheduled is scheduled, each command in full and once,
\* and nothing else is, whatever happens to the run afterwards: a second command of the
\* same first 64 bytes, of this goal or an earlier one, is refused with an error in its
\* step and replaces nothing (scheduler.go Register, schedule_tool.go Execute).
ScheduledAsTold ==
    LET told == {i \in DOMAIN steps : steps[i].tool = "schedule" /\ ~steps[i].isError}
    IN  /\ TableIsCron
        /\ ToSet(entries) = earlier \cup {steps[i].command : i \in told}

\* A goal's run ends, through every mixture of errors, fallbacks, waits and
\* the deadline, unless a tool never returns: the loop and the retries are
\* bounded, and a tool is not subject to the deadline.
RunEnds == <>(phase = "ended") \/ <>[](pending # <<>>)
=============================================================================
