# HyperiOS in TLA+

HyperiOS is one Go process that takes goals from a user, lets a language model
refine them, runs them one at a time with an agent that calls tools, and keeps
goals, results and memories in JSON files. It can learn from its own results
and replace its own binary. This directory holds TLA+ models of the parts with
state, TLC runs over small instances, and proofs of the results that matter
most for every size. Paths below are relative to the repository; every
definition is tied to the lines it models in the `map` of `PROJECT.json`.

## 1. The system

| component | state | operations that change it | talks to |
|---|---|---|---|
| goal tracker, `goal_fulfillment/tracker.go` | map of goal pointers, `goals.json` | TrackGoal, UpdateGoalState, DeleteGoal, load | fulfilment, processor, API handlers |
| goal fulfilment and refiner, `goal_fulfillment.go`, `refiner.go` | none of its own; writes goal fields | SubmitGoal, RefineGoal, AnswerGoal, DeleteGoal | LLM, tracker |
| prioritizer, `processor/prioritizer.go` | slice of goal pointers, in memory only | Enqueue (sorts), Next | processor |
| processor, `processor.go` | the RunLoop goroutine | QueueGoal, RunNext, RunLoop | prioritizer, agent, tracker, result hook |
| result store, `results_store.go` | map, `agent_results.json` | Save, Delete, load | API server |
| agent, `agent.go` | conversation, steps | refinement call, tool loop, tools | LLM, toolbox |
| LLM clients, `llm/` | which side answered last | Complete with retries, fallback local to remote | agent, refiner, analyser |
| memory, `memory/` | session cache, entry files, cache and BM25 index | Store, Recall, directives, search, health probe | API server, prompts |
| self-improvement | buffer of results, counters, last error | RecordResult, Analyze | LLM, fulfilment, memory |
| self-modification, `selfmodify/` | binary, backups, source tree | Verify, Apply, Rollback, re-exec | the agent's tool, the CLI |
| API server, `apiserver/server.go` | none; one goroutine per request | the handlers that call all of the above | everything |
| scheduler, `scheduler/`, `schedule_tool.go` | table of jobs by name, cron's entries | Register | the agent's `schedule` tool |
| configuration, `config/`, the commands in `cmd/hyperi` | `config.json`, its `.tmp` | `config set`, `models setup/enable/disable/remove`, `selfmodify enable/disable` | the user at a prompt, the Ollama daemon, the server at its start |
| world model, events, audit, hardware and catalogue, web UI | see section 7 | | |

How they interact: a handler (`POST /api/goals`, `/run`, `/answer`,
`DELETE`) calls the fulfilment module, and for a goal that is ready,
`Processor.QueueGoal`. All hold *pointers* to goals. The tracker has a lock,
the prioritizer has a lock and the result store has one; a handler holds none
of them from one call to the next, and goal fields are assigned outside them.
One RunLoop goroutine polls the queue every half second, runs the agent and hands
the result to the API server's hook, which saves it, stores an outcome in
memory and starts a goroutine that analyses the results so far.

What is hard about it, and what the properties are for (the full list, with
lines, is `hazards` in `PROJECT.json`):

- **Pointers shared without a lock.** A refinement may rewrite the goal into a
  *new* struct under the same ID while the queue, another handler or the run
  loop still hold the old one.
- **Steps between locks.** QueueGoal is a check, a state change with a write
  and an enqueue; a result is two writes to two files.
- **A disk that fails and a process that dies.** Memory changes before the
  write and is not rolled back; files are truncated in place; the queue is lost.
- **Retries and fallbacks.** Each kind of error has a limit of its own in one
  loop, with a deadline on waits, in front of a second client with the same.
- **Goroutines that overlap.** Analyses, health probes and recalls beside stores.
- **An index kept incrementally** that must equal the one a restart would build.
- **Two processes that swap one binary** with no lock between them.
- **Commands that wait for a person.** Each loads the configuration, asks, perhaps
  pulls a model for an hour, and saves the whole of what it had loaded through
  one temporary file that every other command uses too.
- **Jobs known by a truncated name**, which outlive the goal that asked for them.

What makes each component correct: the tracker and the file say the same; a goal shown as
active is going to be run; a finished goal stays finished; a result agrees with its goal's
state; the queue is served in order; every result is analysed once, and one item of an
analysis that fails takes no other with it; search sees what is on disk; a probe leaves
nothing behind; a completion ends, and its conversation stays one a model accepts; only a
revision that passed the gate is installed, and what it replaced can be brought back; the
configuration parses, holds nothing the user did not agree to, and changes by whole
commands; what the agent reports as scheduled is what will run.

## 2. Modules

| module | models | notes |
|---|---|---|
| `Goals` | `types.go` | A goal struct is a place in `heap`, named `<<ID, version>>`: version 1 is made by SubmitGoal, each rewrite makes the next. Two holders of one goal may hold two versions, which is how aliasing becomes visible. |
| `JsonFile` | the `os.WriteFile` of both stores | A write is `written`, `refused` (opening failed) or `torn` (truncated, then failed). Memory is changed in each case. |
| `Tracker` | `tracker.go` | The map is `tracked[id]`, the version in the map or 0; `disk` is the image of the last write. The transition table is a set of pairs. |
| `Prioritizer` | `prioritizer.go` | Enqueue ends with the stable sort: any stable order of the comparison. |
| `ResultStore` | `results_store.go` | |
| `GoalServer` | `server.go` handlers, `goal_fulfillment.go`, `refiner.go`, `processor.go` | Composes the five above. A handler is a sequence of steps (`refine`, `track`, `queue`, `activate`, `enqueue`, `fold`, `trackAnswer`, `dropResult`) with a cut wherever the code leaves a lock; the runner has `poll`, `run`, `record`. `Crash` and `Restart` are the process. |
| `GoalRestarts` | | `GoalServer` with two history variables: the goals a start found active and nobody has touched since, and whether requests have been in progress at the same time since then. |
| `GoalBoard` | what the web UI's board promises | The abstract specification: cards that are refined, asked about, queued, run and dismissed, with no pointers, queue or files. |
| `LongTermMemory` | `long_term.go`, `index.go` | Entry files with sanitised names (two keys may share one), the lazily loaded cache, postings, lengths and document frequencies. |
| `Memory` | `memory.go`, `session.go`, memory handlers | Composes the above with the session cache, directives, recalls that warm the cache, and health probes. |
| `SelfImprovement` | `self_improvement.go`, `analyzer.go`, `stats.go`, the result hook | Extends `Tracker`; each result starts its own analysis goroutine, with steps `drain`, `ask`, `submit`, `learn`, `finish`. A user submits, runs and deletes goals and removes learned directives beside it; a user's own directives have other IDs and are in `Memory`. |
| `SelfModify` | `manager.go`, the tool and the CLI command | Two processes; each go command of the gate sees the tree as it is then; the staged file is a name that another process may rename while it is being written. |
| `Completion` | `client.go`, `hybrid.go`, `ollama.go`: retry loops | One attempt, one wait or one fallback per step. |
| `Scheduler` | `scheduler.go`, the names `schedule_tool.go` gives | The job table and, external, cron's list of entries. A start state may hold a job of an earlier goal. |
| `Agent` | `agent.go`, toolbox execution, the conversation on the wire | Extends `Completion` and `Scheduler`: the `schedule` tool is the one tool that changes state of the process. `PartsOf`, the loop that picks the parts of one type out of a turn, is a recursive function, about which one can prove what it returns. The ID of a call is the round and place of a remote response, `<<0, place>>` for a local one, whose IDs start again at `call_0` each time. |
| `Config` | `config.go`, the commands of `main.go`, `llm_setup.go`, `selfmodify_setup.go`; `localmodel/manager.go`; what the server makes of it at its start | A command is a sequence of steps: `probe`, `confirm`, `pull`, `delete`, then `open`, `write`, `rename` of Save. Files and names are apart, so that a file renamed while another command writes it is written on under its new name. |
| `Settings` | what the commands promise | The abstract specification of `Config`: a command is an order together with the settings it was given under, and takes effect on those as a whole. Orders given one after the other build on each other; one that waited undoes what came in between, wholly. |
| `GoalServerProofs`, `OneRequestProofs`, `SelfModifyProofs`, `MemoryProofs`, `SelfImprovementProofs`, `AgentProofs`, `ConfigProofs` | | Theorems, section 6. |
| `Sums` | | Lemmas about the sums over finite sets that three of the proofs need, of no program. |
| `MC*` | | Model values and symmetry only. |

Definitions called `Mut...` stand beside a definition and are used by nothing:
each is a plausible wrong version of it (a dropped guard, a swapped order) which
TLC tells from the right one by the property named in `mutants`.

Abstractions. Titles, prompts and answers are left out: a refinement is one of `error`,
`question`, `blank` (asks for clarification but gives no question), `accept` and `rewrite`.
A goal's age is its ID, which is sound because IDs are handed out in order of creation. In
`GoalServer` an agent run is one step that ends well or badly; `Agent` opens that step up.
In `SelfImprovement` queueing is one step; `GoalServer` opens that one. A binary is the
revision it was built from. BM25 scores are left out: the property of a search is which
entries it may return, and from which counts. `local_model_num_ctx`, which `models setup`
overwrites with the size it finds for the hardware, is `numCtx` with the sizes `auto` and
`fit`; the other keys of `config set` are one with two values. A command in the shell or of
a scheduled job is a model value with the name of its job; a cron expression parses or does
not. History variables (those of `GoalRestarts`, `apart` in `Memory`, `mishaps` in
`SelfModify`, `origin`, `read`, `lost`, `earlier`, `revoked`, `refused`, `dismissed` and an
analysis's `failed` in `SelfImprovement`, `asked` in `Completion`, `earlier` in `Agent`, and
`last`, `agreed`, `mishaps` and a command's `stale` in `Config`) are written and never read
by a guard.

## 3. The runs

| run | instance | shows | states |
|---|---|---|---|
| `calm` | 2 goals, 2 structs each, 1 request at a time, queue of 2, no crash, fair | `ActiveIsScheduled`, `ResultExplainsState`, `NoLostUpdate`, `OnlyOlderGoalsStarve`, and `ImplementsBoard`: the pipeline implements the board | 765 k |
| `order` | 2 goals, never rewritten, 2 requests at once, queue of 3, no crash | `QueueInOrder` | 3.3 M |
| `storm` | 1 goal, 2 structs, 2 requests at once, queue of 3, crashes | `TypeOK`, `DiskMirror`, `OnlyRestartsStrand`, `DoneIsFinal` | 190 k |
| `selfmodify` | 3 revisions, one failing the tests; 2 backups, 4 calls by 2 processes | `OnlyPassingInstalled`, `InstalledIsWhole`, `ReplacedIsKept`, `SwapTakesEffect` | 697 k |
| `memory` | an outcome, a directive, the probe, and a key that shares the directive's file; 2 values, 2 words; the run loop and 2 requests | `SearchSeesFiles`, `CountsDoNotDrift`, `SessionIsCurrent`, `ProbeIsGone` | 486 k |
| `improvement` | 3 goals, at most one of them a user's, 2 results, 2 ideas or an idea and a rule each, refused writes, deletes, restarts, fair | `AnalysedOnce`, `NoneStranded`, `IdeasLand`, `EventuallyAnalysed` | 833 k |
| `agent` | the retry limits of the code (3 network, 5 rate limit, 2 malformed; 3 for Ollama), 3 rounds of up to 2 calls and 3 in all, of `schedule` or of an unknown tool; 3 commands, two of which share a name; perhaps a job of an earlier goal | `LocalFirst`, `RequestsBounded`, `ScheduledAsTold`, `ConversationFits`, `StepsTellTheRun`, `RunEnds` | 919 k |
| `config` | 2 shells, 3 commands, 2 models, one installed already, 2 sizes of the context | `WholeOrNoticed`, `NeverUnasked`, `EnabledIsInstalled`, and `ImplementsSettings`: the commands implement the settings | 897 k |
| `refused_write`, `reason_lost`, `unverified`, `idle_improvement` | smallest that shows it | a promise of the sources that the code does not keep, section 5 | |

Bounds, and why they are enough. Every fault of the pipeline needs at most two holders of
one goal, or two goals to be in the wrong order, so `calm` has two goals and `storm` two
requests on one goal. Two versions are enough to tell a stale struct from the tracked one; a
third adds another stale one. `MaxQueue` is a bound of the model, not of the code, in the
guard of whatever starts an Enqueue. In `calm` it leaves room for one entry beside the one
that is coming, so an entry never turns active in front of another there: the order of the
queue is the question of `order`, in which one turns active behind a newer active one, and
one struct is queued twice with another beside it. Its goals are not rewritten, to keep it
small; rewritten ones, and queues of any length, are left to the theorem
`OldestActiveFirst`. In `memory` the shared file, the two words and two values make an old
document differ from its replacement in every count. Two results make two overlapping
analyses; two ideas make a second that follows a failure, and a rule beside an idea a rule
that follows one. The user's goal, if any, comes before the ideas: which of them has the
lower ID decides only which runs first, and one user's goal and one of an analysis are
enough for a result to come in while another is analysed. Two calls in a round are enough to
answer them in the wrong order. Three rounds give a third request after two responses with
calls, by either side each: what a fallback or a local model that is back then finds of
both. Three calls in a run are enough for a round of two and one of one, in either order.
Three commands, two of one name, meet a job that is there, one that only looks the same, and
one of an earlier goal. Two shells overlap in every way two commands can, and a third
command finds what they left; a third file is left under a name that no command in progress
holds. The retry limits of `agent` are the real ones. Bounds appear in guards by name:
`MaxGoals`, `MaxVersions`, `MaxQueue`, `MaxCalls`, `MaxSteps`, `MaxResults`, `MaxRequests`,
`MaxIdeas`, `MaxCommands`. Deadlock is not checked where the system may stop: at the bound
of goals or commands, or when a run has ended.

What conditions the properties carry, because the code needs them:

- `DiskMirror` supposes that writes succeed, and excuses a goal that a handler
  has changed in place and is about to track.
- `ActiveIsScheduled`, `NoLostUpdate` and `ImplementsBoard` are claimed for one
  request at a time. With two, a handler may put back an older struct, or a
  goal that was deleted: TrackGoal inserts without looking (`tracker.go:55`).
- `OnlyRestartsStrand` is what is left of `ActiveIsScheduled` when the process may
  die: the queue is in memory only, so a goal that was active comes back active and in
  no queue until somebody sends `/run`. No goal gets there any other way, unless
  requests cross.
- `ResultExplainsState` excuses rewritten goals: the stale twin of one may still
  be queued, run, and leave its outcome under the same ID.
- `SessionIsCurrent` excuses keys whose store failed half-way or overlapped a recall
  (`apart`).
- `IdeasLand` excuses an item whose own write failed (`refused`, `failed`), which must then
  be among the errors of the cycle, a goal that the user has deleted (`dismissed`) and a
  learned rule that the user has removed (`revoked`). The other items of the cycle are
  never excused.
- `AnalysedOnce` and `EventuallyAnalysed` count a result that was drained for a call that
  fails as dealt with (`lost`): the code puts none back.
- `ConversationFits` does not ask that two responses of the local model use different IDs;
  they do not (section 5).
- `ImplementsSettings` says nothing after two saves have overlapped. It does not say that a
  command keeps what others saved while it waited: it undoes that, and `Settings` says so.
- The properties of `Config` name the `mishaps` each needs not to have happened: a save of a
  configuration that another has replaced meanwhile (`stale`, of which only
  `EnabledIsInstalled` speaks), saves at the same time (`overlap`), a save that failed or
  was killed (`trouble`), a remove that stopped after the delete (`cut`), a pull that ended
  early (`incomplete`). `NeverUnasked` needs none of them.
- The properties of `SelfModify` name the `mishaps` that each needs not to have
  happened, and those are counted only while they matter (an edit while an
  apply is using the tree; a fault while something is being replaced).

## 4. Fairness

`GoalServer`: weak fairness of each handler's own steps and of the run loop. These are
goroutines that can always run; a call of the model ends because the HTTP clients have
timeouts. That a run ends is assumed there and examined in `Agent`. Requests are not fair:
nobody has to send one. `calm` runs under it, of a process that lives (`Serving`, without
`Crash` and `Restart`); `storm` has those. `SelfImprovement`: the same for the analyses;
`EventuallyAnalysed` does not need the run loop to go on, and `idle_improvement` has it fair
too (`FairRunnerSpec`), to show that it is not the run loop that is late. `SelfModify`: only
the sleeping goroutine before a re-exec wakes up. `Agent`: requests to a model and the
loop's own steps are fair; **tools are not**, as nothing bounds how long one takes. So
`RunEnds` says that the run ends or a tool never returns.

## 5. Where code and words differ

Each of these four has a run in which TLC finds the counterexample.

- `refused_write`: after a failed write of a refined goal the handler means to go on
  with the unrefined one, but the tracker already holds the refined struct. The
  goal is shown as active and never runs.
- `reason_lost`: "the failure reason for a blocked goal survives a process
  restart" (`results_store.go:11-13`), but a crash between the state and the
  result leaves a blocked goal with no reason.
- `unverified`: "a modification that wouldn't pass CI is never applied"
  (`manager.go:143-144`), but what is installed comes from a second build, of the
  tree as it is by then.
- `idle_improvement`: improvement goals "run once"
  (`self_improvement.go:159`), but nothing queues them.

Read but without a run of their own:

- `types.go:34-36` says a goal with a pending question is not queued; `POST /run` queues it
  (`server.go:446`, `RunGoal` in `GoalServer`).
- `server.go:564-566` says a user's directive and a learned one of the same text "naturally
  de-duplicate"; their IDs have different prefixes (`user-`, `learned-`), so both are kept,
  and removing one leaves the rule in force.
- `hybrid.go:12-16` says a failing local call "silently upgrades to the configured remote
  provider" and does not fail the goal. The local client numbers its calls from `call_0` in
  every response (`ollama.go:257-260`, unique "within a single CompleteWithTools call"), so
  after two local responses with calls the remote model is sent two calls of one ID:
  `ConversationFits` names that case as its one exception. If the remote service refuses
  such a conversation, which the repository does not say, the goal fails.
- `README.md:141-143` and `processor.go:21-23` say the goal timeout bounds the
  run and `max_tool_iterations` bounds tool calls. A tool is not subject
  to the deadline, and the limit is on rounds of any number of calls. Running out
  of rounds is reported as success.
- `tools.go:98-103` says callers handle retries; the agent does not.
  `ollama.go:176-177` speaks of the same retry policy; only network errors are
  retried there.
- `ollama.go` sends `tool_name` to identify a result's call, but nothing sets it, so
  the order alone identifies it. `ConversationFits` shows that the order is right.
- `selfmodify_setup.go:62-64` and `io_toolbox.go:46-50` say the `self_modify` tool is not
  registered before the user enables it; `wiring.go` registers it unless it was
  disabled (`SelfModifyTool` in `Config`), and `/status` goes on saying it is off
  (`server.go:350`).
- `config.go:305` says Save is atomic: two at once may leave a `config.json` that does
  not parse. `WholeOrNoticed` says what holds instead.
- `config.go:140-147` says a local model is enabled by setup or enable only and disabled
  at once: a `config set` that was loaded before a `models disable` and saved after
  it enables the model again. `NeverUnasked` shows it is one the user once agreed to.
- `manager.go:193-199`: a pull whose last status is not success returns nil, under a
  comment that says it flags what looks incomplete.
- `llm_setup.go:107` suggests `config set local_model_name`, which is not a key.
- `scheduler.go:39,44-45` accepts six fields only; its doc says five or six. Stop
  is said to wait for running jobs (`scheduler.go:101-102`) and drops the context that
  would tell it when they are done. Nothing keeps a job from overlapping itself.

## 6. Proofs

TLAPS checks every theorem, for every value of the constants that satisfies the named
assumptions (`GoalsAssumption`, `WriteAssumption`, `ServerAssumption`, `MemoryAssumption`,
`UseAssumption`, `ImprovementAssumption`, `CompletionAssumption`, `AgentAssumption`,
`SchedulerAssumption`, `ConfigAssumption`, `ContentsAssumption`, `SelfModifyAssumption`).
TLC evaluates these in each run. They ask for finitely many goals, requests, commands or
words, as any execution has, and for bounds that are numbers. A theorem that needs more says
so in its statement: `OneClient` (one request at a time), or what `WriteOutcomes` may be.
Every invariant and every safety property that a passing run checks has a theorem.

- **`GoalServerProofs`.** `Inductive`: `IInv` is an invariant. It conjoins `TypeOK` (shapes,
  and no pointer in use points to a goal never made), `KnownIds` (no ID beyond those handed
  out is known anywhere), `DownIsEmpty` and `DiskMirror`. Types need it all: a fresh pointer
  is unused only by `KnownIds`, a restart rebuilds pointers from the file, so the file must
  be known to hold made goals, and the mirror must survive a process that is down. From it
  `TypeCorrect`, `FilesMirrorMemory` and the action property `DoneStays`, whose argument is
  that every path to the state of a goal other than a refinement or an answer goes through
  the transition table, which has nothing leaving `done` but deletion. `OldestActiveFirst`
  (`QueueInOrder`) is about states that change under a sorted slice: `Sorted` says that
  nothing newer, active or not, stands before an active entry (what stands there may turn
  active without being moved), unless a request has the Enqueue of that entry's goal ahead,
  whose sort puts every active entry in its place.
- **`OneRequestProofs`.** What needs requests to come one at a time, with the run loop
  beside each of them. `HandlersFit` says that a request holds the struct that the map holds
  and is about to track that one or a newer one. From it, whatever writes do and across
  restarts, `NoUpdateIsLost`. `ResultsExplainStates` adds `Explained`: only the run loop
  settles a goal that has a single struct, and its two steps write state and result in an
  order that leaves no third case. `ActiveGoalsAreScheduled`, if no write fails: of the
  steps that can make a goal active, each has an Enqueue ahead, and the step that takes it
  from the queue is the one that runs it. `RestartsStrand` is the same with crashes, for any
  number of clients: its hypothesis is not that there is one but the history variable that
  says whether two were at work since the start (`Uncrossed`), and a goal that is scheduled
  nowhere was found active by that start. `PipelineIsBoard` is the refinement: each step of
  a handler or of the run loop is a step of one card or a stutter, under the mapping that
  hides pointers, queue and files. A card shows a refined struct from the moment the
  refinement made it, while the map still holds the old one; an answer is folded in only
  into a goal that has a question still (`FoldPending`), although the handler looked at it
  an earlier step ago.
- **`SelfModifyProofs`.** `TypeCorrect` from `TInv`: which kind of call can be where, that
  the command line never gates, and that a goroutine asleep has been a call (so `restarts`
  is bounded). `OnlyPassing` from `PInv`: what every file, backup, process and call holds is
  tested, and while an apply is in its gate the tree is, as far as the gate has got; an edit
  that breaks this is an `edit` mishap. `AInv` says what no overlap means: at most one
  process replaces the binary, and no file still being written has been renamed to it. On
  that rest `ReplacedKept` (from the second step of the backup on, the newest backup is what
  is installed) and `Installed` (what is half-written is the newest backup, while it is
  being saved, or the staged file of the one process staging; so a rollback that reads a
  half-written backup is an overlap).
- **`MemoryProofs`.** `MemoryInvariant`: each file holds an entry of a key that it is named
  for, the cache is what the files hold, and the index `Matches` the cache, count by count;
  operations in progress are ones that were begun. The lemmas `RemoveExact`, `AddExact` and
  `UpdateExact` say that taking a document out and putting one in leaves the counts exact,
  `FileChange` that writing one file changes one entry. The corpus-wide counts are sums over
  the entries: with `SumChanges` of `Sums` the index *is* `IndexOf` the cache, so
  `CountsAreKept`, and no count falls below 0 (`TypeCorrect`). `LoadOrderDoesNotMatter`:
  adding the files one by one in any order gives that index, by the least number of files at
  which it would not. From `MemoryInvariant`, `SearchIsCurrent`: cache and index are those a
  new process would load. `TInv` adds who may be doing what (`PlacesOK`: only the run loop
  stores outcomes, requests recall and probe) and, per outcome, `Tier`: the session holds
  what the file holds unless a store is half-way, and then no request is using the key; what
  a request is about to warm the session with is in the file. Hence `TiersAgree`, and
  `ProbesAreGone` with `ProbeIsGone` as its own invariant.
- **`SelfImprovementProofs`.** `ResultsAnalysedOnce` and `ResultsNotStranded`, from an
  invariant that adds that no analysis of a result not yet recorded has started, and that
  only an analysis waiting for the model holds results. `TypeCorrect` bounds IDs by those
  given out and those that analyses have yet to submit, a sum over the analyses.
  `IdeasTakeEffect` follows each idea, through the failure of others: `Landing` says that of
  the goals an analysis has submitted each is settled (in the file, or its own write failed,
  or the user has deleted it), of its rules each is settled or still in its hands, and that
  what failed is among its errors. `GoalsHeld` says that the map has every goal the file has
  that was not deleted, so that no later image of it, whoever writes it, loses one; a
  refused write leaves the file as it was, and a later one may still bring the goal in. A
  torn write is excluded: it leaves no goals at all.
- **`AgentProofs`.** `CInv` bounds the attempts of each kind by its limit and counts the
  requests of each side by the errors met; hence `RequestsAreBounded` for any limits and any
  order of errors, and `LocalIsFirst`. `SchedulesAsTold`: `SInv` adds that table and cron
  agree job by job (`TableIsCron`), without which a refused command could still have an
  entry; then each of the tool's answers keeps what is scheduled equal to what was before
  plus what the steps report. `TypeCorrect` (`RInv`) says which turns there are at each
  phase; `StepsAreTheRun` (`TellsInv`) that the steps of the result are the calls of the
  turns so far with the outcomes fed back; `ConversationsFit` (`FitsInv`) that every turn of
  results answers the calls of the turn before, one by one and in order, also after
  translation for the local model, and (`Numbered`) that the IDs of a turn are those of its
  own round or of a local response, so that only two local responses can share one.
  `AllCalls` and the translation are functions that recurse over the turns: what appending a
  turn does to them is proved once per function, by the least turn at which it would be
  wrong.
- **`ConfigProofs`.** `TypeCorrect` from `TInv`, which adds what the place a command has got
  to says about it. `AlwaysAsked` from `Consent`: everything a file, a command, the daemon
  or the server holds was agreed to, including the files nobody may ever read. `FileParses`
  from `Lone` (without overlap, the one save in progress owns the temporary file and knows
  its contents) and `Manned` (while all succeed, a file that still has the temporary name
  has a writer, and is not mixed up if it has only one: so the last save to end leaves a
  whole file). `CommandsAreAtomic`: each order of `Settings` carries what its command has
  loaded, which no step but its own changes; with `Lone`, what a rename puts in place is
  `Changed` of just that, hence the command as a whole on the settings it was given under,
  and no other step is seen. `UsesWhatIsThere` (`EnabledIsInstalled`) from `Fresh` (a
  command that is not stale holds what `config.json` holds) and `Kept`: unless a mishap came
  in between, every model that the file names or that a setup no longer asks about is one
  the daemon holds, or a remove that has deleted it is about to say so; a setup that finds
  this has changed is a stale one.

The library's induction theorems take an operator as a parameter, which the installed
provers cannot instantiate. Where a proof needs induction it takes the least number for
which the claim fails (`LeastOf` in `Sums`) and derives a contradiction from its predecessor.

Only model-checked: the liveness properties `OnlyOlderGoalsStarve`, `SwapTakesEffect`,
`EventuallyAnalysed` and `RunEnds`, since fairness and `ENABLED` are out of the prover's
reach; and the runs of section 5, which show counterexamples. That the operators marked in
`PROJECT.json` as external are what libraries and services do is not proved either.

## 7. Not modelled

- Goal breakdown (called by no handler), the world model (never updated), events
  (wired to nothing): no behaviour of the running program.
- `Scheduler.Unregister`, `DefaultJobs` and `Stop`: no caller. When cron fires, and the jobs
  themselves: shell commands outside the process.
- Hardware detection and the model catalogue, which suggest a model and fix the size of its
  context (`Recommended`, any size but `auto`); CLI output;
  the audit log, which nothing reads; wire formats.
- Web UI: it polls the API; `GoalBoard` is what it shows. Distribution scripts and docs.
- Read-only handlers, and BM25's floating-point score.

## 8. Plan

1. Done: the goal pipeline and the board; self-modification; memory and its
   index; self-improvement with learned directives; the agent, completions and
   scheduled jobs; the configuration and its commands; theorems about each,
   among them both refinements (`Config` to `Settings`, `GoalServer` to `GoalBoard`).
2. Next to model, if the code comes to use them: events, goal breakdown, the
   scheduler's default jobs. Reading handlers beside writers, for what a client may see.
3. Next to prove: what remains of `NoLostUpdate` and `ResultExplainsState` when requests
   overlap but for different goals; lemmas that a reader of `LongTermMemory` and
   `Agent` would ask for (the translation of a whole conversation, part by part).

## 9. Running it

    tlc -workers 2 -config calm.cfg MCGoalServer      (each run names its module in PROJECT.json)
    tlapm GoalServerProofs.tla

The longest runs (`improvement`, `calm`, `agent`, `config` and `order`) take two to three
minutes on two cores, the longest proofs (`GoalServerProofs`, `OneRequestProofs`,
`AgentProofs` and `SelfModifyProofs`) about two each.
