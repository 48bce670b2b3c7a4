---------------------------- MODULE AgentProofs ----------------------------
(***************************************************************************)
(* Theorems about Agent for any retry limits, tools, commands, rounds,      *)
(* calls per response and order of errors: the requests of one completion   *)
(* are bounded, the local model comes first, the jobs are those the agent   *)
(* was told of, the steps of the result are what the conversation shows,    *)
(* and the conversation is one that either model can take.                  *)
(***************************************************************************)
EXTENDS Agent, Sums, SequenceTheorems

Over == IF call \in {"answered", "failed"} THEN 1 ELSE 0

Met == attempts["network"] + attempts["rate_limit"] + attempts["malformed"]

\* Every request but the last was retried, so the errors met account for the
\* requests sent; and only the remote side can fail a completion.
CInv ==
    /\ hybrid \in BOOLEAN /\ side \in Sides /\ call \in {"asking", "waiting", "answered", "failed"}
    /\ attempts \in [Kinds -> Nat] /\ asked \in [Sides -> Nat]
    /\ call # "asking" => asked[side] > 0
    /\ call = "failed" => side = "remote"
    /\ side = "local" => /\ hybrid /\ asked["remote"] = 0
                         /\ attempts["network"] <= maxRetries
                         /\ asked["local"] <= attempts["network"] + Over
    /\ side = "remote" => /\ attempts["network"] <= maxNetworkRetries
                          /\ attempts["rate_limit"] <= maxRateLimitRetries
                          /\ attempts["malformed"] <= maxMalformedRetries
                          /\ asked["remote"] <= Met + Over
                          /\ asked["local"] <= 1 + maxRetries
                          /\ hybrid => asked["local"] > 0

\* What is retried at all, and how often.
LEMMA LimitIs ==
    ASSUME NEW s \in Sides, NEW k \in Kinds
    PROVE  /\ Limit(s, k) \in Nat
           /\ Limit(s, "other") = 0
           /\ Limit("local", "network") <= maxRetries
           /\ \A j \in Kinds \ {"network"} : Limit("local", j) = 0
           /\ Limit("remote", "network") <= maxNetworkRetries
           /\ Limit("remote", "rate_limit") <= maxRateLimitRetries
           /\ Limit("remote", "malformed") <= maxMalformedRetries
<1>1. {maxNetworkRetries, maxRateLimitRetries, maxMalformedRetries, maxRetries} \subseteq Nat
  BY CompletionAssumption
<1>2. ~retrying => \A t \in Sides, j \in Kinds : Limit(t, j) = 0
  BY DEF Limit
<1>3. retrying => \A t \in Sides : Limit(t, "other") = 0
  BY DEF Limit, Policy, NoAttempts, Kinds, Sides
<1>4. retrying => /\ Limit("local", "network") = maxRetries
                  /\ Limit("local", "rate_limit") = 0
                  /\ Limit("local", "malformed") = 0
  BY DEF Limit, Policy, NoAttempts, Kinds
<1>5. retrying => /\ Limit("remote", "network") = maxNetworkRetries
                  /\ Limit("remote", "rate_limit") = maxRateLimitRetries
                  /\ Limit("remote", "malformed") = maxMalformedRetries
  BY DEF Limit, Policy
<1>6. CASE ~retrying
  BY <1>1, <1>2, <1>6 DEF Sides, Kinds
<1>7. CASE retrying
  BY <1>1, <1>3, <1>4, <1>5, <1>7 DEF Sides, Kinds
<1> QED BY <1>6, <1>7

\* A completion begins with nothing asked and nothing met.
LEMMA BeginInv ==
    ASSUME CInv, NEW r, Begin(r), UNCHANGED hybrid
    PROVE  CInv'
  BY CompletionAssumption DEF CInv, Begin, Sides, Kinds, NoAttempts, Over, Met

LEMMA CInit == Init => CInv
  BY CompletionAssumption DEF Init, CompletionInit, CInv, Sides, Kinds, NoAttempts, Over, Met

\* Every step keeps the invariant.
LEMMA CStep == CInv /\ [Next]_vars => CInv'
<1> SUFFICES ASSUME CInv, [Next]_vars PROVE CInv'
  OBVIOUS
<1>1. /\ maxNetworkRetries \in Nat /\ maxRateLimitRetries \in Nat
      /\ maxMalformedRetries \in Nat /\ maxRetries \in Nat
  BY CompletionAssumption
<1>2. UNCHANGED <<hybrid, side, call, attempts, asked>> => CInv'
  BY DEF CInv, Over, Met
<1>3. ASSUME AskAnswered
      PROVE  CInv'
  BY <1>1, <1>3 DEF AskAnswered, Sent, CInv, Sides, Kinds, Over, Met
<1>4. ASSUME NEW k \in Kinds, AskFails(k)
      PROVE  CInv'
  <2>1. call = "asking" /\ asked' = [asked EXCEPT ![side] = @ + 1] /\ hybrid' = hybrid
    BY <1>4 DEF AskFails, Sent
  <2>2. Over = 0
    BY <2>1 DEF Over
  <2>3. CASE attempts[k] < Limit(side, k)
    <3>1. Retry(k)
      BY <1>4, <2>3 DEF AskFails
    <3>2. call' \in {"asking", "waiting"} /\ side' = side /\ Over' = 0
          /\ attempts' = [attempts EXCEPT ![k] = @ + 1]
      BY <3>1 DEF Retry, Over
    <3>3. attempts[k] \in Nat /\ Limit(side, k) \in Nat
      BY LimitIs DEF CInv
    <3>4. CASE side = "local"
      <4>1. k = "network" /\ attempts[k] < maxRetries
        BY <1>1, <2>3, <3>3, <3>4, LimitIs DEF CInv, Kinds
      <4> QED BY <1>1, <2>1, <2>2, <3>2, <3>4, <4>1 DEF CInv, Sides, Kinds
    <3>5. CASE side = "remote"
      <4>1. /\ k \in {"network", "rate_limit", "malformed"}
            /\ k = "network" => attempts[k] < maxNetworkRetries
            /\ k = "rate_limit" => attempts[k] < maxRateLimitRetries
            /\ k = "malformed" => attempts[k] < maxMalformedRetries
        BY <1>1, <2>3, <3>3, <3>5, LimitIs DEF CInv, Kinds
      <4>2. Met' = Met + 1
        BY <3>2, <4>1 DEF Met, CInv, Kinds
      <4>3. attempts' \in [Kinds -> Nat] /\ attempts'["network"] <= maxNetworkRetries
            /\ attempts'["rate_limit"] <= maxRateLimitRetries
            /\ attempts'["malformed"] <= maxMalformedRetries
        BY <1>1, <3>2, <3>5, <4>1 DEF CInv, Kinds
      <4>4. Met \in Nat
        BY DEF Met, CInv, Kinds
      <4> QED BY <1>1, <2>1, <2>2, <3>2, <3>5, <4>2, <4>3, <4>4 DEF CInv, Sides
    <3> QED BY <3>4, <3>5 DEF CInv, Sides
  <2>4. CASE ~(attempts[k] < Limit(side, k))
    <3>1. GiveUp
      BY <1>4, <2>4 DEF AskFails
    <3>2. CASE side = "local"
      BY <1>1, <2>1, <2>2, <3>1, <3>2 DEF GiveUp, CInv, Sides, Kinds, NoAttempts, Over, Met
    <3>3. CASE side = "remote"
      BY <1>1, <2>1, <2>2, <3>1, <3>3 DEF GiveUp, CInv, Sides, Kinds, Over, Met
    <3> QED BY <3>2, <3>3 DEF CInv, Sides
  <2> QED BY <2>3, <2>4
<1>5. ASSUME WaitEnds
      PROVE  CInv'
  BY <1>1, <1>5 DEF WaitEnds, CInv, Over, Met
<1>6. ASSUME WaitCut
      PROVE  CInv'
  <2>1. call = "waiting" /\ GiveUp /\ asked' = asked /\ hybrid' = hybrid
    BY <1>6 DEF WaitCut
  <2>2. CASE side = "local"
    BY <1>1, <2>1, <2>2 DEF GiveUp, CInv, Sides, Kinds, NoAttempts, Over, Met
  <2>3. CASE side = "remote"
    BY <1>1, <2>1, <2>3 DEF GiveUp, CInv, Sides, Kinds, Over, Met
  <2> QED BY <2>2, <2>3 DEF CInv, Sides
<1>7. ASSUME Asks
      PROVE  CInv'
  BY <1>3, <1>4, <1>5, <1>6, <1>7 DEF Asks, Completing
<1>8. ASSUME Tools
      PROVE  CInv'
  BY <1>2, <1>8 DEF Tools, ExecuteTool, completionVars
<1>9. ASSUME Spawn
      PROVE  CInv'
  BY <1>9, BeginInv DEF Spawn
<1>10. ASSUME ModelFails
       PROVE  CInv'
  BY <1>2, <1>10 DEF ModelFails, completionVars
<1>11. ASSUME NEW n \in Requests, NEW t \in BOOLEAN, Responded(n, t)
       PROVE  CInv'
  BY <1>2, <1>11 DEF Responded, completionVars
<1>12. ASSUME RoundEnds
       PROVE  CInv'
  <2>1. (Begin(FALSE) /\ hybrid' = hybrid) \/ UNCHANGED completionVars
    BY <1>12 DEF RoundEnds
  <2> QED BY <2>1, <1>2, BeginInv DEF completionVars
<1>13. ASSUME Expire
       PROVE  CInv'
  BY <1>2, <1>13 DEF Expire
<1>14. ASSUME UNCHANGED vars
       PROVE  CInv'
  BY <1>2, <1>14 DEF vars, completionVars
<1> QED BY <1>7, <1>8, <1>9, <1>10, <1>11, <1>12, <1>13, <1>14 DEF Next, Advances

\* The invariant holds in every reachable state.
THEOREM CompletionInvariant == Spec => []CInv
<1> QED BY CInit, CStep, PTL DEF Spec

\* However the kinds of error alternate, one completion sends at most as many
\* requests as the two retry policies together allow.
THEOREM RequestsAreBounded == Spec => []RequestsBounded
<1>1. CInv => RequestsBounded
  <2> SUFFICES ASSUME CInv PROVE RequestsBounded
    OBVIOUS
  <2>1. /\ maxNetworkRetries \in Nat /\ maxRateLimitRetries \in Nat
        /\ maxMalformedRetries \in Nat /\ maxRetries \in Nat
    BY CompletionAssumption
  <2>2. Over \in {0, 1}
    BY DEF Over
  <2>3. asked["local"] \in Nat /\ asked["remote"] \in Nat /\ \A k \in Kinds : attempts[k] \in Nat
    BY DEF CInv, Sides
  <2>4. CASE side = "local"
    BY <2>1, <2>2, <2>3, <2>4 DEF CInv, RequestsBounded, Kinds
  <2>5. CASE side = "remote"
    BY <2>1, <2>2, <2>3, <2>5 DEF CInv, RequestsBounded, Kinds, Met
  <2> QED BY <2>4, <2>5 DEF CInv, Sides
<1> QED BY CompletionInvariant, <1>1, PTL

\* The remote model is asked only after the local one, and is asked before a
\* completion fails.
THEOREM LocalIsFirst == Spec => []LocalFirst
<1>1. CInv => LocalFirst
  BY DEF CInv, LocalFirst, Sides
<1> QED BY CompletionInvariant, <1>1, PTL

-----------------------------------------------------------------------------
(* Scheduling.                                                              *)

Step == [tool : Names, command : Commands \cup {Nothing}, isError : BOOLEAN]
PossibleCalls == {Call(id, i) : id \in Nat \X Nat, i \in Invocations}

\* The commands that the steps st report as scheduled.
Told(st) == {i \in DOMAIN st : st[i].tool = "schedule" /\ ~st[i].isError}
Scheduled(st) == {st[i].command : i \in Told(st)}

SInv ==
    /\ SchedulerTypeOK /\ TableIsCron
    /\ round \in Nat /\ pending \in Seq(PossibleCalls) /\ steps \in Seq(Step)
    /\ ToSet(entries) = earlier \cup Scheduled(steps)

\* Appending adds one element to those of a sequence.
LEMMA AppendAdds ==
    ASSUME NEW S, NEW s \in Seq(S), NEW x \in S
    PROVE  ToSet(Append(s, x)) = ToSet(s) \cup {x}
<1>1. Append(s, x) \in Seq(S) /\ Len(Append(s, x)) = Len(s) + 1
  OBVIOUS
<1>2. \A i \in 1 .. Len(s) : Append(s, x)[i] = s[i]
  OBVIOUS
<1>3. Append(s, x)[Len(s) + 1] = x
  OBVIOUS
<1>4. DOMAIN s = 1 .. Len(s) /\ DOMAIN Append(s, x) = (1 .. Len(s)) \cup {Len(s) + 1}
  BY <1>1
<1> QED BY <1>2, <1>3, <1>4 DEF ToSet

\* One step more reports one command more, or none.
LEMMA StepAdds ==
    ASSUME NEW st \in Seq(Step), NEW x \in Step
    PROVE  Scheduled(Append(st, x)) =
             Scheduled(st) \cup (IF x.tool = "schedule" /\ ~x.isError THEN {x.command} ELSE {})
<1>1. Append(st, x) \in Seq(Step) /\ Len(Append(st, x)) = Len(st) + 1
  OBVIOUS
<1>2. \A i \in 1 .. Len(st) : Append(st, x)[i] = st[i]
  OBVIOUS
<1>3. Append(st, x)[Len(st) + 1] = x
  OBVIOUS
<1>4. DOMAIN st = 1 .. Len(st) /\ DOMAIN Append(st, x) = (1 .. Len(st)) \cup {Len(st) + 1}
  BY <1>1
<1>5. Told(Append(st, x)) = Told(st) \cup (IF x.tool = "schedule" /\ ~x.isError THEN {Len(st) + 1} ELSE {})
  BY <1>2, <1>3, <1>4 DEF Told
<1>6. \A i \in Told(st) : Append(st, x)[i] = st[i]
  BY <1>2, <1>4 DEF Told
<1> QED BY <1>3, <1>5, <1>6 DEF Scheduled

\* A job that is added keeps table and cron together.
LEMMA AddKeeps ==
    ASSUME SchedulerTypeOK, TableIsCron, NEW c \in Commands, ~Exists(JobName[c]), Add(c)
    PROVE  SchedulerTypeOK' /\ TableIsCron'
<1> DEFINE n == Len(entries) + 1
           job == [command |-> c, entry |-> n]
<1>1. /\ entries \in Seq(Commands) /\ Len(entries) \in Nat
      /\ jobs \in [JobNames -> {NoJob} \cup [command : Commands, entry : 1 .. Len(entries)]]
      /\ JobName \in [Commands -> JobNames] /\ JobName[c] \in JobNames
  BY SchedulerAssumption DEF SchedulerTypeOK
<1>2. /\ entries' \in Seq(Commands) /\ Len(entries') = n
      /\ \A i \in 1 .. Len(entries) : entries'[i] = entries[i]
      /\ entries'[n] = c
  BY <1>1 DEF Add
<1>3. \A m \in JobNames : jobs'[m] = IF m = JobName[c] THEN job ELSE jobs[m]
  BY <1>1 DEF Add
<1>4. jobs' \in [JobNames -> {NoJob} \cup [command : Commands, entry : 1 .. Len(entries')]]
  <2>1. job \in [command : Commands, entry : 1 .. Len(entries')]
    BY <1>1, <1>2
  <2>2. [command : Commands, entry : 1 .. Len(entries)] \subseteq [command : Commands, entry : 1 .. Len(entries')]
    BY <1>1, <1>2
  <2>3. jobs' = [jobs EXCEPT ![JobName[c]] = job]
    BY DEF Add
  <2> HIDE DEF job
  <2> QED BY <1>1, <2>1, <2>2, <2>3
<1>5. NoJob.entry = 0 /\ job # NoJob
  BY <1>1 DEF NoJob
<1>6. ASSUME NEW m \in JobNames, Exists(m)'
      PROVE  entries'[jobs'[m].entry] = jobs'[m].command
  <2>1. CASE m = JobName[c]
    BY <1>2, <1>3, <2>1
  <2>2. CASE m # JobName[c]
    <3>1. jobs'[m] = jobs[m] /\ Exists(m)
      BY <1>3, <1>6, <2>2 DEF Exists
    <3>2. jobs[m].entry \in 1 .. Len(entries)
      BY <1>1, <3>1 DEF Exists
    <3> QED BY <1>2, <3>1, <3>2 DEF TableIsCron
  <2> QED BY <2>1, <2>2
<1>7. ASSUME NEW i \in DOMAIN entries'
      PROVE  jobs'[JobName[entries'[i]]] = [command |-> entries'[i], entry |-> i]
  <2>1. i \in 1 .. Len(entries) \/ i = n
    BY <1>1, <1>2
  <2>2. CASE i = n
    BY <1>1, <1>2, <1>3, <2>2
  <2>3. CASE i \in 1 .. Len(entries)
    <3>1. entries'[i] = entries[i] /\ entries[i] \in Commands /\ i \in DOMAIN entries
      BY <1>1, <1>2, <2>3
    <3>2. jobs[JobName[entries[i]]] = [command |-> entries[i], entry |-> i]
      BY <3>1 DEF TableIsCron
    <3>3. JobName[entries[i]] \in JobNames /\ Exists(JobName[entries[i]])
      BY <1>1, <2>3, <3>1, <3>2 DEF Exists, NoJob
    <3> QED BY <1>3, <3>1, <3>2, <3>3
  <2> QED BY <2>1, <2>2, <2>3
<1> QED BY <1>1, <1>2, <1>4, <1>6, <1>7 DEF SchedulerTypeOK, TableIsCron

LEMMA SInit == Init => SInv
<1> SUFFICES ASSUME Init PROVE SInv
  OBVIOUS
<1>1. /\ round = 0 /\ pending = <<>> /\ steps = <<>> /\ earlier = ToSet(entries)
  BY DEF Init, NoRun
<1>2. Scheduled(steps) = {}
  BY <1>1 DEF Scheduled, Told
<1>3. SchedulerTypeOK /\ TableIsCron
  <2>1. CASE entries = <<>>
    <3>1. jobs = [n \in JobNames |-> NoJob]
      BY <2>1 DEF Init, SchedulerInit
    <3> QED BY <2>1, <3>1 DEF SchedulerTypeOK, TableIsCron, Exists
  <2>2. ASSUME NEW c \in Commands, entries = <<c>>
        PROVE  SchedulerTypeOK /\ TableIsCron
    <3>1. /\ JobName \in [Commands -> JobNames] /\ entries # <<>> /\ entries[1] = c
          /\ Len(entries) = 1 /\ DOMAIN entries = {1} /\ entries \in Seq(Commands)
      BY <2>2, SchedulerAssumption
    <3>2. jobs = [n \in JobNames |-> IF JobName[c] = n THEN [command |-> c, entry |-> 1] ELSE NoJob]
      BY <3>1 DEF Init, SchedulerInit
    <3>3. [command |-> c, entry |-> 1] \in [command : Commands, entry : 1 .. Len(entries)]
      BY <3>1
    <3> QED BY <3>1, <3>2, <3>3 DEF SchedulerTypeOK, TableIsCron, Exists
  <2> QED BY <2>1, <2>2 DEF Init, SchedulerInit
<1> QED BY <1>1, <1>2, <1>3 DEF SInv

\* A step that executes no tool keeps the invariant.
LEMMA SElsewhere ==
    ASSUME SInv, UNCHANGED <<schedulerVars, steps, earlier>>, round' \in Nat, pending' \in Seq(PossibleCalls)
    PROVE  SInv'
  BY DEF SInv, schedulerVars, SchedulerTypeOK, TableIsCron, Exists, Scheduled, Told

\* A tool changes the table exactly if its step reports it.
LEMMA ToolKeeps == ASSUME SInv, NEW failed \in BOOLEAN, ExecuteTool(failed) PROVE SInv'
<1> DEFINE c == Head(pending)
           x == [tool |-> c.name, command |-> c.command, isError |-> Fails(c, failed)]
<1>1. /\ pending \in Seq(PossibleCalls) /\ pending # <<>> /\ pending' = Tail(pending)
      /\ steps \in Seq(Step) /\ steps' = Append(steps, x) /\ earlier' = earlier
      /\ round \in Nat /\ round' = round
      /\ IF IsSchedule(c) THEN Register(c.command, ~failed) ELSE UNCHANGED schedulerVars
  BY DEF SInv, ExecuteTool
<1>2. c \in PossibleCalls /\ pending' \in Seq(PossibleCalls)
  BY <1>1
<1>3. /\ c.name \in Names
      /\ c.name = "schedule" => c.command \in Commands
      /\ c.name # "schedule" => c.command = Nothing
  <2>1. PICK id \in Nat \X Nat, i \in Invocations : c = Call(id, i)
    BY <1>2 DEF PossibleCalls
  <2>2. c.name = i.name /\ c.command = i.command
    BY <2>1 DEF Call
  <2>3. CASE i \in [name : Names \ {"schedule"}, command : {Nothing}]
    BY <2>2, <2>3
  <2>4. CASE i \in [name : Names \cap {"schedule"}, command : Commands]
    BY <2>2, <2>4
  <2> QED BY <2>3, <2>4 DEF Invocations
<1>4. x \in Step
  BY <1>3 DEF Step, Fails, Accepts
<1>5. steps' \in Seq(Step)
  BY <1>1, <1>4
<1>6. Scheduled(steps') = Scheduled(steps) \cup
                            (IF c.name = "schedule" /\ ~Fails(c, failed) THEN {c.command} ELSE {})
  BY <1>1, <1>4, StepAdds
<1> HIDE DEF c
<1>7. CASE IsSchedule(c) /\ Accepts(c.command, ~failed)
  <2>1. c.command \in Commands /\ ~Exists(JobName[c.command]) /\ Add(c.command)
    BY <1>1, <1>3, <1>7 DEF IsSchedule, Register, Accepts
  <2>2. SchedulerTypeOK' /\ TableIsCron'
    BY <2>1, AddKeeps DEF SInv
  <2>3. entries \in Seq(Commands) /\ entries' = Append(entries, c.command)
    BY <2>1 DEF SInv, SchedulerTypeOK, Add
  <2>4. ToSet(entries') = ToSet(entries) \cup {c.command}
    BY <2>1, <2>3, AppendAdds
  <2>5. Scheduled(steps') = Scheduled(steps) \cup {c.command}
    BY <1>6, <1>7 DEF IsSchedule, Fails
  <2> QED BY <1>1, <1>2, <1>5, <2>2, <2>4, <2>5 DEF SInv
<1>8. CASE ~(IsSchedule(c) /\ Accepts(c.command, ~failed))
  <2>1. UNCHANGED schedulerVars
    BY <1>1, <1>8 DEF Register
  <2>2. Scheduled(steps') = Scheduled(steps)
    BY <1>6, <1>8 DEF Fails, IsSchedule
  <2>3. SchedulerTypeOK' /\ TableIsCron' /\ ToSet(entries') = ToSet(entries)
    BY <2>1 DEF SInv, schedulerVars, SchedulerTypeOK, TableIsCron, Exists
  <2> QED BY <1>1, <1>2, <1>5, <2>2, <2>3 DEF SInv
<1> QED BY <1>7, <1>8

LEMMA SStep == SInv /\ [Next]_vars => SInv'
<1> SUFFICES ASSUME SInv, [Next]_vars PROVE SInv'
  OBVIOUS
<1>1. round \in Nat /\ pending \in Seq(PossibleCalls)
  BY DEF SInv
<1>2. ASSUME UNCHANGED <<schedulerVars, steps, earlier, round, pending>> PROVE SInv'
  BY <1>1, <1>2, SElsewhere
<1>3. ASSUME NEW n \in Requests, NEW t \in BOOLEAN, Responded(n, t) PROVE SInv'
  <2>1. PICK k \in 0 .. MaxCalls : n \in [1 .. k -> Invocations]
    BY DEF Requests
  <2>2. k \in Nat
    BY AgentAssumption
  <2>3. ASSUME NEW i \in 1 .. k
        PROVE  Call(IF side = "local" THEN <<0, i>> ELSE <<round + 1, i>>, n[i]) \in PossibleCalls
    <3> DEFINE id == IF side = "local" THEN <<0, i>> ELSE <<round + 1, i>>
    <3>1. id \in Nat \X Nat
      BY <1>1, <2>2
    <3>2. n[i] \in Invocations
      BY <2>1
    <3>3. Call(id, n[i]) \in PossibleCalls
      <4> HIDE DEF id
      <4> QED BY <3>1, <3>2 DEF PossibleCalls
    <3> QED BY <3>3
  <2>4. ToolCalls(n) \in [1 .. k -> PossibleCalls]
    BY <2>1, <2>3 DEF ToolCalls
  <2>5. ToolCalls(n) \in Seq(PossibleCalls)
    BY <2>2, <2>4
  <2> QED BY <1>1, <1>3, <2>5, SElsewhere DEF Responded
<1>4. ASSUME RoundEnds PROVE SInv'
  BY <1>1, <1>4, SElsewhere DEF RoundEnds
<1>5. ASSUME Tools PROVE SInv'
  BY <1>5, ToolKeeps DEF Tools
<1> QED
  BY <1>2, <1>3, <1>4, <1>5
  DEF Next, vars, Asks, Advances, Spawn, ModelFails, Expire, runVars

\* Of any commands, with any names and whatever was scheduled before, exactly those the
\* agent was told of are scheduled, and each in full.
THEOREM SchedulesAsTold == Spec => []ScheduledAsTold
<1>1. SInv => ScheduledAsTold
  BY DEF SInv, ScheduledAsTold, Scheduled, Told
<1> QED BY SInit, SStep, <1>1, PTL DEF Spec

-----------------------------------------------------------------------------
(* Sequences: what the loop over a turn's content collects, and what a      *)
(* flattened sequence of sequences becomes when one is appended.            *)

\* kept is what the loop over ps has collected after each part.
Kept(ps, types, kept) ==
    kept = [i \in 0 .. Len(ps) |->
              IF i = 0 THEN <<>>
              ELSE IF ps[i].type \in types THEN Append(kept[i - 1], ps[i]) ELSE kept[i - 1]]

LEMMA KeptIsOne ==
    ASSUME NEW ps, Len(ps) \in Nat, NEW types, NEW f, NEW g, Kept(ps, types, f), Kept(ps, types, g)
    PROVE  f[Len(ps)] = g[Len(ps)]
<1> DEFINE T == {i \in 0 .. Len(ps) : f[i] # g[i]}
<1>1. SUFFICES ASSUME f[Len(ps)] # g[Len(ps)] PROVE FALSE
  OBVIOUS
<1>2. T \in SUBSET Nat /\ T # {}
  BY <1>1
<1>3. PICK x \in T : \A y \in T : ~(y < x)
  <2> HIDE DEF T
  <2> QED BY <1>2, LeastOf
<1>4. x # 0
  BY DEF Kept
<1>5. x - 1 \in 0 .. Len(ps) /\ x - 1 < x /\ x \in 0 .. Len(ps)
  BY <1>4
<1>6. f[x - 1] = g[x - 1]
  BY <1>3, <1>5
<1>7. f[x] = g[x]
  BY <1>4, <1>5, <1>6 DEF Kept
<1> QED BY <1>7

LEMMA PartsAreKept ==
    ASSUME NEW m, Len(m.content) \in Nat, NEW types, NEW f, Kept(m.content, types, f)
    PROVE  PartsOf(m, types) = f[Len(m.content)]
<1> DEFINE g == CHOOSE h : Kept(m.content, types, h)
<1>1. Kept(m.content, types, g)
  OBVIOUS
<1>2. PartsOf(m, types) = g[Len(m.content)]
  BY DEF PartsOf, Kept
<1> HIDE DEF g
<1> QED BY <1>1, <1>2, KeptIsOne

\* When the parts of other types come first, what is collected is the rest.
LEMMA PartsAreTheRest ==
    ASSUME NEW S, NEW m, m.content \in Seq(S), NEW types, NEW n \in 0 .. Len(m.content),
           \A i \in 1 .. Len(m.content) : m.content[i].type \in types <=> i > n
    PROVE  PartsOf(m, types) = SubSeq(m.content, n + 1, Len(m.content))
<1> DEFINE ps == m.content
           f == [i \in 0 .. Len(ps) |-> SubSeq(ps, n + 1, i)]
<1>1. Len(ps) \in Nat /\ ps \in Seq(S)
  OBVIOUS
<1>2. \A i \in 1 .. Len(ps) : ps[i].type \in types <=> i > n
  OBVIOUS
<1> HIDE DEF ps
<1>3. ASSUME NEW i \in 0 .. Len(ps)
      PROVE  f[i] = IF i = 0 THEN <<>>
                    ELSE IF ps[i].type \in types THEN Append(f[i - 1], ps[i]) ELSE f[i - 1]
  <2>1. CASE i = 0
    BY <2>1, <1>1
  <2>2. CASE i # 0 /\ i > n
    <3>0. i \in 1 .. Len(ps) /\ i - 1 \in 0 .. Len(ps)
      BY <1>1, <2>2
    <3>1. ps[i].type \in types /\ f[i - 1] = SubSeq(ps, n + 1, i - 1) /\ f[i] = SubSeq(ps, n + 1, i)
      BY <1>2, <2>2, <3>0
    <3>2. SubSeq(ps, n + 1, i) = Append(SubSeq(ps, n + 1, i - 1), ps[i])
      <4>1. n + 1 \in 1 .. Len(ps) /\ i \in n + 1 .. Len(ps) /\ n \in Nat
        BY <1>1, <2>2, <3>0
      <4> QED BY <1>1, <4>1, SubSeqRecursiveSecond
    <3> QED BY <2>2, <3>1, <3>2
  <2>3. CASE i # 0 /\ ~(i > n)
    <3>0. i \in 1 .. Len(ps) /\ i - 1 \in 0 .. Len(ps)
      BY <1>1, <2>3
    <3>1. ps[i].type \notin types /\ f[i - 1] = SubSeq(ps, n + 1, i - 1) /\ f[i] = SubSeq(ps, n + 1, i)
      BY <1>2, <2>3, <3>0
    <3>2. SubSeq(ps, n + 1, i) = <<>> /\ SubSeq(ps, n + 1, i - 1) = <<>>
      BY <1>1, <2>3, <3>0, SubSeqEmpty
    <3> QED BY <2>3, <3>1, <3>2
  <2> QED BY <2>1, <2>2, <2>3
<1>4. Kept(ps, types, f)
  BY <1>3 DEF Kept
<1>5. f[Len(ps)] = SubSeq(ps, n + 1, Len(ps))
  BY <1>1
<1> HIDE DEF f
<1> QED BY <1>1, <1>4, <1>5, PartsAreKept DEF ps

\* f is the recursion that flattens the first n of ss.
Flattens(ss, n, f) == f = [i \in 1 .. n |-> IF i = 1 THEN ss[1] ELSE f[i - 1] \o ss[i]]

LEMMA SomethingFlattens == ASSUME NEW ss, NEW n \in Nat PROVE \E f : Flattens(ss, n, f)
<1> DEFINE T == {k \in Nat : ~\E f : Flattens(ss, k, f)}
<1>1. SUFFICES ASSUME T # {} PROVE FALSE
  OBVIOUS
<1>2. PICK x \in T : \A y \in T : ~(y < x)
  <2>1. T \in SUBSET Nat
    OBVIOUS
  <2> HIDE DEF T
  <2> QED BY <1>1, <2>1, LeastOf
<1>3. x # 0
  <2>1. ASSUME x = 0 PROVE Flattens(ss, x, [i \in 1 .. 0 |-> ss])
    BY <2>1 DEF Flattens
  <2> QED BY <2>1
<1>4. x - 1 \in Nat /\ x \in Nat /\ x - 1 < x
  BY <1>3
<1>5. PICK f : Flattens(ss, x - 1, f)
  BY <1>2, <1>4
<1> DEFINE g == [i \in 1 .. x |-> IF i = x THEN (IF x = 1 THEN ss[1] ELSE f[x - 1] \o ss[x]) ELSE f[i]]
<1>6. ASSUME NEW i \in 1 .. x PROVE g[i] = IF i = 1 THEN ss[1] ELSE g[i - 1] \o ss[i]
  <2>1. CASE i = x
    BY <1>4, <2>1
  <2>2. CASE i # x
    <3>1. i \in 1 .. x - 1 /\ (i # 1 => i - 1 \in 1 .. x /\ i - 1 # x)
      BY <1>4, <2>2
    <3>2. g[i] = f[i] /\ (i # 1 => g[i - 1] = f[i - 1])
      BY <2>2, <3>1
    <3>3. f[i] = IF i = 1 THEN ss[1] ELSE f[i - 1] \o ss[i]
      BY <1>5, <3>1 DEF Flattens
    <3> HIDE DEF g
    <3> QED BY <3>2, <3>3
  <2> QED BY <2>1, <2>2
<1>7. Flattens(ss, x, g)
  BY <1>6 DEF Flattens
<1> QED BY <1>7

LEMMA FlattensAlike ==
    ASSUME NEW ss, NEW tt, NEW n \in Nat, NEW k \in Nat, n <= k, \A i \in 1 .. n : ss[i] = tt[i],
           NEW f, Flattens(ss, n, f), NEW g, Flattens(tt, k, g), NEW i \in 1 .. n
    PROVE  f[i] = g[i]
<1> DEFINE T == {j \in 1 .. n : f[j] # g[j]}
<1>1. SUFFICES ASSUME f[i] # g[i] PROVE FALSE
  OBVIOUS
<1>2. T \in SUBSET Nat /\ T # {}
  BY <1>1
<1>3. PICK x \in T : \A y \in T : ~(y < x)
  <2> HIDE DEF T
  <2> QED BY <1>2, LeastOf
<1>4. x \in 1 .. n /\ x \in 1 .. k
  OBVIOUS
<1>5. f[x] = (IF x = 1 THEN ss[1] ELSE f[x - 1] \o ss[x]) /\ g[x] = (IF x = 1 THEN tt[1] ELSE g[x - 1] \o tt[x])
  BY <1>4 DEF Flattens
<1>6. CASE x = 1
  BY <1>4, <1>5, <1>6
<1>7. CASE x # 1
  <2>1. x - 1 \in 1 .. n /\ x - 1 < x
    BY <1>4, <1>7
  <2>2. f[x - 1] = g[x - 1]
    BY <1>3, <2>1
  <2> QED BY <1>4, <1>5, <1>7, <2>2
<1> QED BY <1>6, <1>7

LEMMA FlattenIs ==
    ASSUME NEW ss, Len(ss) \in Nat \ {0}
    PROVE  \E f : Flattens(ss, Len(ss), f) /\ FlattenSeq(ss) = f[Len(ss)]
<1> DEFINE f == CHOOSE g : Flattens(ss, Len(ss), g)
<1>1. Flattens(ss, Len(ss), f)
  BY SomethingFlattens
<1>2. FlattenSeq(ss) = f[Len(ss)]
  BY DEF Flattens, FlattenSeq
<1> QED BY <1>1, <1>2

LEMMA FlattenType == ASSUME NEW S, NEW ss \in Seq(Seq(S)) PROVE FlattenSeq(ss) \in Seq(S)
<1>0. Len(ss) \in Nat /\ \A i \in 1 .. Len(ss) : ss[i] \in Seq(S)
  OBVIOUS
<1>1. CASE Len(ss) = 0
  BY <1>1 DEF FlattenSeq
<1>2. CASE Len(ss) # 0
  <2>1. PICK f : Flattens(ss, Len(ss), f) /\ FlattenSeq(ss) = f[Len(ss)]
    BY <1>0, <1>2, FlattenIs
  <2> DEFINE T == {j \in 1 .. Len(ss) : f[j] \notin Seq(S)}
  <2>2. SUFFICES ASSUME T # {} PROVE FALSE
    BY <1>0, <1>2, <2>1
  <2>3. PICK x \in T : \A y \in T : ~(y < x)
    <3>1. T \in SUBSET Nat
      BY <1>0
    <3> HIDE DEF T
    <3> QED BY <2>2, <3>1, LeastOf
  <2>4. x \in 1 .. Len(ss) /\ f[x] = (IF x = 1 THEN ss[1] ELSE f[x - 1] \o ss[x])
    BY <2>1 DEF Flattens
  <2>5. CASE x = 1
    BY <1>0, <2>4, <2>5
  <2>6. CASE x # 1
    <3>1. x - 1 \in 1 .. Len(ss) /\ x - 1 < x
      BY <1>0, <2>4, <2>6
    <3>2. f[x - 1] \in Seq(S) /\ ss[x] \in Seq(S)
      BY <1>0, <2>3, <2>4, <3>1
    <3>3. f[x] \in Seq(S)
      BY <2>4, <2>6, <3>2
    <3> QED BY <3>3
  <2> QED BY <2>5, <2>6
<1> QED BY <1>1, <1>2

LEMMA FlattenAppend ==
    ASSUME NEW S, NEW ss \in Seq(Seq(S)), NEW s \in Seq(S)
    PROVE  FlattenSeq(Append(ss, s)) = FlattenSeq(ss) \o s
<1> DEFINE tt == Append(ss, s)
           n == Len(ss)
<1>1. /\ n \in Nat /\ Len(tt) = n + 1 /\ tt[n + 1] = s /\ \A i \in 1 .. n : ss[i] = tt[i]
  OBVIOUS
<1>2. PICK g : Flattens(tt, n + 1, g) /\ FlattenSeq(tt) = g[n + 1]
  <2> HIDE DEF tt, n
  <2> QED BY <1>1, FlattenIs
<1>3. g[n + 1] = IF n + 1 = 1 THEN tt[1] ELSE g[n] \o tt[n + 1]
  <2> HIDE DEF tt, n
  <2>1. n + 1 \in 1 .. n + 1 /\ n + 1 - 1 = n
    BY <1>1
  <2>2. \A i \in 1 .. n + 1 : g[i] = IF i = 1 THEN tt[1] ELSE g[i - 1] \o tt[i]
    BY <1>2 DEF Flattens
  <2>3. PICK k : k = n + 1
    OBVIOUS
  <2>4. k - 1 = n /\ k \in 1 .. n + 1
    BY <1>1, <2>3
  <2>5. g[k] = IF k = 1 THEN tt[1] ELSE g[n] \o tt[k]
    BY <2>2, <2>4
  <2> QED BY <2>3, <2>5
<1>4. CASE n = 0
  <2>1. FlattenSeq(ss) = <<>>
    BY <1>4 DEF FlattenSeq
  <2> QED BY <1>1, <1>2, <1>3, <1>4, <2>1
<1>5. CASE n # 0
  <2>1. PICK f : Flattens(ss, n, f) /\ FlattenSeq(ss) = f[n]
    BY <1>1, <1>5, FlattenIs
  <2>2. f[n] = g[n]
    <3> HIDE DEF tt, n
    <3>1. n <= n + 1 /\ n \in 1 .. n
      BY <1>1, <1>5
    <3> QED BY <1>1, <1>2, <2>1, <3>1, FlattensAlike
  <2> QED BY <1>1, <1>2, <1>3, <1>5, <2>1, <2>2
<1> QED BY <1>4, <1>5

-----------------------------------------------------------------------------
(* The run.                                                                 *)

ResultParts == {ToolResultPart(id, b) : id \in Nat \X Nat, b \in BOOLEAN}
Contents == PossibleCalls \cup ResultParts \cup {TextPart}
WireMessages == [role : {"user", "assistant", "tool"}, calls : Nat]

Turns == {m \in [role : {"user", "assistant"}, content : Seq(Contents)] :
             /\ CallsOf(m) \in Seq(PossibleCalls) /\ ResultsOf(m) \in Seq(ResultParts)
             /\ OllamaMessages(m) \in Seq(WireMessages)}

\* Nothing is left to be executed or fed back.
Settled == pending = <<>> /\ parts = <<>>

\* Where the run is: the rounds it has left, what it has still to feed back, and that
\* its result is the last it does.
RInv ==
    /\ CompletionTypeOK /\ earlier \subseteq Commands
    /\ phase \in {"refining", "running", "ended"}
    /\ round \in 0 .. maxToolIterations /\ lastText \in 0 .. maxToolIterations
    /\ parts \in Seq(ResultParts) /\ Len(pending) + Len(parts) <= MaxCalls
    /\ messages \in Seq(Turns)
    /\ phase = "refining" => NoRun
    /\ phase = "running" => round < maxToolIterations
    /\ phase # "ended" => result = Nothing
    /\ phase = "ended" => result \in [success : BOOLEAN, steps : {steps}, text : {lastText}]
    /\ ~Settled => phase = "running" /\ call = "answered"

\* All calls, and all results, of a conversation.
AllCalls(ms) == FlattenSeq([i \in DOMAIN ms |-> CallsOf(ms[i])])
AllResults(ms) == FlattenSeq([i \in DOMAIN ms |-> ResultsOf(ms[i])])

Tells(st, cs, rs) ==
    /\ Len(st) = Len(rs) /\ Len(st) <= Len(cs)
    /\ \A i \in 1 .. Len(st) : /\ st[i].tool = cs[i].name /\ st[i].command = cs[i].command
                               /\ st[i].isError = rs[i].isError

\* The calls not yet told of in steps are those that are pending.
TellsInv ==
    /\ Tells(steps, AllCalls(messages), AllResults(messages) \o parts)
    /\ Len(AllCalls(messages)) = Len(steps) + Len(pending)
    /\ \A j \in 1 .. Len(pending) : AllCalls(messages)[Len(steps) + j] = pending[j]

Answered(cs, rs) == Len(cs) = Len(rs) /\ \A j \in DOMAIN cs : rs[j].id = cs[j].id

\* Of the calls of a turn, those that rs answers and those that remain.
Progress(cs, rs, remain) ==
    /\ Len(cs) = Len(rs) + Len(remain)
    /\ \A j \in 1 .. Len(rs) : rs[j].id = cs[j].id
    /\ \A j \in 1 .. Len(remain) : remain[j].id = cs[Len(rs) + j].id

WireOf(ms) == FlattenSeq([i \in DOMAIN ms |-> OllamaMessages(ms[i])])

\* Every message of w is followed by its results, but for k that have yet to come.
WireFits(w, k) ==
    \A i \in 1 .. Len(w) :
        /\ w[i].calls \in Nat /\ i + w[i].calls <= Len(w) + k
        /\ \A j \in i + 1 .. i + w[i].calls : j <= Len(w) => w[j].role = "tool"

\* The j-th call of turn i is numbered by its place in the response, and by the
\* round too if the remote model made it.
NumberedAs(id, i, j) == id = <<0, j>> \/ \E r \in Nat \ {0} : i = 2 * r /\ id = <<r, j>>

Numbered(ms) ==
    \A i \in 1 .. Len(ms) : \A j \in 1 .. Len(CallsOf(ms[i])) : NumberedAs(CallsOf(ms[i])[j].id, i, j)

FitsInv ==
    phase = "running" =>
        /\ Len(messages) = (IF Settled THEN 2 * round + 1 ELSE 2 * round + 2)
        /\ \A i \in 1 .. Len(messages) : messages[i].role = IF i % 2 = 1 THEN "user" ELSE "assistant"
        /\ \A i \in 1 .. Len(messages) - 1 : Answered(CallsOf(messages[i]), ResultsOf(messages[i + 1]))
        /\ Progress(CallsOf(messages[Len(messages)]), parts, pending)
        /\ WireFits(WireOf(messages), Len(CallsOf(messages[Len(messages)])))
        /\ Numbered(messages)

\* The three kinds of turn, and what is read off each.
LEMMA Types ==
    /\ \A c \in PossibleCalls : c.type = "tool_use"
    /\ \A r \in ResultParts : r.type = "tool_result"
    /\ TextPart.type = "text"
BY DEF PossibleCalls, ResultParts, TextPart, Call, ToolResultPart

LEMMA TextTurn ==
    LET m == Turn("user", <<TextPart>>)
    IN  /\ m \in Turns /\ m.role = "user" /\ CallsOf(m) = <<>> /\ ResultsOf(m) = <<>>
        /\ OllamaMessages(m) = <<[role |-> "user", calls |-> 0]>>
<1> DEFINE m == Turn("user", <<TextPart>>)
<1>1. /\ m.role = "user" /\ m.content = <<TextPart>> /\ m.content \in Seq(Contents)
      /\ m \in [role : {"user", "assistant"}, content : Seq(Contents)]
  BY DEF Turn, Contents
<1>2. Len(m.content) = 1 /\ m.content[1].type = "text"
  BY <1>1, Types
<1> HIDE DEF m
<1>3. CallsOf(m) = SubSeq(m.content, 2, 1)
  <2>1. 1 \in 0 .. Len(m.content) /\ \A i \in 1 .. Len(m.content) : m.content[i].type \in {"tool_use"} <=> i > 1
    BY <1>2
  <2>2. PartsOf(m, {"tool_use"}) = SubSeq(m.content, 1 + 1, Len(m.content))
    BY <1>1, <2>1, PartsAreTheRest
  <2> QED BY <1>2, <2>2 DEF CallsOf
<1>4. ResultsOf(m) = SubSeq(m.content, 2, 1)
  <2>1. 1 \in 0 .. Len(m.content) /\ \A i \in 1 .. Len(m.content) : m.content[i].type \in {"tool_result"} <=> i > 1
    BY <1>2
  <2>2. PartsOf(m, {"tool_result"}) = SubSeq(m.content, 1 + 1, Len(m.content))
    BY <1>1, <2>1, PartsAreTheRest
  <2> QED BY <1>2, <2>2 DEF ResultsOf
<1>5. CallsOf(m) = <<>> /\ ResultsOf(m) = <<>>
  BY <1>3, <1>4, SubSeqEmpty
<1>6. OllamaMessages(m) = <<[role |-> "user", calls |-> 0]>>
  <2> DEFINE w == [role |-> m.role, calls |-> Len(CallsOf(m))]
  <2>1. OllamaMessages(m) = <<w>> \o <<>>
    BY <1>5 DEF OllamaMessages
  <2>2. w = [role |-> "user", calls |-> 0]
    BY <1>1, <1>5
  <2> HIDE DEF w
  <2>3. <<w>> \o <<>> = <<w>>
    OBVIOUS
  <2> QED BY <2>1, <2>2, <2>3
<1>7. OllamaMessages(m) \in Seq(WireMessages)
  BY <1>6 DEF WireMessages
<1>8. m \in Turns
  BY <1>1, <1>5, <1>7 DEF Turns
<1> QED BY <1>1, <1>5, <1>6, <1>8 DEF m

LEMMA AnswerTurn ==
    ASSUME NEW text \in BOOLEAN, NEW cs \in Seq(PossibleCalls)
    PROVE  LET m == Turn("assistant", (IF text THEN <<TextPart>> ELSE <<>>) \o cs)
           IN  /\ m \in Turns /\ m.role = "assistant" /\ CallsOf(m) = cs /\ ResultsOf(m) = <<>>
               /\ OllamaMessages(m) = <<[role |-> "assistant", calls |-> Len(cs)]>>
<1> DEFINE ps == (IF text THEN <<TextPart>> ELSE <<>>) \o cs
           m == Turn("assistant", ps)
           n == IF text THEN 1 ELSE 0
<1>1. /\ ps \in Seq(Contents) /\ Len(ps) = n + Len(cs) /\ Len(cs) \in Nat /\ n \in {0, 1}
      /\ \A i \in 1 .. Len(cs) : ps[n + i] = cs[i]
      /\ n = 1 => ps[1] = TextPart
  <2>0. cs \in Seq(Contents) /\ <<TextPart>> \in Seq(Contents) /\ \A i \in 1 .. Len(cs) : cs[i] \in PossibleCalls
    BY DEF Contents
  <2>1. CASE text
    BY <2>0, <2>1
  <2>2. CASE ~text
    BY <2>0, <2>2
  <2> QED BY <2>1, <2>2
<1>2. m.role = "assistant" /\ m.content = ps /\ m \in [role : {"user", "assistant"}, content : Seq(Contents)]
  <2> HIDE DEF ps
  <2> QED BY <1>1 DEF Turn
<1> HIDE DEF m, ps, n
<1>3. \A i \in 1 .. Len(ps) : /\ i > n => ps[i].type = "tool_use"
                              /\ ~(i > n) => ps[i].type = "text"
  <2> SUFFICES ASSUME NEW i \in 1 .. Len(ps)
               PROVE  (i > n => ps[i].type = "tool_use") /\ (~(i > n) => ps[i].type = "text")
    OBVIOUS
  <2>1. CASE i > n
    <3>1. PICK j \in 1 .. Len(cs) : i = n + j
      <4>1. i - n \in 1 .. Len(cs) /\ i = n + (i - n)
        BY <1>1, <2>1
      <4> QED BY <4>1
    <3>2. ps[i] = cs[j] /\ cs[j] \in PossibleCalls
      BY <1>1, <3>1
    <3> QED BY <2>1, <3>2, Types
  <2>2. CASE ~(i > n)
    <3>1. n = 1 /\ i = 1
      BY <1>1, <2>2
    <3> QED BY <1>1, <2>2, <3>1, Types
  <2> QED BY <2>1, <2>2
<1>4. CallsOf(m) = SubSeq(ps, n + 1, Len(ps))
  <2>1. \A i \in 1 .. Len(ps) : ps[i].type \in {"tool_use"} <=> i > n
    BY <1>3
  <2>2. n \in 0 .. Len(ps)
    BY <1>1
  <2> QED BY <1>1, <1>2, <2>1, <2>2, PartsAreTheRest DEF CallsOf
<1>5. ResultsOf(m) = SubSeq(ps, Len(ps) + 1, Len(ps))
  <2>1. \A i \in 1 .. Len(ps) : ps[i].type \in {"tool_result"} <=> i > Len(ps)
    BY <1>1, <1>3
  <2>2. Len(ps) \in 0 .. Len(ps)
    BY <1>1
  <2> QED BY <1>1, <1>2, <2>1, <2>2, PartsAreTheRest DEF ResultsOf
<1>6. PartsOf(m, {"text", "tool_use"}) = SubSeq(ps, 1, Len(ps))
  <2>1. \A i \in 1 .. Len(ps) : ps[i].type \in {"text", "tool_use"} <=> i > 0
    BY <1>1, <1>3
  <2>2. 0 \in 0 .. Len(ps)
    BY <1>1
  <2>3. PartsOf(m, {"text", "tool_use"}) = SubSeq(ps, 0 + 1, Len(ps))
    BY <1>1, <1>2, <2>1, <2>2, PartsAreTheRest
  <2> QED BY <2>3
<1>7. CallsOf(m) = cs /\ ResultsOf(m) = <<>>
  <2>1. ResultsOf(m) = <<>>
    BY <1>1, <1>5, SubSeqEmpty
  <2>2. SubSeq(ps, n + 1, Len(ps)) = cs
    BY <1>1
  <2> QED BY <1>4, <2>1, <2>2
<1>8. OllamaMessages(m) = <<[role |-> "assistant", calls |-> Len(cs)]>>
  <2> DEFINE w == [role |-> m.role, calls |-> Len(CallsOf(m))]
  <2>1. OllamaMessages(m) = <<w>> \o <<>>
    BY <1>7 DEF OllamaMessages
  <2>2. w = [role |-> "assistant", calls |-> Len(cs)]
    BY <1>2, <1>7
  <2> HIDE DEF w
  <2>3. <<w>> \o <<>> = <<w>>
    OBVIOUS
  <2> QED BY <2>1, <2>2, <2>3
<1>9. OllamaMessages(m) \in Seq(WireMessages)
  BY <1>1, <1>8 DEF WireMessages
<1>10. m \in Turns
  BY <1>2, <1>7, <1>9 DEF Turns
<1> QED BY <1>2, <1>7, <1>8, <1>10 DEF m, ps

Feedback == [role |-> "tool", calls |-> 0]

LEMMA ResultsTurn ==
    ASSUME NEW rs \in Seq(ResultParts), rs # <<>>
    PROVE  LET m == Turn("user", rs)
           IN  /\ m \in Turns /\ m.role = "user" /\ CallsOf(m) = <<>> /\ ResultsOf(m) = rs
               /\ OllamaMessages(m) = [i \in 1 .. Len(rs) |-> Feedback]
<1> DEFINE m == Turn("user", rs)
<1>1. /\ m.role = "user" /\ m.content = rs /\ rs \in Seq(Contents) /\ Len(rs) \in Nat
      /\ m \in [role : {"user", "assistant"}, content : Seq(Contents)]
  BY DEF Turn, Contents
<1>2. \A i \in 1 .. Len(rs) : rs[i].type = "tool_result"
  BY Types
<1> HIDE DEF m
<1>3. CallsOf(m) = SubSeq(rs, Len(rs) + 1, Len(rs))
  <2>1. Len(rs) \in 0 .. Len(rs) /\ \A i \in 1 .. Len(rs) : rs[i].type \in {"tool_use"} <=> i > Len(rs)
    BY <1>1, <1>2
  <2> QED BY <1>1, <2>1, PartsAreTheRest DEF CallsOf
<1>4. PartsOf(m, {"text", "tool_use"}) = SubSeq(rs, Len(rs) + 1, Len(rs))
  <2>1. Len(rs) \in 0 .. Len(rs) /\ \A i \in 1 .. Len(rs) : rs[i].type \in {"text", "tool_use"} <=> i > Len(rs)
    BY <1>1, <1>2
  <2> QED BY <1>1, <2>1, PartsAreTheRest
<1>5. ResultsOf(m) = SubSeq(rs, 1, Len(rs))
  <2>1. 0 \in 0 .. Len(rs) /\ 0 + 1 = 1 /\ \A i \in 1 .. Len(rs) : rs[i].type \in {"tool_result"} <=> i > 0
    BY <1>1, <1>2
  <2> QED BY <1>1, <2>1, PartsAreTheRest DEF ResultsOf
<1>6. CallsOf(m) = <<>> /\ PartsOf(m, {"text", "tool_use"}) = <<>> /\ ResultsOf(m) = rs
  <2>1. SubSeq(rs, Len(rs) + 1, Len(rs)) = <<>>
    BY <1>1, SubSeqEmpty
  <2>2. SubSeq(rs, 1, Len(rs)) = rs
    OBVIOUS
  <2> QED BY <1>3, <1>4, <1>5, <2>1, <2>2
<1>7. OllamaMessages(m) = [i \in 1 .. Len(rs) |-> Feedback]
  <2> DEFINE w == [i \in 1 .. Len(rs) |-> Feedback]
  <2>1. OllamaMessages(m) = <<>> \o w
    BY <1>6 DEF OllamaMessages, Feedback
  <2>2. w \in Seq({Feedback})
    BY <1>1
  <2> HIDE DEF w
  <2>3. <<>> \o w = w
    BY <2>2
  <2> QED BY <2>1, <2>3 DEF w
<1>8. OllamaMessages(m) \in Seq(WireMessages)
  BY <1>1, <1>7 DEF WireMessages, Feedback
<1>9. m \in Turns
  BY <1>1, <1>6, <1>8 DEF Turns
<1> QED BY <1>1, <1>6, <1>7, <1>9 DEF m

\* What is read off a conversation that grows by a turn grows by what is read off that.
LEMMA OneTurnMore ==
    ASSUME NEW ms \in Seq(Turns), NEW m \in Turns
    PROVE  /\ AllCalls(ms) \in Seq(PossibleCalls) /\ AllCalls(Append(ms, m)) = AllCalls(ms) \o CallsOf(m)
           /\ AllResults(ms) \in Seq(ResultParts) /\ AllResults(Append(ms, m)) = AllResults(ms) \o ResultsOf(m)
           /\ WireOf(ms) \in Seq(WireMessages) /\ WireOf(Append(ms, m)) = WireOf(ms) \o OllamaMessages(m)
<1> DEFINE mm == Append(ms, m)
<1>1. /\ DOMAIN ms = 1 .. Len(ms) /\ Len(ms) \in Nat /\ DOMAIN mm = 1 .. Len(ms) + 1
      /\ \A i \in 1 .. Len(ms) : mm[i] = ms[i] /\ ms[i] \in Turns
      /\ mm[Len(ms) + 1] = m
  OBVIOUS
<1> HIDE DEF mm
<1>2. AllCalls(ms) \in Seq(PossibleCalls) /\ AllCalls(mm) = AllCalls(ms) \o CallsOf(m)
  <2> DEFINE f == [i \in DOMAIN ms |-> CallsOf(ms[i])]
             g == [i \in DOMAIN mm |-> CallsOf(mm[i])]
  <2>1. CallsOf(m) \in Seq(PossibleCalls) /\ \A i \in 1 .. Len(ms) : CallsOf(ms[i]) \in Seq(PossibleCalls)
    BY <1>1 DEF Turns
  <2>2. f \in Seq(Seq(PossibleCalls))
    BY <1>1, <2>1
  <2>3. g = Append(f, CallsOf(m))
    <3>1. /\ Len(f) = Len(ms) /\ Append(f, CallsOf(m)) \in Seq(Seq(PossibleCalls))
          /\ Len(Append(f, CallsOf(m))) = Len(ms) + 1
          /\ \A i \in 1 .. Len(ms) : Append(f, CallsOf(m))[i] = CallsOf(ms[i])
          /\ Append(f, CallsOf(m))[Len(ms) + 1] = CallsOf(m)
      BY <1>1, <2>1, <2>2
    <3>2. Append(f, CallsOf(m)) = [i \in 1 .. Len(ms) + 1 |-> Append(f, CallsOf(m))[i]]
      BY <3>1
    <3> HIDE DEF f
    <3>3. ASSUME NEW i \in 1 .. Len(ms) + 1 PROVE Append(f, CallsOf(m))[i] = CallsOf(mm[i])
      <4>1. i \in 1 .. Len(ms) \/ i = Len(ms) + 1
        BY <1>1
      <4> QED BY <1>1, <3>1, <4>1
    <3> QED BY <1>1, <3>2, <3>3
  <2> HIDE DEF f, g
  <2> QED BY <2>1, <2>2, <2>3, FlattenType, FlattenAppend DEF AllCalls, f, g
<1>3. AllResults(ms) \in Seq(ResultParts) /\ AllResults(mm) = AllResults(ms) \o ResultsOf(m)
  <2> DEFINE f == [i \in DOMAIN ms |-> ResultsOf(ms[i])]
             g == [i \in DOMAIN mm |-> ResultsOf(mm[i])]
  <2>1. ResultsOf(m) \in Seq(ResultParts) /\ \A i \in 1 .. Len(ms) : ResultsOf(ms[i]) \in Seq(ResultParts)
    BY <1>1 DEF Turns
  <2>2. f \in Seq(Seq(ResultParts))
    BY <1>1, <2>1
  <2>3. g = Append(f, ResultsOf(m))
    <3>1. /\ Len(f) = Len(ms) /\ Append(f, ResultsOf(m)) \in Seq(Seq(ResultParts))
          /\ Len(Append(f, ResultsOf(m))) = Len(ms) + 1
          /\ \A i \in 1 .. Len(ms) : Append(f, ResultsOf(m))[i] = ResultsOf(ms[i])
          /\ Append(f, ResultsOf(m))[Len(ms) + 1] = ResultsOf(m)
      BY <1>1, <2>1, <2>2
    <3>2. Append(f, ResultsOf(m)) = [i \in 1 .. Len(ms) + 1 |-> Append(f, ResultsOf(m))[i]]
      BY <3>1
    <3> HIDE DEF f
    <3>3. ASSUME NEW i \in 1 .. Len(ms) + 1 PROVE Append(f, ResultsOf(m))[i] = ResultsOf(mm[i])
      <4>1. i \in 1 .. Len(ms) \/ i = Len(ms) + 1
        BY <1>1
      <4> QED BY <1>1, <3>1, <4>1
    <3> QED BY <1>1, <3>2, <3>3
  <2> HIDE DEF f, g
  <2> QED BY <2>1, <2>2, <2>3, FlattenType, FlattenAppend DEF AllResults, f, g
<1>4. WireOf(ms) \in Seq(WireMessages) /\ WireOf(mm) = WireOf(ms) \o OllamaMessages(m)
  <2> DEFINE f == [i \in DOMAIN ms |-> OllamaMessages(ms[i])]
             g == [i \in DOMAIN mm |-> OllamaMessages(mm[i])]
  <2>1. OllamaMessages(m) \in Seq(WireMessages) /\ \A i \in 1 .. Len(ms) : OllamaMessages(ms[i]) \in Seq(WireMessages)
    BY <1>1 DEF Turns
  <2>2. f \in Seq(Seq(WireMessages))
    BY <1>1, <2>1
  <2>3. g = Append(f, OllamaMessages(m))
    <3>1. /\ Len(f) = Len(ms) /\ Append(f, OllamaMessages(m)) \in Seq(Seq(WireMessages))
          /\ Len(Append(f, OllamaMessages(m))) = Len(ms) + 1
          /\ \A i \in 1 .. Len(ms) : Append(f, OllamaMessages(m))[i] = OllamaMessages(ms[i])
          /\ Append(f, OllamaMessages(m))[Len(ms) + 1] = OllamaMessages(m)
      BY <1>1, <2>1, <2>2
    <3>2. Append(f, OllamaMessages(m)) = [i \in 1 .. Len(ms) + 1 |-> Append(f, OllamaMessages(m))[i]]
      BY <3>1
    <3> HIDE DEF f
    <3>3. ASSUME NEW i \in 1 .. Len(ms) + 1 PROVE Append(f, OllamaMessages(m))[i] = OllamaMessages(mm[i])
      <4>1. i \in 1 .. Len(ms) \/ i = Len(ms) + 1
        BY <1>1
      <4> QED BY <1>1, <3>1, <4>1
    <3> QED BY <1>1, <3>2, <3>3
  <2> HIDE DEF f, g
  <2> QED BY <2>1, <2>2, <2>3, FlattenType, FlattenAppend DEF WireOf, f, g
<1> QED BY <1>2, <1>3, <1>4 DEF mm

LEMMA CTInit == Init => CompletionTypeOK
<1> SUFFICES ASSUME Init PROVE CompletionTypeOK
  OBVIOUS
<1>1. CInv
  BY CInit
<1>2. retrying \in BOOLEAN /\ expired \in BOOLEAN /\ lastUsedLocal \in BOOLEAN
  BY DEF Init, CompletionInit
<1> QED BY <1>1, <1>2 DEF CInv, CompletionTypeOK

LEMMA CTStep == CompletionTypeOK /\ CInv' /\ [Next]_vars => CompletionTypeOK'
<1> SUFFICES ASSUME CompletionTypeOK, CInv', [Next]_vars PROVE CompletionTypeOK'
  OBVIOUS
<1>1. /\ hybrid' \in BOOLEAN /\ side' \in Sides /\ call' \in {"asking", "waiting", "answered", "failed"}
      /\ attempts' \in [Kinds -> Nat] /\ asked' \in [Sides -> Nat]
  BY DEF CInv
<1>2. ASSUME Asks PROVE retrying' \in BOOLEAN /\ expired' \in BOOLEAN /\ lastUsedLocal' \in BOOLEAN
  BY <1>2 DEF Asks, Completing, AskAnswered, AskFails, WaitEnds, WaitCut, Retry, GiveUp, CompletionTypeOK
<1>3. ASSUME Tools \/ Advances \/ Expire \/ UNCHANGED vars
      PROVE  retrying' \in BOOLEAN /\ expired' \in BOOLEAN /\ lastUsedLocal' \in BOOLEAN
  BY <1>3
  DEF Tools, ExecuteTool, Advances, Spawn, ModelFails, Responded, RoundEnds, Expire, Begin, vars,
      completionVars, CompletionTypeOK
<1> QED BY <1>1, <1>2, <1>3 DEF Next, CompletionTypeOK

\* What the model called, as the calls it makes of it.
LEMMA Called ==
    ASSUME NEW n \in Requests, round \in Nat
    PROVE  ToolCalls(n) \in Seq(PossibleCalls) /\ Len(ToolCalls(n)) <= MaxCalls
           /\ (n = <<>> <=> ToolCalls(n) = <<>>)
<1>1. PICK k \in 0 .. MaxCalls : n \in [1 .. k -> Invocations]
  BY DEF Requests
<1>2. k \in Nat /\ k <= MaxCalls
  BY <1>1, AgentAssumption
<1>3. ASSUME NEW i \in 1 .. k
      PROVE  Call(IF side = "local" THEN <<0, i>> ELSE <<round + 1, i>>, n[i]) \in PossibleCalls
  <2> DEFINE id == IF side = "local" THEN <<0, i>> ELSE <<round + 1, i>>
  <2>1. id \in Nat \X Nat /\ n[i] \in Invocations
    BY <1>1, <1>2
  <2> HIDE DEF id
  <2>2. Call(id, n[i]) \in PossibleCalls
    BY <2>1 DEF PossibleCalls
  <2> QED BY <2>2 DEF id
<1>4. ToolCalls(n) \in [1 .. k -> PossibleCalls]
  BY <1>1, <1>3 DEF ToolCalls
<1>5. ToolCalls(n) \in Seq(PossibleCalls) /\ Len(ToolCalls(n)) = k
  BY <1>2, <1>4
<1>6. n \in Seq(Invocations) /\ Len(n) = k
  BY <1>1, <1>2
<1> QED BY <1>2, <1>5, <1>6

\* The head of what is pending, and the result it gets.
LEMMA Executed ==
    ASSUME SInv, RInv, NEW failed \in BOOLEAN, ExecuteTool(failed)
    PROVE  \E c \in PossibleCalls, b \in BOOLEAN :
              /\ c = Head(pending) /\ pending' = Tail(pending) /\ pending # <<>>
              /\ parts' = Append(parts, ToolResultPart(c.id, b))
              /\ ToolResultPart(c.id, b) \in ResultParts
              /\ steps' = Append(steps, [tool |-> c.name, command |-> c.command, isError |-> b])
              /\ c.id \in Nat \X Nat
<1> DEFINE c == Head(pending)
           b == Fails(c, failed)
<1>1. c \in PossibleCalls /\ pending # <<>>
  BY DEF SInv, ExecuteTool
<1>2. b \in BOOLEAN
  BY DEF Fails, Accepts
<1>3. c.id \in Nat \X Nat
  <2>1. PICK id \in Nat \X Nat, i \in Invocations : c = Call(id, i)
    BY <1>1 DEF PossibleCalls
  <2> HIDE DEF c
  <2> QED BY <2>1 DEF Call
<1>4. /\ pending' = Tail(pending)
      /\ parts' = Append(parts, ToolResultPart(c.id, b))
      /\ steps' = Append(steps, [tool |-> c.name, command |-> c.command, isError |-> b])
  BY DEF ExecuteTool
<1> HIDE DEF c, b
<1>5. ToolResultPart(c.id, b) \in ResultParts
  BY <1>2, <1>3 DEF ResultParts
<1> QED BY <1>1, <1>2, <1>3, <1>4, <1>5 DEF c

LEMMA RInit == Init => RInv
<1> SUFFICES ASSUME Init PROVE RInv
  OBVIOUS
<1>1. earlier \subseteq Commands
  BY DEF Init, SchedulerInit, ToSet
<1> QED BY <1>1, CTInit, AgentAssumption DEF Init, NoRun, RInv, Settled

LEMMA RElsewhere ==
    ASSUME SInv, RInv, CompletionTypeOK', earlier' = earlier, UNCHANGED runVars, call' = call \/ Settled
    PROVE  RInv'
  BY DEF RInv, runVars, Settled, NoRun

LEMMA RSpawn == ASSUME SInv, RInv, CompletionTypeOK', Spawn PROVE RInv'
<1>1. NoRun
  BY DEF RInv, Spawn
<1>2. Turn("user", <<TextPart>>) \in Turns
  BY TextTurn
<1>3. messages' \in Seq(Turns)
  BY <1>2 DEF Spawn
<1> QED BY <1>1, <1>3, AgentAssumption DEF RInv, Spawn, NoRun, Settled, schedulerVars

LEMMA RModelFails == ASSUME SInv, RInv, CompletionTypeOK', ModelFails PROVE RInv'
<1>1. Settled
  BY DEF RInv, ModelFails
<1>2. result' \in [success : BOOLEAN, steps : {steps}, text : {lastText}]
  BY DEF ModelFails, End
<1> QED BY <1>1, <1>2 DEF RInv, ModelFails, End, Settled

LEMMA RResponded ==
    ASSUME SInv, RInv, CompletionTypeOK', NEW n \in Requests, NEW t \in BOOLEAN, Responded(n, t)
    PROVE  RInv'
<1>1. /\ phase = "running" /\ round \in Nat /\ round < maxToolIterations /\ maxToolIterations \in Nat
      /\ messages \in Seq(Turns) /\ pending = <<>> /\ parts = <<>> /\ result = Nothing
      /\ call = "answered" /\ call' = call /\ parts' = parts /\ round' = round /\ steps' = steps
      /\ earlier' = earlier
  BY AgentAssumption DEF RInv, Responded, completionVars
<1>2. ToolCalls(n) \in Seq(PossibleCalls) /\ Len(ToolCalls(n)) <= MaxCalls /\ (n = <<>> <=> ToolCalls(n) = <<>>)
  BY <1>1, Called
<1>3. messages' \in Seq(Turns)
  <2> DEFINE m == Turn("assistant", (IF t THEN <<TextPart>> ELSE <<>>) \o ToolCalls(n))
  <2>1. m \in Turns
    BY <1>2, AnswerTurn
  <2>2. messages' = Append(messages, m)
    BY DEF Responded
  <2> HIDE DEF m
  <2> QED BY <1>1, <2>1, <2>2
<1>4. lastText' \in 0 .. maxToolIterations
  BY <1>1 DEF Responded, RInv
<1>5. pending' = ToolCalls(n) /\ Len(pending') + Len(parts') <= MaxCalls
  BY <1>1, <1>2, AgentAssumption DEF Responded
<1>6. CASE n = <<>>
  <2>1. phase' = "ended" /\ result' \in [success : BOOLEAN, steps : {steps'}, text : {lastText'}]
    <3>1. phase' = "ended" /\ result' = [success |-> TRUE, steps |-> steps', text |-> lastText']
      BY <1>6, <1>1 DEF Responded, End
    <3> QED BY <3>1
  <2>2. Settled'
    BY <1>1, <1>2, <1>5, <1>6 DEF Settled
  <2> QED BY <1>1, <1>3, <1>4, <1>5, <2>1, <2>2 DEF RInv
<1>7. CASE n # <<>>
  <2>1. phase' = phase /\ result' = result
    BY <1>7 DEF Responded
  <2> QED BY <1>1, <1>3, <1>4, <1>5, <2>1 DEF RInv
<1> QED BY <1>6, <1>7

LEMMA RTool ==
    ASSUME SInv, RInv, CompletionTypeOK', NEW failed \in BOOLEAN, ExecuteTool(failed)
    PROVE  RInv'
<1>1. PICK c \in PossibleCalls, b \in BOOLEAN :
         /\ pending' = Tail(pending) /\ pending # <<>>
         /\ parts' = Append(parts, ToolResultPart(c.id, b)) /\ ToolResultPart(c.id, b) \in ResultParts
  BY Executed
<1>2. pending \in Seq(PossibleCalls) /\ parts \in Seq(ResultParts) /\ Len(pending) + Len(parts) <= MaxCalls
  BY DEF SInv, RInv
<1>3. /\ parts' \in Seq(ResultParts) /\ Len(parts') = Len(parts) + 1 /\ Len(pending') = Len(pending) - 1
      /\ Len(parts) \in Nat /\ Len(pending) \in Nat
  BY <1>1, <1>2
<1>4. Len(pending') + Len(parts') <= MaxCalls
  BY <1>2, <1>3
<1>5. phase = "running" /\ call = "answered"
  BY <1>1 DEF RInv, Settled
<1> QED BY <1>3, <1>4, <1>5 DEF RInv, ExecuteTool, completionVars

LEMMA RRoundEnds == ASSUME SInv, RInv, CompletionTypeOK', RoundEnds PROVE RInv'
<1>1. /\ pending = <<>> /\ parts # <<>> /\ phase = "running" /\ parts \in Seq(ResultParts)
      /\ messages \in Seq(Turns) /\ round \in Nat /\ round < maxToolIterations /\ maxToolIterations \in Nat
  BY AgentAssumption DEF RInv, RoundEnds, Settled
<1>2. Turn("user", parts) \in Turns
  BY <1>1, ResultsTurn
<1>3. messages' \in Seq(Turns)
  BY <1>1, <1>2 DEF RoundEnds
<1>4. Settled' /\ parts' \in Seq(ResultParts) /\ Len(pending') + Len(parts') <= MaxCalls
  BY <1>1, AgentAssumption DEF RoundEnds, Settled
<1>5. round' \in 0 .. maxToolIterations
  BY <1>1 DEF RoundEnds
<1>6. CASE round + 1 < maxToolIterations
  BY <1>1, <1>3, <1>4, <1>5, <1>6 DEF RInv, RoundEnds
<1>7. CASE ~(round + 1 < maxToolIterations)
  <2>1. phase' = "ended" /\ result' \in [success : BOOLEAN, steps : {steps'}, text : {lastText'}]
    <3>1. phase' = "ended" /\ result' = [success |-> TRUE, steps |-> steps', text |-> lastText']
      BY <1>7 DEF RoundEnds, End
    <3> QED BY <3>1
  <2> QED BY <1>1, <1>3, <1>4, <1>5, <2>1 DEF RInv, RoundEnds
<1> QED BY <1>6, <1>7

LEMMA RStep == SInv /\ RInv /\ CInv' /\ [Next]_vars => RInv'
<1> SUFFICES ASSUME SInv, RInv, CInv', [Next]_vars PROVE RInv'
  OBVIOUS
<1>0. CompletionTypeOK'
  BY CTStep DEF RInv
<1>1. ASSUME Asks PROVE RInv'
  <2>1. call # "answered"
    BY <1>1 DEF Asks, Completing, AskAnswered, AskFails, WaitEnds, WaitCut
  <2>2. Settled /\ UNCHANGED runVars /\ earlier' = earlier
    BY <1>1, <2>1 DEF Asks, RInv
  <2> QED BY <1>0, <2>2, RElsewhere
<1>2. ASSUME Expire \/ UNCHANGED vars PROVE RInv'
  <2>1. UNCHANGED runVars /\ earlier' = earlier /\ call' = call
    BY <1>2 DEF Expire, vars, completionVars
  <2> QED BY <1>0, <2>1, RElsewhere
<1> QED
  BY <1>0, <1>1, <1>2, RSpawn, RModelFails, RResponded, RTool, RRoundEnds DEF Next, Tools, Advances

\* The state of the run has the types it should have: a round is never begun beyond the
\* limit, no more is executed or fed back than was called, and the result, once given,
\* is not overtaken by a later step.
THEOREM TypeCorrect == Spec => []TypeOK
<1>1. SInv /\ RInv => TypeOK
  BY DEF SInv, RInv, TypeOK, Step
<1> QED BY CInit, CStep, SInit, SStep, RInit, RStep, <1>1, PTL DEF Spec

-----------------------------------------------------------------------------
(* What the steps tell of the conversation.                                 *)

LEMMA MoreCalls ==
    ASSUME NEW st \in Seq(Step), NEW cs \in Seq(PossibleCalls), NEW rs, Tells(st, cs, rs),
           Len(cs) = Len(st), NEW more \in Seq(PossibleCalls)
    PROVE  /\ Tells(st, cs \o more, rs) /\ Len(cs \o more) = Len(st) + Len(more)
           /\ \A j \in 1 .. Len(more) : (cs \o more)[Len(st) + j] = more[j]
<1>1. /\ Len(cs \o more) = Len(cs) + Len(more) /\ Len(cs) \in Nat /\ Len(more) \in Nat
      /\ \A i \in 1 .. Len(cs) : (cs \o more)[i] = cs[i]
      /\ \A j \in 1 .. Len(more) : (cs \o more)[Len(cs) + j] = more[j]
  OBVIOUS
<1> QED BY <1>1 DEF Tells

LEMMA OneStepMore ==
    ASSUME NEW st \in Seq(Step), NEW cs \in Seq(PossibleCalls), NEW rs \in Seq(ResultParts),
           NEW remain \in Seq(PossibleCalls), remain # <<>>, Tells(st, cs, rs),
           Len(cs) = Len(st) + Len(remain), \A j \in 1 .. Len(remain) : cs[Len(st) + j] = remain[j],
           NEW x \in Step, x.tool = Head(remain).name, x.command = Head(remain).command,
           NEW r \in ResultParts, r.isError = x.isError
    PROVE  /\ Tells(Append(st, x), cs, Append(rs, r))
           /\ Len(cs) = Len(Append(st, x)) + Len(Tail(remain))
           /\ \A j \in 1 .. Len(Tail(remain)) : cs[Len(Append(st, x)) + j] = Tail(remain)[j]
<1>1. /\ Len(st) \in Nat /\ Len(rs) = Len(st) /\ Len(Append(st, x)) = Len(st) + 1
      /\ Len(Append(rs, r)) = Len(st) + 1 /\ Len(remain) \in Nat \ {0}
      /\ \A i \in 1 .. Len(st) : Append(st, x)[i] = st[i] /\ Append(rs, r)[i] = rs[i]
      /\ Append(st, x)[Len(st) + 1] = x /\ Append(rs, r)[Len(st) + 1] = r
  BY DEF Tells
<1>2. /\ Len(Tail(remain)) = Len(remain) - 1 /\ Head(remain) = remain[1]
      /\ \A j \in 1 .. Len(Tail(remain)) : Tail(remain)[j] = remain[j + 1]
  OBVIOUS
<1>3. cs[Len(st) + 1] = Head(remain)
  BY <1>1, <1>2
<1>4. Tells(Append(st, x), cs, Append(rs, r))
  <2> SUFFICES ASSUME NEW i \in 1 .. Len(st) + 1
               PROVE  LET st2 == Append(st, x) IN
                      /\ st2[i].tool = cs[i].name /\ st2[i].command = cs[i].command
                      /\ st2[i].isError = Append(rs, r)[i].isError
    BY <1>1 DEF Tells
  <2>1. CASE i \in 1 .. Len(st)
    BY <1>1, <2>1 DEF Tells
  <2>2. CASE i = Len(st) + 1
    BY <1>1, <1>3, <2>2
  <2> QED BY <1>1, <2>1, <2>2
<1>5. ASSUME NEW j \in 1 .. Len(Tail(remain))
      PROVE  cs[Len(Append(st, x)) + j] = Tail(remain)[j]
  <2>1. PICK k : k = j + 1
    OBVIOUS
  <2>2. k \in 1 .. Len(remain) /\ Len(Append(st, x)) + j = Len(st) + k /\ Tail(remain)[j] = remain[k]
    BY <1>1, <1>2, <2>1
  <2> QED BY <2>2
<1> QED BY <1>1, <1>2, <1>4, <1>5

\* The state that TellsInv speaks of.
Telling(ms, st, pe, pa) ==
    /\ Tells(st, AllCalls(ms), AllResults(ms) \o pa)
    /\ Len(AllCalls(ms)) = Len(st) + Len(pe)
    /\ \A j \in 1 .. Len(pe) : AllCalls(ms)[Len(st) + j] = pe[j]

LEMMA TellsInit == Init => TellsInv
<1> SUFFICES ASSUME Init PROVE TellsInv
  OBVIOUS
<1>1. messages = <<>> /\ pending = <<>> /\ parts = <<>> /\ steps = <<>>
  BY DEF Init, NoRun
<1>2. AllCalls(<<>>) = <<>> /\ AllResults(<<>>) = <<>>
  <2>1. [i \in DOMAIN <<>> |-> CallsOf(<<>>[i])] = <<>> /\ [i \in DOMAIN <<>> |-> ResultsOf(<<>>[i])] = <<>>
    OBVIOUS
  <2>2. FlattenSeq(<<>>) = <<>>
    BY DEF FlattenSeq
  <2> QED BY <2>1, <2>2 DEF AllCalls, AllResults
<1>3. Telling(<<>>, <<>>, <<>>, <<>>)
  BY <1>2 DEF Telling, Tells
<1> QED BY <1>1, <1>3 DEF TellsInv, Telling

LEMMA TellsStep == SInv /\ SInv' /\ RInv /\ TellsInv /\ [Next]_vars => TellsInv'
<1> SUFFICES ASSUME SInv, SInv', RInv, TellsInv, [Next]_vars
             PROVE  Telling(messages', steps', pending', parts')
  BY DEF TellsInv, Telling
<1>0. /\ messages \in Seq(Turns) /\ steps \in Seq(Step) /\ pending \in Seq(PossibleCalls)
      /\ parts \in Seq(ResultParts) /\ round \in Nat
      /\ Telling(messages, steps, pending, parts)
  BY DEF SInv, RInv, TellsInv, Telling
<1>1. ASSUME UNCHANGED <<messages, steps, pending, parts>>
      PROVE  Telling(messages', steps', pending', parts')
  BY <1>0, <1>1
<1>2. AllCalls(messages) \in Seq(PossibleCalls) /\ AllResults(messages) \in Seq(ResultParts)
  BY <1>0, TextTurn, OneTurnMore
<1>3. ASSUME Spawn PROVE Telling(messages', steps', pending', parts')
  <2> DEFINE m == Turn("user", <<TextPart>>)
  <2>1. m \in Turns /\ CallsOf(m) = <<>> /\ ResultsOf(m) = <<>>
    BY TextTurn
  <2>2. messages = <<>> /\ messages' = <<m>> /\ steps' = steps /\ pending' = pending /\ parts' = parts
    BY <1>3 DEF RInv, NoRun, Spawn
  <2> HIDE DEF m
  <2>3. messages' = Append(messages, m)
    BY <2>2
  <2>4. AllCalls(messages') = AllCalls(messages) /\ AllResults(messages') = AllResults(messages)
    <3>1. AllCalls(messages') = AllCalls(messages) \o <<>> /\ AllResults(messages') = AllResults(messages) \o <<>>
      BY <1>0, <2>1, <2>3, OneTurnMore
    <3> QED BY <1>2, <3>1
  <2> QED BY <1>0, <2>2, <2>4 DEF Telling
<1>4. ASSUME NEW n \in Requests, NEW t \in BOOLEAN, Responded(n, t)
      PROVE  Telling(messages', steps', pending', parts')
  <2> DEFINE cs == ToolCalls(n)
             m == Turn("assistant", (IF t THEN <<TextPart>> ELSE <<>>) \o cs)
  <2>1. cs \in Seq(PossibleCalls)
    BY <1>0, Called
  <2>2. m \in Turns /\ CallsOf(m) = cs /\ ResultsOf(m) = <<>>
    BY <2>1, AnswerTurn
  <2>3. /\ messages' = Append(messages, m) /\ steps' = steps /\ pending = <<>> /\ pending' = cs
        /\ parts = <<>> /\ parts' = parts
    BY <1>4 DEF Responded
  <2> HIDE DEF m, cs
  <2>4. AllCalls(messages') = AllCalls(messages) \o cs /\ AllResults(messages') = AllResults(messages)
    <3>1. AllCalls(messages') = AllCalls(messages) \o cs /\ AllResults(messages') = AllResults(messages) \o <<>>
      BY <1>0, <2>2, <2>3, OneTurnMore
    <3> QED BY <1>2, <3>1
  <2>5. Len(AllCalls(messages)) = Len(steps) /\ Tells(steps, AllCalls(messages), AllResults(messages) \o parts)
    BY <1>0, <2>3 DEF Telling
  <2>6. /\ Tells(steps, AllCalls(messages) \o cs, AllResults(messages) \o parts)
        /\ Len(AllCalls(messages) \o cs) = Len(steps) + Len(cs)
        /\ \A j \in 1 .. Len(cs) : (AllCalls(messages) \o cs)[Len(steps) + j] = cs[j]
    BY <1>0, <1>2, <2>1, <2>5, MoreCalls
  <2> QED BY <2>3, <2>4, <2>6 DEF Telling
<1>5. ASSUME NEW failed \in BOOLEAN, ExecuteTool(failed)
      PROVE  Telling(messages', steps', pending', parts')
  <2>1. PICK c \in PossibleCalls, b \in BOOLEAN :
              /\ c = Head(pending) /\ pending' = Tail(pending) /\ pending # <<>>
              /\ parts' = Append(parts, ToolResultPart(c.id, b))
              /\ ToolResultPart(c.id, b) \in ResultParts
              /\ steps' = Append(steps, [tool |-> c.name, command |-> c.command, isError |-> b])
    BY <1>5, Executed
  <2> DEFINE r == ToolResultPart(c.id, b)
             x == [tool |-> c.name, command |-> c.command, isError |-> b]
             rs == AllResults(messages) \o parts
  <2>2. messages' = messages
    BY <1>5 DEF ExecuteTool
  <2>3. r.isError = b /\ x.isError = b /\ x.tool = c.name /\ x.command = c.command
    BY DEF ToolResultPart
  <2>4. x \in Step
    <3>1. steps' \in Seq(Step) /\ steps' = Append(steps, x)
      BY <2>1 DEF SInv
    <3> HIDE DEF x
    <3>2. Append(steps, x)[Len(steps) + 1] = x /\ Len(steps) + 1 \in 1 .. Len(Append(steps, x))
      BY <1>0
    <3>3. \A i \in 1 .. Len(steps') : steps'[i] \in Step
      BY <3>1
    <3> QED BY <3>1, <3>2, <3>3
  <2>5. rs \in Seq(ResultParts) /\ AllResults(messages) \o parts' = Append(rs, r)
    BY <1>0, <1>2, <2>1
  <2>6. r \in ResultParts
    BY <2>1
  <2> HIDE DEF r, x, rs
  <2>7. /\ Tells(steps, AllCalls(messages), rs) /\ Len(AllCalls(messages)) = Len(steps) + Len(pending)
        /\ \A j \in 1 .. Len(pending) : AllCalls(messages)[Len(steps) + j] = pending[j]
    BY <1>0 DEF Telling, rs
  <2>8. /\ Tells(Append(steps, x), AllCalls(messages), Append(rs, r))
        /\ Len(AllCalls(messages)) = Len(Append(steps, x)) + Len(Tail(pending))
        /\ \A j \in 1 .. Len(Tail(pending)) :
              AllCalls(messages)[Len(Append(steps, x)) + j] = Tail(pending)[j]
    <3> DEFINE cs == AllCalls(messages)
    <3>1. /\ steps \in Seq(Step) /\ cs \in Seq(PossibleCalls) /\ rs \in Seq(ResultParts)
          /\ pending \in Seq(PossibleCalls) /\ x \in Step /\ r \in ResultParts
      BY <1>0, <1>2, <2>4, <2>5, <2>6
    <3>2. pending # <<>> /\ x.tool = Head(pending).name /\ x.command = Head(pending).command /\ r.isError = x.isError
      BY <2>1, <2>3
    <3>3. /\ Tells(steps, cs, rs) /\ Len(cs) = Len(steps) + Len(pending)
          /\ \A j \in 1 .. Len(pending) : cs[Len(steps) + j] = pending[j]
      BY <2>7
    <3> HIDE DEF cs
    <3>4. /\ Tells(Append(steps, x), cs, Append(rs, r))
          /\ Len(cs) = Len(Append(steps, x)) + Len(Tail(pending))
          /\ \A j \in 1 .. Len(Tail(pending)) : cs[Len(Append(steps, x)) + j] = Tail(pending)[j]
      BY <3>1, <3>2, <3>3, OneStepMore
    <3> QED BY <3>4 DEF cs
  <2>9. steps' = Append(steps, x) /\ pending' = Tail(pending)
    BY <2>1 DEF x
  <2> QED BY <2>2, <2>5, <2>8, <2>9 DEF Telling
<1>6. ASSUME RoundEnds PROVE Telling(messages', steps', pending', parts')
  <2> DEFINE m == Turn("user", parts)
  <2>1. parts # <<>> /\ messages' = Append(messages, m) /\ steps' = steps /\ pending' = pending /\ parts' = <<>>
    BY <1>6 DEF RoundEnds
  <2>2. m \in Turns /\ CallsOf(m) = <<>> /\ ResultsOf(m) = parts
    BY <1>0, <2>1, ResultsTurn
  <2> HIDE DEF m
  <2>3. AllCalls(messages') = AllCalls(messages) /\ AllResults(messages') \o parts' = AllResults(messages) \o parts
    <3>1. AllCalls(messages') = AllCalls(messages) \o <<>> /\ AllResults(messages') = AllResults(messages) \o parts
      BY <1>0, <2>1, <2>2, OneTurnMore
    <3>2. AllResults(messages) \o parts \in Seq(ResultParts)
      BY <1>0, <1>2
    <3> QED BY <1>2, <2>1, <3>1, <3>2
  <2> QED BY <1>0, <2>1, <2>3 DEF Telling
<1> QED
  BY <1>1, <1>3, <1>4, <1>5, <1>6
  DEF Next, vars, Asks, Advances, Tools, ModelFails, Expire, runVars

\* The steps of the result are the calls of all responses with the outcomes that were
\* fed back, in order, however long the run was and whatever ended it: a failed request,
\* the last round or the model (agent.go runWithTools).
THEOREM StepsAreTheRun == Spec => []StepsTellTheRun
<1>1. SInv /\ RInv /\ TellsInv => StepsTellTheRun
  <2> SUFFICES ASSUME SInv, RInv, TellsInv, result # Nothing
               PROVE  result.steps = [i \in DOMAIN AllCalls(messages) |->
                                        [tool |-> AllCalls(messages)[i].name,
                                         command |-> AllCalls(messages)[i].command,
                                         isError |-> AllResults(messages)[i].isError]]
    BY DEF StepsTellTheRun, AllCalls, AllResults
  <2>1. phase = "ended" /\ pending = <<>> /\ parts = <<>> /\ result.steps = steps
    BY DEF RInv, Settled
  <2>2. AllCalls(messages) \in Seq(PossibleCalls) /\ AllResults(messages) \in Seq(ResultParts)
    BY TextTurn, OneTurnMore DEF RInv
  <2>3. Len(AllCalls(messages)) = Len(steps) /\ Tells(steps, AllCalls(messages), AllResults(messages))
    <3>1. AllResults(messages) \o parts = AllResults(messages)
      BY <2>1, <2>2
    <3> QED BY <2>1, <2>2, <3>1 DEF TellsInv, SInv
  <2>4. steps \in Seq(Step)
    BY DEF SInv
  <2>5. DOMAIN AllCalls(messages) = 1 .. Len(steps) /\ steps = [i \in 1 .. Len(steps) |-> steps[i]]
    BY <2>2, <2>3, <2>4
  <2>6. ASSUME NEW i \in 1 .. Len(steps)
        PROVE  steps[i] = [tool |-> AllCalls(messages)[i].name, command |-> AllCalls(messages)[i].command,
                           isError |-> AllResults(messages)[i].isError]
    <3>1. steps[i] \in Step
      BY <2>4
    <3>2. steps[i] = [tool |-> steps[i].tool, command |-> steps[i].command, isError |-> steps[i].isError]
      BY <3>1 DEF Step
    <3> QED BY <2>3, <3>2 DEF Tells
  <2> QED BY <2>1, <2>5, <2>6
<1> QED BY CInit, CStep, SInit, SStep, RInit, RStep, TellsInit, TellsStep, <1>1, PTL DEF Spec

-----------------------------------------------------------------------------
(* What a model is sent.                                                    *)

Alternate(ms) == \A i \in 1 .. Len(ms) : ms[i].role = IF i % 2 = 1 THEN "user" ELSE "assistant"
AllAnswered(ms) == \A i \in 1 .. Len(ms) - 1 : Answered(CallsOf(ms[i]), ResultsOf(ms[i + 1]))

LEMMA OneTurnFits ==
    ASSUME NEW ms \in Seq(Turns), NEW m \in Turns, ms # <<>>,
           Alternate(ms), m.role = IF (Len(ms) + 1) % 2 = 1 THEN "user" ELSE "assistant",
           AllAnswered(ms), Answered(CallsOf(ms[Len(ms)]), ResultsOf(m))
    PROVE  Alternate(Append(ms, m)) /\ AllAnswered(Append(ms, m))
<1> DEFINE mm == Append(ms, m)
<1>1. /\ Len(ms) \in Nat \ {0} /\ Len(mm) = Len(ms) + 1 /\ mm[Len(ms) + 1] = m
      /\ \A i \in 1 .. Len(ms) : mm[i] = ms[i]
  OBVIOUS
<1> HIDE DEF mm
<1>2. ASSUME NEW i \in 1 .. Len(mm) PROVE mm[i].role = IF i % 2 = 1 THEN "user" ELSE "assistant"
  <2>1. CASE i = Len(ms) + 1
    BY <1>1, <2>1
  <2>2. CASE i # Len(ms) + 1
    <3>1. i \in 1 .. Len(ms) /\ mm[i] = ms[i]
      BY <1>1, <2>2
    <3> QED BY <3>1 DEF Alternate
  <2> QED BY <2>1, <2>2
<1>3. ASSUME NEW i \in 1 .. Len(mm) - 1 PROVE Answered(CallsOf(mm[i]), ResultsOf(mm[i + 1]))
  <2>1. CASE i = Len(ms)
    <3>1. mm[i] = ms[Len(ms)] /\ mm[i + 1] = m
      BY <1>1, <2>1
    <3> QED BY <3>1
  <2>2. CASE i # Len(ms)
    <3>1. i \in 1 .. Len(ms) - 1 /\ mm[i] = ms[i] /\ mm[i + 1] = ms[i + 1]
      BY <1>1, <2>2
    <3> QED BY <3>1 DEF AllAnswered
  <2> QED BY <2>1, <2>2
<1> QED BY <1>2, <1>3 DEF Alternate, AllAnswered, mm

LEMMA OneTurnNumbered ==
    ASSUME NEW ms \in Seq(Turns), NEW m \in Turns, Numbered(ms),
           \A j \in 1 .. Len(CallsOf(m)) : NumberedAs(CallsOf(m)[j].id, Len(ms) + 1, j)
    PROVE  Numbered(Append(ms, m))
<1> DEFINE mm == Append(ms, m)
<1>1. /\ Len(ms) \in Nat /\ Len(mm) = Len(ms) + 1 /\ mm[Len(ms) + 1] = m
      /\ \A i \in 1 .. Len(ms) : mm[i] = ms[i]
  OBVIOUS
<1> HIDE DEF mm
<1> SUFFICES ASSUME NEW i \in 1 .. Len(mm), NEW j \in 1 .. Len(CallsOf(mm[i]))
             PROVE  NumberedAs(CallsOf(mm[i])[j].id, i, j)
  BY DEF Numbered, mm
<1>2. CASE i = Len(ms) + 1
  BY <1>1, <1>2
<1>3. CASE i # Len(ms) + 1
  <2>1. i \in 1 .. Len(ms) /\ mm[i] = ms[i]
    BY <1>1, <1>3
  <2> QED BY <2>1 DEF Numbered
<1> QED BY <1>2, <1>3

\* Only two responses of the local model number two calls alike.
LEMMA NumbersDiffer ==
    ASSUME messages \in Seq(Turns), Numbered(messages),
           NEW i \in DOMAIN messages, NEW k \in DOMAIN messages, i = k \/ ~({i, k} \subseteq LocalTurns)
    PROVE  NoClash(i, k)
<1> DEFINE cs == CallsOf(messages[i])
           ds == CallsOf(messages[k])
<1>1. i \in 1 .. Len(messages) /\ k \in 1 .. Len(messages) /\ messages[i] \in Turns /\ messages[k] \in Turns
  OBVIOUS
<1>2. cs \in Seq(PossibleCalls) /\ ds \in Seq(PossibleCalls)
  BY <1>1 DEF Turns
<1>3. /\ \A j \in DOMAIN cs : NumberedAs(cs[j].id, i, j)
      /\ \A l \in DOMAIN ds : NumberedAs(ds[l].id, k, l)
  <2>1. DOMAIN cs = 1 .. Len(cs) /\ DOMAIN ds = 1 .. Len(ds)
    <3> HIDE DEF cs, ds
    <3> QED BY <1>2
  <2> QED BY <1>1, <2>1 DEF Numbered
<1>4. /\ i \notin LocalTurns => \A j \in DOMAIN cs : cs[j].id[1] # 0
      /\ k \notin LocalTurns => \A l \in DOMAIN ds : ds[l].id[1] # 0
  BY DEF LocalTurns
<1> HIDE DEF cs, ds
<1>5. ASSUME NEW j \in DOMAIN cs, NEW l \in DOMAIN ds, cs[j].id = ds[l].id
      PROVE  i = k /\ j = l
  <2>1. NumberedAs(cs[j].id, i, j) /\ NumberedAs(cs[j].id, k, l)
    BY <1>3, <1>5
  <2>2. cs[j].id[2] = j /\ cs[j].id[2] = l
    BY <2>1 DEF NumberedAs
  <2>3. CASE i = k
    BY <2>2, <2>3
  <2>4. CASE i # k
    <3>1. cs[j].id[1] # 0
      BY <1>4, <1>5, <2>4
    <3>2. PICK r \in Nat \ {0} : i = 2 * r /\ cs[j].id = <<r, j>>
      BY <2>1, <3>1 DEF NumberedAs
    <3>3. PICK q \in Nat \ {0} : k = 2 * q /\ cs[j].id = <<q, l>>
      BY <2>1, <3>1 DEF NumberedAs
    <3> QED BY <2>4, <3>2, <3>3
  <2> QED BY <2>3, <2>4
<1> QED BY <1>5 DEF NoClash, cs, ds

\* A turn with n calls leaves n results to come, and n results none.
LEMMA WireCalls ==
    ASSUME NEW w \in Seq(WireMessages), WireFits(w, 0), NEW x \in WireMessages
    PROVE  WireFits(w \o <<x>>, x.calls)
<1> DEFINE v == w \o <<x>>
<1>1. /\ Len(v) = Len(w) + 1 /\ Len(w) \in Nat /\ v[Len(w) + 1] = x /\ x.calls \in Nat
      /\ \A i \in 1 .. Len(w) : v[i] = w[i]
  BY DEF WireMessages
<1> HIDE DEF v
<1>2. SUFFICES ASSUME NEW i \in 1 .. Len(v)
               PROVE  /\ v[i].calls \in Nat /\ i + v[i].calls <= Len(v) + x.calls
                      /\ \A j \in i + 1 .. i + v[i].calls : j <= Len(v) => v[j].role = "tool"
  BY DEF WireFits, v
<1>3. CASE i = Len(w) + 1
  BY <1>1, <1>3
<1>4. CASE i \in 1 .. Len(w)
  <2>1. /\ v[i] = w[i] /\ w[i].calls \in Nat /\ i + w[i].calls <= Len(w) + 0
        /\ \A j \in i + 1 .. i + w[i].calls : j <= Len(w) => w[j].role = "tool"
    BY <1>1, <1>4 DEF WireFits
  <2>2. i + w[i].calls <= Len(w)
    BY <1>1, <2>1
  <2>3. ASSUME NEW j \in i + 1 .. i + w[i].calls PROVE v[j].role = "tool"
    <3>1. j \in 1 .. Len(w)
      BY <1>1, <2>1, <2>2
    <3> QED BY <1>1, <2>1, <3>1
  <2> QED BY <1>1, <2>1, <2>2, <2>3
<1> QED BY <1>1, <1>3, <1>4

LEMMA WireResults ==
    ASSUME NEW w \in Seq(WireMessages), NEW k \in Nat, WireFits(w, k)
    PROVE  WireFits(w \o [i \in 1 .. k |-> Feedback], 0)
<1> DEFINE fs == [i \in 1 .. k |-> Feedback]
           v == w \o fs
<1>0. fs \in Seq({Feedback}) /\ Len(fs) = k /\ \A i \in 1 .. k : fs[i] = Feedback
  OBVIOUS
<1>1. /\ Len(v) = Len(w) + k /\ Len(w) \in Nat
      /\ \A i \in 1 .. Len(w) : v[i] = w[i]
      /\ \A i \in 1 .. k : v[Len(w) + i] = Feedback
  <2> HIDE DEF fs
  <2> QED BY <1>0
<1> HIDE DEF v
<1>2. Feedback.role = "tool" /\ Feedback.calls = 0
  BY DEF Feedback
<1>3. \A j \in Len(w) + 1 .. Len(w) + k : v[j] = Feedback
  <2> SUFFICES ASSUME NEW j \in Len(w) + 1 .. Len(w) + k PROVE v[j] = Feedback
    OBVIOUS
  <2>1. PICK i \in 1 .. k : j = Len(w) + i
    <3>1. j - Len(w) \in 1 .. k /\ j = Len(w) + (j - Len(w))
      BY <1>1
    <3> QED BY <3>1
  <2> QED BY <1>1, <2>1
<1>4. SUFFICES ASSUME NEW i \in 1 .. Len(v)
               PROVE  /\ v[i].calls \in Nat /\ i + v[i].calls <= Len(v) + 0
                      /\ \A j \in i + 1 .. i + v[i].calls : j <= Len(v) => v[j].role = "tool"
  BY DEF WireFits, v
<1>5. CASE i \in 1 .. Len(w)
  <2>1. /\ v[i] = w[i] /\ w[i].calls \in Nat /\ i + w[i].calls <= Len(w) + k
        /\ \A j \in i + 1 .. i + w[i].calls : j <= Len(w) => w[j].role = "tool"
    BY <1>1, <1>5 DEF WireFits
  <2>2. ASSUME NEW j \in i + 1 .. i + w[i].calls PROVE v[j].role = "tool"
    <3>1. CASE j <= Len(w)
      BY <1>1, <2>1, <3>1
    <3>2. CASE ~(j <= Len(w))
      <4>1. j \in Len(w) + 1 .. Len(w) + k
        BY <1>1, <2>1, <3>2
      <4> QED BY <1>2, <1>3, <4>1
    <3> QED BY <3>1, <3>2
  <2> QED BY <1>1, <2>1, <2>2
<1>6. CASE i \in Len(w) + 1 .. Len(w) + k
  <2>1. v[i].calls = 0
    BY <1>2, <1>3, <1>6
  <2> QED BY <1>1, <2>1
<1> QED BY <1>1, <1>5, <1>6

\* The state that FitsInv speaks of.
Fitting(ms, rd, pe, pa) ==
    /\ Len(ms) = (IF pe = <<>> /\ pa = <<>> THEN 2 * rd + 1 ELSE 2 * rd + 2)
    /\ Alternate(ms) /\ AllAnswered(ms)
    /\ Progress(CallsOf(ms[Len(ms)]), pa, pe)
    /\ WireFits(WireOf(ms), Len(CallsOf(ms[Len(ms)])))
    /\ Numbered(ms)

LEMMA FitsSpawn == ASSUME SInv, RInv, Spawn PROVE Fitting(messages', round', pending', parts')
<1> DEFINE m == Turn("user", <<TextPart>>)
<1>1. /\ m \in Turns /\ m.role = "user" /\ CallsOf(m) = <<>> /\ ResultsOf(m) = <<>>
      /\ OllamaMessages(m) = <<[role |-> "user", calls |-> 0]>>
  BY TextTurn
<1>2. messages' = <<m>> /\ round' = 0 /\ pending' = <<>> /\ parts' = <<>>
  BY DEF RInv, NoRun, Spawn
<1> HIDE DEF m
<1>3. Len(<<m>>) = 1 /\ <<m>>[1] = m
  OBVIOUS
<1>4. Alternate(<<m>>) /\ AllAnswered(<<m>>)
  BY <1>1, <1>3 DEF Alternate, AllAnswered
<1>5. Progress(CallsOf(m), <<>>, <<>>)
  BY <1>1 DEF Progress
<1>6. WireOf(<<m>>) = <<[role |-> "user", calls |-> 0]>>
  <2> DEFINE u == [role |-> "user", calls |-> 0]
  <2>1. WireOf(<<>>) = <<>>
    <3>1. [i \in DOMAIN <<>> |-> OllamaMessages(<<>>[i])] = <<>>
      OBVIOUS
    <3>2. FlattenSeq(<<>>) = <<>>
      BY DEF FlattenSeq
    <3> QED BY <3>1, <3>2 DEF WireOf
  <2>2. <<>> \in Seq(Turns) /\ <<m>> = Append(<<>>, m)
    OBVIOUS
  <2>3. WireOf(<<m>>) = <<>> \o OllamaMessages(m)
    BY <1>1, <2>1, <2>2, OneTurnMore
  <2>4. OllamaMessages(m) = <<u>>
    BY <1>1
  <2> HIDE DEF u
  <2>5. <<>> \o <<u>> = <<u>>
    OBVIOUS
  <2> QED BY <2>3, <2>4, <2>5 DEF u
<1>7. WireFits(WireOf(<<m>>), 0)
  <2> DEFINE u == [role |-> "user", calls |-> 0]
  <2>1. u.calls = 0
    OBVIOUS
  <2> HIDE DEF u
  <2>2. WireFits(<<u>>, 0)
    BY <2>1 DEF WireFits
  <2> QED BY <1>6, <2>2 DEF u
<1>8. Len(CallsOf(m)) = 0 /\ Numbered(<<m>>)
  BY <1>1, <1>3 DEF Numbered
<1> QED BY <1>2, <1>3, <1>4, <1>5, <1>7, <1>8 DEF Fitting

LEMMA FitsResponded ==
    ASSUME SInv, RInv, Fitting(messages, round, pending, parts),
           NEW n \in Requests, NEW t \in BOOLEAN, Responded(n, t), n # <<>>
    PROVE  Fitting(messages', round', pending', parts')
<1> DEFINE cs == ToolCalls(n)
           m == Turn("assistant", (IF t THEN <<TextPart>> ELSE <<>>) \o cs)
<1>0. messages \in Seq(Turns) /\ round \in Nat
  BY DEF SInv, RInv
<1>1. cs \in Seq(PossibleCalls) /\ cs # <<>>
  BY <1>0, Called
<1>12. \A j \in 1 .. Len(cs) : cs[j].id = <<0, j>> \/ cs[j].id = <<round + 1, j>>
  BY <1>0, Called DEF ToolCalls, Call
<1>2. /\ m \in Turns /\ m.role = "assistant" /\ CallsOf(m) = cs /\ ResultsOf(m) = <<>>
      /\ OllamaMessages(m) = <<[role |-> "assistant", calls |-> Len(cs)]>>
  BY <1>1, AnswerTurn
<1>3. /\ messages' = Append(messages, m) /\ pending = <<>> /\ pending' = cs
      /\ parts = <<>> /\ parts' = <<>> /\ round' = round
  BY DEF Responded
<1> HIDE DEF m, cs
<1>4. /\ Len(messages) = 2 * round + 1 /\ Alternate(messages) /\ AllAnswered(messages) /\ Numbered(messages)
      /\ Progress(CallsOf(messages[Len(messages)]), <<>>, <<>>)
      /\ WireFits(WireOf(messages), Len(CallsOf(messages[Len(messages)])))
  BY <1>3 DEF Fitting
<1>5. messages # <<>> /\ (Len(messages) + 1) % 2 # 1 /\ messages[Len(messages)] \in Turns
  BY <1>0, <1>4
<1>6. Len(CallsOf(messages[Len(messages)])) = 0
  BY <1>4 DEF Progress
<1>7. Answered(CallsOf(messages[Len(messages)]), ResultsOf(m))
  <2>1. CallsOf(messages[Len(messages)]) \in Seq(PossibleCalls)
    BY <1>5 DEF Turns
  <2> QED BY <1>2, <1>6, <2>1 DEF Answered
<1>8. Alternate(messages') /\ AllAnswered(messages')
  BY <1>0, <1>2, <1>3, <1>4, <1>5, <1>7, OneTurnFits
<1>9. Len(messages') = 2 * round + 2 /\ messages'[Len(messages')] = m
  BY <1>0, <1>3, <1>4
<1>10. Progress(CallsOf(m), parts', pending')
  BY <1>1, <1>2, <1>3 DEF Progress
<1>11. WireFits(WireOf(messages'), Len(cs))
  <2> DEFINE x == [role |-> "assistant", calls |-> Len(cs)]
  <2>1. WireOf(messages) \in Seq(WireMessages) /\ WireOf(messages') = WireOf(messages) \o OllamaMessages(m)
    BY <1>0, <1>2, <1>3, OneTurnMore
  <2>2. x \in WireMessages /\ x.calls = Len(cs)
    BY <1>1 DEF WireMessages
  <2>3. OllamaMessages(m) = <<x>> /\ WireFits(WireOf(messages), 0)
    BY <1>2, <1>4, <1>6
  <2> HIDE DEF x
  <2>4. WireFits(WireOf(messages) \o <<x>>, x.calls)
    BY <2>1, <2>2, <2>3, WireCalls
  <2> QED BY <2>1, <2>2, <2>3, <2>4
<1>13. Numbered(messages')
  <2>1. ASSUME NEW j \in 1 .. Len(cs) PROVE NumberedAs(cs[j].id, Len(messages) + 1, j)
    <3>1. round + 1 \in Nat \ {0} /\ Len(messages) + 1 = 2 * (round + 1)
      BY <1>0, <1>4
    <3> QED BY <1>12, <3>1 DEF NumberedAs
  <2> QED BY <1>0, <1>2, <1>3, <1>4, <2>1, OneTurnNumbered
<1> QED BY <1>1, <1>2, <1>3, <1>8, <1>9, <1>10, <1>11, <1>13 DEF Fitting

LEMMA FitsTool ==
    ASSUME SInv, RInv, Fitting(messages, round, pending, parts), NEW failed \in BOOLEAN, ExecuteTool(failed)
    PROVE  Fitting(messages', round', pending', parts')
<1>0. messages \in Seq(Turns) /\ pending \in Seq(PossibleCalls) /\ parts \in Seq(ResultParts)
  BY DEF SInv, RInv
<1>1. PICK c \in PossibleCalls, b \in BOOLEAN :
        /\ c = Head(pending) /\ pending' = Tail(pending) /\ pending # <<>>
        /\ parts' = Append(parts, ToolResultPart(c.id, b)) /\ ToolResultPart(c.id, b) \in ResultParts
  BY Executed
<1> DEFINE r == ToolResultPart(c.id, b)
           cs == CallsOf(messages[Len(messages)])
<1>2. messages' = messages /\ round' = round
  BY DEF ExecuteTool
<1>3. r.id = c.id /\ r \in ResultParts /\ parts' = Append(parts, r)
  BY <1>1 DEF ToolResultPart
<1>4. Progress(cs, parts, pending) /\ Len(messages) = 2 * round + 2
  BY <1>1 DEF Fitting
<1> HIDE DEF r, cs
<1>5. /\ Len(parts) \in Nat /\ Len(parts') = Len(parts) + 1 /\ parts'[Len(parts) + 1] = r
      /\ \A i \in 1 .. Len(parts) : parts'[i] = parts[i]
      /\ Len(pending) \in Nat \ {0} /\ Len(pending') = Len(pending) - 1 /\ c = pending[1]
      /\ \A i \in 1 .. Len(pending') : pending'[i] = pending[i + 1]
  BY <1>0, <1>1, <1>3
<1>6. Progress(cs, parts', pending')
  <2>1. Len(cs) = Len(parts') + Len(pending')
    BY <1>4, <1>5 DEF Progress
  <2>2. cs[Len(parts) + 1].id = r.id
    BY <1>3, <1>4, <1>5 DEF Progress
  <2>3. ASSUME NEW j \in 1 .. Len(parts') PROVE parts'[j].id = cs[j].id
    <3>1. CASE j = Len(parts) + 1
      BY <1>5, <2>2, <3>1
    <3>2. CASE j # Len(parts) + 1
      <4>1. j \in 1 .. Len(parts)
        BY <1>5, <3>2
      <4> QED BY <1>4, <1>5, <4>1 DEF Progress
    <3> QED BY <3>1, <3>2
  <2>4. ASSUME NEW j \in 1 .. Len(pending') PROVE pending'[j].id = cs[Len(parts') + j].id
    <3>1. PICK k : k = j + 1
      OBVIOUS
    <3>2. k \in 1 .. Len(pending) /\ pending'[j] = pending[k] /\ Len(parts') + j = Len(parts) + k
      BY <1>5, <3>1
    <3> QED BY <1>4, <3>2 DEF Progress
  <2> QED BY <2>1, <2>3, <2>4 DEF Progress
<1>7. parts' # <<>>
  BY <1>5
<1> QED BY <1>2, <1>4, <1>6, <1>7 DEF Fitting, cs

LEMMA FitsRoundEnds ==
    ASSUME SInv, RInv, Fitting(messages, round, pending, parts), RoundEnds
    PROVE  Fitting(messages', round', pending', parts')
<1> DEFINE m == Turn("user", parts)
           cs == CallsOf(messages[Len(messages)])
<1>0. messages \in Seq(Turns) /\ round \in Nat /\ parts \in Seq(ResultParts) /\ parts # <<>>
  BY DEF SInv, RInv, RoundEnds
<1>1. /\ m \in Turns /\ m.role = "user" /\ CallsOf(m) = <<>> /\ ResultsOf(m) = parts
      /\ OllamaMessages(m) = [i \in 1 .. Len(parts) |-> Feedback]
  BY <1>0, ResultsTurn
<1>2. /\ messages' = Append(messages, m) /\ pending = <<>> /\ pending' = <<>>
      /\ parts' = <<>> /\ round' = round + 1
  BY DEF RoundEnds
<1> HIDE DEF m
<1>3. /\ Len(messages) = 2 * round + 2 /\ Alternate(messages) /\ AllAnswered(messages) /\ Numbered(messages)
      /\ Progress(cs, parts, <<>>) /\ WireFits(WireOf(messages), Len(cs))
  BY <1>0, <1>2 DEF Fitting
<1>4. messages # <<>> /\ (Len(messages) + 1) % 2 = 1 /\ messages[Len(messages)] \in Turns
  BY <1>0, <1>3
<1>5. cs \in Seq(PossibleCalls) /\ Len(cs) = Len(parts) /\ Len(parts) \in Nat
  <2>1. cs \in Seq(PossibleCalls) /\ Len(parts) \in Nat
    BY <1>0, <1>4 DEF Turns
  <2> HIDE DEF cs
  <2>2. Len(cs) = Len(parts)
    BY <1>3, <2>1 DEF Progress
  <2> QED BY <2>1, <2>2
<1>6. Answered(cs, parts)
  <2> HIDE DEF cs
  <2> QED BY <1>3, <1>5 DEF Answered, Progress
<1>7. Alternate(messages') /\ AllAnswered(messages')
  BY <1>0, <1>1, <1>2, <1>3, <1>4, <1>6, OneTurnFits
<1>8. Len(messages') = 2 * round' + 1 /\ messages'[Len(messages')] = m
  <2>1. Len(messages) = 2 * round + 2 /\ round' = round + 1 /\ messages' = Append(messages, m)
    BY <1>2, <1>3
  <2>2. Len(messages') = Len(messages) + 1 /\ messages'[Len(messages) + 1] = m
    <3>1. messages \in Seq(Turns)
      BY <1>0
    <3> QED BY <2>1, <3>1
  <2> QED BY <1>0, <2>1, <2>2
<1>9. Progress(CallsOf(m), <<>>, <<>>)
  BY <1>1 DEF Progress
<1>10. WireFits(WireOf(messages'), 0)
  <2>1. WireOf(messages) \in Seq(WireMessages) /\ WireOf(messages') = WireOf(messages) \o OllamaMessages(m)
    BY <1>0, <1>1, <1>2, OneTurnMore
  <2>2. WireFits(WireOf(messages), Len(parts))
    BY <1>3, <1>5
  <2>3. WireFits(WireOf(messages) \o [i \in 1 .. Len(parts) |-> Feedback], 0)
    BY <1>5, <2>1, <2>2, WireResults
  <2> QED BY <1>1, <2>1, <2>3
<1>11. Len(CallsOf(m)) = 0
  BY <1>1
<1>12. Numbered(messages')
  <2>1. \A j \in 1 .. Len(CallsOf(m)) : NumberedAs(CallsOf(m)[j].id, Len(messages) + 1, j)
    BY <1>11
  <2> QED BY <1>0, <1>1, <1>2, <1>3, <2>1, OneTurnNumbered
<1> QED BY <1>12, <1>2, <1>7, <1>8, <1>9, <1>10, <1>11 DEF Fitting

LEMMA FitsInit == Init => FitsInv
  BY DEF Init, FitsInv

LEMMA FitsStep == SInv /\ RInv /\ FitsInv /\ [Next]_vars => FitsInv'
<1> SUFFICES ASSUME SInv, RInv, FitsInv, [Next]_vars, phase' = "running"
             PROVE  Fitting(messages', round', pending', parts')
  BY DEF FitsInv, Fitting, Settled, Alternate, AllAnswered
<1>1. phase = "running" => Fitting(messages, round, pending, parts)
  BY DEF FitsInv, Fitting, Settled, Alternate, AllAnswered
<1>2. ASSUME Asks \/ Expire \/ UNCHANGED vars
      PROVE  Fitting(messages', round', pending', parts')
  <2>1. UNCHANGED <<phase, messages, round, pending, parts>>
    BY <1>2 DEF Asks, Expire, vars, runVars
  <2> QED BY <1>1, <2>1
<1>3. ASSUME ModelFails PROVE FALSE
  BY <1>3 DEF ModelFails, End
<1>4. ASSUME NEW n \in Requests, NEW t \in BOOLEAN, Responded(n, t)
      PROVE  Fitting(messages', round', pending', parts')
  <2>1. phase = "running" /\ n # <<>>
    BY <1>4 DEF Responded, End
  <2> QED BY <1>1, <1>4, <2>1, FitsResponded
<1>5. ASSUME NEW failed \in BOOLEAN, ExecuteTool(failed)
      PROVE  Fitting(messages', round', pending', parts')
  <2>1. phase = "running"
    BY <1>5 DEF ExecuteTool
  <2> QED BY <1>1, <1>5, <2>1, FitsTool
<1>6. ASSUME RoundEnds PROVE Fitting(messages', round', pending', parts')
  <2>1. phase = "running"
    BY <1>6 DEF RoundEnds, RInv, Settled
  <2> QED BY <1>1, <1>6, <2>1, FitsRoundEnds
<1> QED BY <1>2, <1>3, <1>4, <1>5, <1>6, FitsSpawn DEF Next, Advances, Tools

\* Whichever tools fail and whichever side responds, a model is never sent a conversation
\* it cannot take: every call has its result in the next turn, in order, as many results
\* as calls follow each response in the form sent to the local model, and an ID names two
\* calls only where the local model made both (agent.go runWithTools, ollama.go
\* CompleteWithTools, toOllamaMessages).
THEOREM ConversationsFit == Spec => []ConversationFits
<1>1. SInv /\ RInv /\ FitsInv => ConversationFits
  <2> SUFFICES ASSUME SInv, RInv, FitsInv, phase = "running", call = "asking"
               PROVE  /\ \A i \in DOMAIN messages : messages[i].role = IF i % 2 = 1 THEN "user" ELSE "assistant"
                      /\ Last(messages).role = "user"
                      /\ \A i \in 1 .. Len(messages) - 1 : Answered(CallsOf(messages[i]), ResultsOf(messages[i + 1]))
                      /\ \A i, k \in DOMAIN messages :
                           i = k \/ ~({i, k} \subseteq LocalTurns) => NoClash(i, k)
                      /\ \A i \in DOMAIN Wire :
                           /\ i + Wire[i].calls <= Len(Wire)
                           /\ \A j \in i + 1 .. i + Wire[i].calls : Wire[j].role = "tool"
    BY DEF ConversationFits, Answered
  <2>1. pending = <<>> /\ parts = <<>> /\ messages \in Seq(Turns) /\ round \in Nat
    BY DEF SInv, RInv, Settled
  <2>2. Fitting(messages, round, <<>>, <<>>)
    BY <2>1 DEF FitsInv, Fitting, Settled, Alternate, AllAnswered
  <2>3. Len(messages) = 2 * round + 1 /\ Alternate(messages) /\ AllAnswered(messages) /\ Numbered(messages)
    BY <2>2 DEF Fitting
  <2>4. \A i \in DOMAIN messages : messages[i].role = IF i % 2 = 1 THEN "user" ELSE "assistant"
    BY <2>1, <2>3 DEF Alternate
  <2>5. Last(messages).role = "user"
    <3>1. Len(messages) \in DOMAIN messages /\ Len(messages) % 2 = 1
      BY <2>1, <2>3
    <3> QED BY <2>4, <3>1 DEF Last
  <2>6. WireFits(WireOf(messages), 0)
    <3>1. Len(CallsOf(messages[Len(messages)])) = 0
      BY <2>2 DEF Fitting, Progress
    <3> QED BY <2>2, <3>1 DEF Fitting
  <2>7. Wire = WireOf(messages) /\ Wire \in Seq(WireMessages)
    BY <2>1, TextTurn, OneTurnMore DEF Wire, WireOf
  <2>8. ASSUME NEW i \in DOMAIN Wire
        PROVE  /\ i + Wire[i].calls <= Len(Wire)
               /\ \A j \in i + 1 .. i + Wire[i].calls : Wire[j].role = "tool"
    <3> DEFINE w == Wire
    <3>1. w \in Seq(WireMessages) /\ WireFits(w, 0) /\ i \in 1 .. Len(w) /\ Len(w) \in Nat
      BY <2>6, <2>7
    <3> HIDE DEF w
    <3>2. /\ w[i].calls \in Nat /\ i + w[i].calls <= Len(w) + 0
          /\ \A j \in i + 1 .. i + w[i].calls : j <= Len(w) => w[j].role = "tool"
      BY <3>1 DEF WireFits
    <3>3. i + w[i].calls <= Len(w) /\ \A j \in i + 1 .. i + w[i].calls : w[j].role = "tool"
      BY <3>1, <3>2
    <3> QED BY <3>3 DEF w
  <2>9. \A i, k \in DOMAIN messages : i = k \/ ~({i, k} \subseteq LocalTurns) => NoClash(i, k)
    BY <2>1, <2>3, NumbersDiffer
  <2> QED BY <2>3, <2>4, <2>5, <2>8, <2>9 DEF AllAnswered
<1> QED BY CInit, CStep, SInit, SStep, RInit, RStep, FitsInit, FitsStep, <1>1, PTL DEF Spec
=============================================================================
