-------------------------- MODULE SelfModifyProofs --------------------------
(***************************************************************************)
(* Theorems about SelfModify for any revisions, any gate, any number of     *)
(* calls and of backups kept.                                               *)
(***************************************************************************)
EXTENDS SelfModify, TLAPS

(* The sequence of backups.                                                 *)

LEMMA Appended ==
  ASSUME NEW S, NEW s \in Seq(S), NEW x \in S
  PROVE  /\ Append(s, x) \in Seq(S) /\ Append(s, x) # <<>> /\ Last(Append(s, x)) = x
         /\ Len(Append(s, x)) = Len(s) + 1
         /\ \A i \in 1 .. Len(s) : Append(s, x)[i] = s[i]
BY DEF Last

LEMMA LastIsIn ==
  ASSUME NEW S, NEW s \in Seq(S), s # <<>>
  PROVE  Last(s) \in S /\ Len(s) \in 1 .. Len(s) /\ Last(s) = s[Len(s)]
BY DEF Last

LEMMA FrontIs ==
  ASSUME NEW S, NEW s \in Seq(S), s # <<>>
  PROVE  /\ Front(s) \in Seq(S) /\ Len(Front(s)) = Len(s) - 1
         /\ \A i \in 1 .. Len(s) - 1 : Front(s)[i] = s[i]
<1>1. Front(s) = SubSeq(s, 1, Len(s) - 1) /\ Len(s) \in Nat \ {0}
  BY DEF Front
<1>2. PICK n \in Nat : n = Len(s) - 1 /\ n <= Len(s)
  BY <1>1
<1>3. SubSeq(s, 1, n) \in Seq(S)
  BY <1>2
<1>4. Len(SubSeq(s, 1, n)) = n /\ \A i \in 1 .. n : SubSeq(s, 1, n)[i] = s[i]
  BY <1>2
<1> QED BY <1>1, <1>2, <1>3, <1>4

\* A prune keeps the newest.
LEMMA PrunedIs ==
  ASSUME NEW S, NEW s \in Seq(S), s # <<>>
  PROVE  /\ Pruned(s) \in Seq(S) /\ Pruned(s) # <<>> /\ Last(Pruned(s)) = Last(s)
         /\ \A i \in 1 .. Len(Pruned(s)) : \E j \in 1 .. Len(s) : Pruned(s)[i] = s[j]
<1>0. MaxBackups \in Nat \ {0} /\ Len(s) \in Nat \ {0}
  BY SelfModifyAssumption
<1>1. CASE Len(s) > MaxBackups
  <2> DEFINE m == Len(s) - MaxBackups + 1
  <2>1. Pruned(s) = SubSeq(s, m, Len(s)) /\ m \in 1 .. Len(s)
    BY <1>0, <1>1 DEF Pruned
  <2>2. /\ SubSeq(s, m, Len(s)) \in Seq(S) /\ Len(SubSeq(s, m, Len(s))) = MaxBackups
        /\ \A i \in 1 .. MaxBackups : SubSeq(s, m, Len(s))[i] = s[m + i - 1]
    BY <1>0, <1>1
  <2>3. \A i \in 1 .. MaxBackups : m + i - 1 \in 1 .. Len(s)
    BY <1>0, <1>1
  <2>4. m + MaxBackups - 1 = Len(s)
    BY <1>0
  <2>5. Pruned(s) \in Seq(S) /\ Len(Pruned(s)) = MaxBackups
        /\ \A i \in 1 .. MaxBackups : Pruned(s)[i] = s[m + i - 1]
    BY <2>1, <2>2
  <2> HIDE DEF m
  <2>6. Pruned(s) # <<>>
    BY <1>0, <2>5
  <2>7. Last(Pruned(s)) = Last(s)
    BY <1>0, <2>4, <2>5 DEF Last
  <2> QED BY <2>3, <2>5, <2>6, <2>7
<1>2. CASE ~(Len(s) > MaxBackups)
  BY <1>2 DEF Pruned
<1> QED BY <1>1, <1>2

LEMMA GateIs ==
  /\ ToSet(Gate) = {"build", "vet", "test"} /\ DOMAIN Gate = 1 .. 3 /\ Len(Gate) = 3
  /\ Gate[1] = "build" /\ Gate[2] = "vet" /\ Gate[3] = "test"
<1>1. DOMAIN Gate = 1 .. 3 /\ Len(Gate) = 3 /\ Gate[1] = "build" /\ Gate[2] = "vet" /\ Gate[3] = "test"
  BY DEF Gate
<1>2. \A x : x \in ToSet(Gate) <=> \E i \in 1 .. 3 : x = Gate[i]
  BY <1>1 DEF ToSet
<1>3. \A x : x \in ToSet(Gate) <=> x \in {"build", "vet", "test"}
  <2>1. \A i : i \in 1 .. 3 <=> i = 1 \/ i = 2 \/ i = 3
    OBVIOUS
  <2> QED BY <1>1, <1>2, <2>1
<1> QED BY <1>1, <1>3

LEMMA PcsAre ==
  Pcs = {"idle", "build", "vet", "test", "save", "saving", "final", "stage", "staging", "swap"}
BY GateIs DEF Pcs

LEMMA LessThan ==
  ASSUME NEW x \in Nat, NEW y \in Nat, NEW z \in Nat, NEW p \in {0, 1}, NEW q \in {0, 1},
         x <= y, y + p <= z, q = 1 => p = 1
  PROVE  x + q <= z
OBVIOUS

LEMMA AtMost ==
  ASSUME NEW y \in Nat, NEW z \in Nat, NEW p \in {0, 1}, y + p <= z
  PROVE  y <= z
OBVIOUS

-----------------------------------------------------------------------------
(* Types, and what the place a call has got to says about it.               *)

Placed(j) ==
    /\ j.pc \in {"save", "saving", "final"} => j.op = "apply"
    /\ j.pc \in {"stage", "staging", "swap"} => j.op \in {"apply", "rollback"}
    /\ j.fd # "none" => j.pc = "staging"

Pending == IF job["server"].pc = "idle" THEN 0 ELSE 1

\* The command line only rolls back, and each sleeping goroutine has been a call.
TInv ==
    /\ TypeOK
    /\ \A a \in Actors : Placed(job[a])
    /\ job["cli"].pc \in {"idle", "stage", "staging", "swap"}
    /\ job["cli"].op # "apply"
    /\ restarts + Pending <= calls

LEMMA TJob ==
  /\ NoJob \in Job /\ Placed(NoJob) /\ NoJob.pc = "idle" /\ NoJob.op = "verify" /\ NoJob.fd = "none"
  /\ NoJob.data = Torn
BY PcsAre DEF NoJob, Job, Ops, Contents, Placed

LEMMA TInit == Init => TInv
<1> SUFFICES ASSUME Init PROVE TInv
  OBVIOUS
<1>1. job["server"] = NoJob /\ job["cli"] = NoJob /\ job \in [Actors -> Job]
  BY TJob DEF Init, Actors
<1>2. TypeOK
  BY <1>1, SelfModifyAssumption DEF Init, TypeOK, Contents, Binaries
<1>3. restarts + Pending <= calls
  BY <1>1, TJob DEF Init, Pending
<1> QED BY <1>1, <1>2, <1>3, TJob DEF TInv, Actors

LEMMA TMishaps ==
  ASSUME mishaps \subseteq Mishaps, NEW what \in SUBSET Mishaps, Happens(what)
  PROVE  mishaps' \subseteq Mishaps /\ mishaps \subseteq mishaps'
BY DEF Happens, Mishaps

\* A step that makes c of the call of a, and leaves the other alone.
LEMMA TOne ==
  ASSUME TInv, NEW a \in Actors, NEW c \in Job, job' = [job EXCEPT ![a] = c]
  PROVE  /\ job' \in [Actors -> Job] /\ job'[a] = c
         /\ \A b \in Actors \ {a} : job'[b] = job[b]
BY DEF TInv, TypeOK

\* The same for what TInv says of the calls, with the counters.
LEMMA TCalls ==
  ASSUME TInv, NEW a \in Actors, NEW c \in Job, job' = [job EXCEPT ![a] = c],
         Placed(c), a = "cli" => c.pc \in {"idle", "stage", "staging", "swap"} /\ c.op # "apply",
         restarts' \in Nat, calls' \in Nat, calls' >= calls,
         a = "server" => restarts' + (IF c.pc = "idle" THEN 0 ELSE 1) <= calls',
         a = "cli" => restarts' = restarts
  PROVE  /\ job' \in [Actors -> Job] /\ \A b \in Actors : Placed(job'[b])
         /\ job'["cli"].pc \in {"idle", "stage", "staging", "swap"} /\ job'["cli"].op # "apply"
         /\ restarts' + Pending' <= calls'
<1>1. /\ job' \in [Actors -> Job] /\ job'[a] = c
      /\ \A b \in Actors \ {a} : job'[b] = job[b]
  BY TOne
<1>2. restarts \in Nat /\ calls \in Nat
  BY SelfModifyAssumption DEF TInv, TypeOK
<1>3. restarts' + Pending' <= calls'
  <2>1. CASE a = "server"
    BY <1>1, <2>1 DEF Pending
  <2>2. CASE a = "cli"
    <3>1. job'["server"] = job["server"]
      BY <1>1, <2>2 DEF Actors
    <3>2. Pending' = Pending /\ Pending \in Nat
      BY <3>1 DEF Pending
    <3> QED BY <1>2, <2>2, <3>2 DEF TInv
  <2> QED BY <2>1, <2>2 DEF Actors
<1> QED BY <1>1, <1>3 DEF TInv, Actors

LEMMA TAskGate == ASSUME TInv, NEW op \in Ops, AskGate(op) PROVE TInv'
<1> DEFINE c == [job["server"] EXCEPT !.op = op, !.pc = Gate[1]]
<1>0. job["server"] = NoJob /\ job["server"] \in Job /\ "server" \in Actors /\ op \in {"verify", "apply"}
  BY DEF AskGate, TInv, TypeOK, Actors
<1>1. job' = [job EXCEPT !["server"] = c]
  BY DEF AskGate, TInv, TypeOK
<1>2. c \in Job /\ c.pc = "build" /\ c.op = op /\ c.fd = "none"
  BY <1>0, GateIs, PcsAre, TJob DEF Job, Ops
<1>3. Placed(c)
  BY <1>2 DEF Placed
<1>4. calls' = calls + 1 /\ calls' \in 0 .. MaxCalls /\ restarts' = restarts
      /\ calls \in Nat /\ restarts \in Nat /\ restarts <= calls
  <2>1. Pending = 0
    BY <1>0, TJob DEF Pending
  <2> QED BY <2>1, SelfModifyAssumption DEF AskGate, process, TInv, TypeOK
<1> HIDE DEF c
<1>counts. calls' >= calls /\ restarts' \in Nat /\ calls' \in Nat
       /\ restarts' + (IF c.pc = "idle" THEN 0 ELSE 1) <= calls'
  BY <1>2, <1>4
<1>5. /\ job' \in [Actors -> Job] /\ \A b \in Actors : Placed(job'[b])
      /\ job'["cli"].pc \in {"idle", "stage", "staging", "swap"} /\ job'["cli"].op # "apply"
      /\ restarts' + Pending' <= calls'
  BY <1>0, <1>1, <1>2, <1>3, <1>counts, TCalls
<1>6. mishaps' \subseteq Mishaps
  BY TMishaps DEF AskGate, TInv, TypeOK
<1> QED BY <1>4, <1>5, <1>6 DEF TInv, TypeOK, AskGate, files, process

LEMMA TRollback == ASSUME TInv, NEW a \in Actors, Rollback(a) PROVE TInv'
<1> DEFINE c == [job[a] EXCEPT !.op = "rollback", !.pc = "stage", !.data = Last(backups)]
<1>0. job[a] = NoJob /\ job[a] \in Job /\ backups \in Seq(Contents) /\ backups # <<>>
  BY DEF Rollback, TInv, TypeOK
<1>1. job' = [job EXCEPT ![a] = c]
  BY DEF Rollback, TInv, TypeOK
<1>2. c \in Job /\ c.pc = "stage" /\ c.op = "rollback" /\ c.fd = "none"
  BY <1>0, PcsAre, TJob, LastIsIn DEF Job, Ops
<1>3. Placed(c)
  BY <1>2 DEF Placed
<1>4. calls' = calls + 1 /\ calls' \in 0 .. MaxCalls /\ restarts' = restarts
      /\ calls \in Nat /\ restarts \in Nat /\ (a = "server" => restarts <= calls)
  <2>1. a = "server" => Pending = 0
    BY <1>0, TJob DEF Pending
  <2> QED BY <2>1, SelfModifyAssumption DEF Rollback, process, TInv, TypeOK
<1> HIDE DEF c
<1>5. /\ job' \in [Actors -> Job] /\ \A b \in Actors : Placed(job'[b])
      /\ job'["cli"].pc \in {"idle", "stage", "staging", "swap"} /\ job'["cli"].op # "apply"
      /\ restarts' + Pending' <= calls'
  <2>1. calls' >= calls /\ restarts' \in Nat /\ calls' \in Nat
        /\ (a = "server" => restarts' + (IF c.pc = "idle" THEN 0 ELSE 1) <= calls')
    BY <1>2, <1>4
  <2> QED BY <1>1, <1>2, <1>3, <1>4, <2>1, TCalls
<1>6. mishaps' \subseteq Mishaps
  BY TMishaps DEF Rollback, TInv, TypeOK, Mishaps
<1> QED BY <1>4, <1>5, <1>6 DEF TInv, TypeOK, Rollback, files, process

\* A step of a call in progress, or the end of one.
LEMMA TMove ==
  ASSUME TInv, NEW a \in Actors, NEW c \in Job, job' = [job EXCEPT ![a] = c],
         Placed(c), a = "cli" => c.pc \in {"idle", "stage", "staging", "swap"} /\ c.op # "apply",
         UNCHANGED calls, restarts' \in Nat, restarts' <= restarts, a = "cli" => restarts' = restarts,
         job[a].pc # "idle" \/ c.pc = "idle"
  PROVE  /\ job' \in [Actors -> Job] /\ \A b \in Actors : Placed(job'[b])
         /\ job'["cli"].pc \in {"idle", "stage", "staging", "swap"} /\ job'["cli"].op # "apply"
         /\ restarts' + Pending' <= calls'
<1>1. calls' >= calls /\ calls' \in Nat
  BY SelfModifyAssumption DEF TInv, TypeOK
<1>2. ASSUME a = "server" PROVE restarts' + (IF c.pc = "idle" THEN 0 ELSE 1) <= calls'
  <2>1. restarts \in Nat /\ calls \in Nat /\ restarts + Pending <= calls
    BY SelfModifyAssumption DEF TInv, TypeOK
  <2>2. c.pc # "idle" => Pending = 1
    BY <1>2 DEF Pending
  <2>3. Pending \in {0, 1}
    BY DEF Pending
  <2>4. calls' = calls /\ restarts' \in Nat /\ restarts' <= restarts
    OBVIOUS
  <2>5. ASSUME NEW q \in {0, 1}, q = 1 => Pending = 1 PROVE restarts' + q <= calls'
    BY ONLY <2>1, <2>3, <2>4, <2>5, LessThan
  <2> QED BY <1>2, <2>2, <2>5
<1> QED BY <1>1, <1>2, TCalls

LEMMA TReturns ==
  ASSUME TInv, NEW a \in Actors, Return(a), UNCHANGED calls,
         restarts' \in Nat, restarts' <= restarts, a = "cli" => restarts' = restarts
  PROVE  /\ job' \in [Actors -> Job] /\ \A b \in Actors : Placed(job'[b])
         /\ job'["cli"].pc \in {"idle", "stage", "staging", "swap"} /\ job'["cli"].op # "apply"
         /\ restarts' + Pending' <= calls'
BY TJob, TMove DEF Return

\* In a gate there is the server only.
LEMMA TServer ==
  ASSUME TInv, NEW a \in Actors, job[a].pc \in {"build", "vet", "test", "save", "saving", "final"}
  PROVE  a = "server"
BY DEF TInv, Actors

LEMMA TSame == TInv => restarts \in Nat /\ restarts <= restarts
BY SelfModifyAssumption DEF TInv, TypeOK

LEMMA TGoto ==
  ASSUME TInv, NEW a \in Actors, NEW p \in Pcs, Goto(a, p)
  PROVE  \E c \in Job : /\ job' = [job EXCEPT ![a] = c] /\ c.pc = p
                         /\ c.op = job[a].op /\ c.fd = job[a].fd /\ c.data = job[a].data
<1>0. job[a] \in Job /\ job \in [Actors -> Job]
  BY DEF TInv, TypeOK
<1> DEFINE c == [job[a] EXCEPT !.pc = p]
<1>1. c \in Job /\ c.pc = p /\ c.op = job[a].op /\ c.fd = job[a].fd /\ c.data = job[a].data
  BY <1>0 DEF Job
<1>2. job' = [job EXCEPT ![a] = c]
  BY DEF Goto
<1> QED BY <1>1, <1>2

LEMMA TGate ==
  ASSUME TInv, NEW a \in Actors, GateStep(a) \/ GateFails(a)
  PROVE  TInv'
<1>0. job[a] \in Job /\ Placed(job[a]) /\ job \in [Actors -> Job]
  BY DEF TInv, TypeOK
<1>1. mishaps' \subseteq Mishaps
  BY TMishaps DEF GateStep, GateFails, TInv, TypeOK
<1>2. restarts' \in Nat /\ restarts' <= restarts /\ restarts' = restarts
  BY TSame DEF GateStep, GateFails
<1>3. lastVerify' \in {"none", "passed", "failed"}
  BY DEF GateStep, GateFails, TInv, TypeOK
<1>4. /\ job' \in [Actors -> Job] /\ \A b \in Actors : Placed(job'[b])
      /\ job'["cli"].pc \in {"idle", "stage", "staging", "swap"} /\ job'["cli"].op # "apply"
      /\ restarts' + Pending' <= calls'
  <2>1. CASE GateFails(a)
    BY <1>2, <2>1, TReturns DEF GateFails
  <2>2. CASE GateStep(a)
    <3>1. PICK i \in DOMAIN Gate : /\ job[a].pc = Gate[i]
                                   /\ IF i < Len(Gate) THEN Goto(a, Gate[i + 1])
                                      ELSE Goto(a, IF job[a].op = "apply" THEN "save" ELSE "idle")
      BY <2>2 DEF GateStep
    <3>2. i \in {1, 2, 3}
      BY <3>1, GateIs
    <3>3. PICK p \in {"vet", "test", "save", "idle"} : Goto(a, p) /\ (p = "save" => job[a].op = "apply")
      BY <3>1, <3>2, GateIs
    <3>4. job[a].pc \in {"build", "vet", "test"}
      BY <3>1, <3>2, GateIs
    <3>5. a = "server" /\ job[a].fd = "none" /\ p \in Pcs
      BY <1>0, <3>4, TServer, PcsAre DEF Placed
    <3>6. PICK c \in Job : /\ job' = [job EXCEPT ![a] = c] /\ c.pc = p
                           /\ c.op = job[a].op /\ c.fd = job[a].fd /\ c.data = job[a].data
      BY <3>3, <3>5, TGoto
    <3>7. Placed(c)
      BY <3>3, <3>5, <3>6 DEF Placed
    <3> QED BY <1>2, <2>2, <3>4, <3>5, <3>6, <3>7, TMove DEF GateStep
  <2> QED BY <2>1, <2>2
<1> QED BY <1>1, <1>2, <1>3, <1>4 DEF TInv, TypeOK, GateStep, GateFails, files

\* CreateBackup, FillBackup, FinalBuild, Stage and Fill: what each makes of its call.
LEMMA TInstalls ==
  ASSUME TInv, NEW a \in Actors, NEW c \in Job, job' = [job EXCEPT ![a] = c],
         Placed(c), a = "cli" => c.pc \in {"idle", "stage", "staging", "swap"} /\ c.op # "apply",
         job[a].pc # "idle", UNCHANGED <<source, process, calls>>, Happens({}),
         installed' \in Contents, staged' \in Contents \cup {NoFile}, backups' \in Seq(Contents)
  PROVE  TInv'
<1>1. mishaps' \subseteq Mishaps
  BY TMishaps DEF TInv, TypeOK
<1>2. UNCHANGED <<running, restarts, lastVerify>>
  BY DEF process
<1>3. restarts' \in Nat /\ restarts' <= restarts /\ restarts' = restarts
  BY <1>2, TSame
<1>4. /\ job' \in [Actors -> Job] /\ \A b \in Actors : Placed(job'[b])
      /\ job'["cli"].pc \in {"idle", "stage", "staging", "swap"} /\ job'["cli"].op # "apply"
      /\ restarts' + Pending' <= calls'
  BY <1>3, TMove
<1> QED BY <1>1, <1>2, <1>4 DEF TInv, TypeOK

LEMMA TCreateBackup == ASSUME TInv, NEW a \in Actors, CreateBackup(a) PROVE TInv'
<1> DEFINE c == [job[a] EXCEPT !.pc = "saving", !.data = installed]
<1>0. job[a] \in Job /\ Placed(job[a]) /\ job \in [Actors -> Job] /\ job[a].pc = "save" /\ installed \in Contents
  BY DEF TInv, TypeOK, CreateBackup
<1>1. c \in Job /\ c.pc = "saving" /\ c.op = job[a].op /\ c.fd = job[a].fd
  BY <1>0, PcsAre DEF Job
<1>2. Placed(c) /\ a = "server"
  BY <1>0, <1>1, TServer DEF Placed
<1>3. job' = [job EXCEPT ![a] = c]
  BY <1>0 DEF CreateBackup
<1>4. backups' \in Seq(Contents)
  BY Appended DEF CreateBackup, TInv, TypeOK, Contents
<1> HIDE DEF c
<1> QED BY <1>0, <1>1, <1>2, <1>3, <1>4, TInstalls DEF CreateBackup, TInv, TypeOK

LEMMA TFinalBuild == ASSUME TInv, NEW a \in Actors, FinalBuild(a) PROVE TInv'
<1> DEFINE c == [job[a] EXCEPT !.pc = "stage", !.data = source]
<1>0. job[a] \in Job /\ Placed(job[a]) /\ job \in [Actors -> Job] /\ job[a].pc = "final" /\ source \in Contents
  BY DEF TInv, TypeOK, FinalBuild, Contents, Binaries
<1>1. c \in Job /\ c.pc = "stage" /\ c.op = job[a].op /\ c.fd = job[a].fd
  BY <1>0, PcsAre DEF Job
<1>2. Placed(c) /\ a = "server"
  BY <1>0, <1>1, TServer DEF Placed
<1>3. job' = [job EXCEPT ![a] = c]
  BY <1>0 DEF FinalBuild
<1> HIDE DEF c
<1> QED BY <1>0, <1>1, <1>2, <1>3, TInstalls DEF FinalBuild, files, TInv, TypeOK

LEMMA TStage == ASSUME TInv, NEW a \in Actors, Stage(a) PROVE TInv'
<1> DEFINE c == [job[a] EXCEPT !.pc = "staging", !.fd = "new"]
<1>0. job[a] \in Job /\ Placed(job[a]) /\ job \in [Actors -> Job] /\ job[a].pc = "stage"
      /\ (a = "cli" => job[a].op # "apply")
  BY DEF TInv, TypeOK, Stage
<1>1. c \in Job /\ c.pc = "staging" /\ c.op = job[a].op
  BY <1>0, PcsAre DEF Job
<1>2. Placed(c)
  BY <1>0, <1>1 DEF Placed
<1>3. job' = [job EXCEPT ![a] = c]
  BY <1>0 DEF Stage
<1> HIDE DEF c
<1> QED BY <1>0, <1>1, <1>2, <1>3, TInstalls DEF Stage, TInv, TypeOK, Contents

LEMMA TFill == ASSUME TInv, NEW a \in Actors, Fill(a) PROVE TInv'
<1> DEFINE c == [job[a] EXCEPT !.pc = "swap", !.fd = "none"]
<1>0. job[a] \in Job /\ Placed(job[a]) /\ job \in [Actors -> Job] /\ job[a].pc = "staging"
      /\ (a = "cli" => job[a].op # "apply") /\ job[a].data \in Contents
  BY DEF TInv, TypeOK, Fill, Job
<1>1. c \in Job /\ c.pc = "swap" /\ c.op = job[a].op /\ c.fd = "none"
  BY <1>0, PcsAre DEF Job
<1>2. Placed(c)
  BY <1>0, <1>1 DEF Placed
<1>3. job' = [job EXCEPT ![a] = c]
  BY <1>0 DEF Fill
<1>4. \A old : Written(old, job[a].data) \subseteq Contents
  BY <1>0 DEF Written, Contents
<1>5. installed' \in Contents /\ staged' \in Contents \cup {NoFile}
  BY <1>4 DEF Fill, TInv, TypeOK
<1> HIDE DEF c
<1> QED BY <1>0, <1>1, <1>2, <1>3, <1>5, TInstalls DEF Fill, TInv, TypeOK

LEMMA TFillBackup == ASSUME TInv, NEW a \in Actors, FillBackup(a) PROVE TInv'
<1> DEFINE c == [job[a] EXCEPT !.pc = "final"]
<1>0. job[a] \in Job /\ Placed(job[a]) /\ job \in [Actors -> Job] /\ job[a].pc = "saving" /\ job[a].data \in Contents
  BY DEF TInv, TypeOK, FillBackup, Job
<1>1. c \in Job /\ c.pc = "final" /\ c.op = job[a].op /\ c.fd = job[a].fd
  BY <1>0, PcsAre DEF Job
<1>2. Placed(c) /\ a = "server"
  BY <1>0, <1>1, TServer DEF Placed
<1>3. job' = [job EXCEPT ![a] = c]
  BY <1>0 DEF FillBackup, Goto
<1>4. Front(backups) \in Seq(Contents)
  <2>1. CASE backups = <<>>
    BY <2>1 DEF Front
  <2>2. CASE backups # <<>>
    BY <2>2, FrontIs DEF TInv, TypeOK
  <2> QED BY <2>1, <2>2
<1>5. backups' \in Seq(Contents)
  BY <1>0, <1>4, Appended, PrunedIs DEF FillBackup
<1> HIDE DEF c
<1> QED BY <1>0, <1>1, <1>2, <1>3, <1>5, TInstalls DEF FillBackup, TInv, TypeOK

\* A swap, or its failure: the call of a ends, and a file the other is still
\* writing has another name.
Kept(b) ==
    /\ job'[b].pc = job[b].pc /\ job'[b].op = job[b].op /\ job'[b].data = job[b].data
    /\ job'[b].fd # "none" => job[b].fd # "none"

LEMMA TRenamed ==
  ASSUME TInv, NEW a \in Actors,
         \/ job' = [b \in Actors |-> IF b = a THEN NoJob ELSE [job[b] EXCEPT !.fd = Renamed(@)]]
         \/ job' = [b \in Actors |-> IF b = a THEN NoJob ELSE [job[b] EXCEPT !.fd = Removed(@)]]
  PROVE  job' \in [Actors -> Job] /\ job'[a] = NoJob /\ \A b \in Actors \ {a} : Kept(b)
<1>1. ASSUME NEW b \in Actors, b # a
      PROVE  job'[b] \in Job /\ Kept(b)
  <2>1. job[b] \in Job /\ job[b].fd \in {"none", "new", "bin"}
    BY DEF TInv, TypeOK, Job
  <2>2. PICK fd \in {"none", "new", "bin"} : /\ job'[b] = [job[b] EXCEPT !.fd = fd]
                                             /\ fd # "none" => job[b].fd # "none"
    <3>1. Renamed(job[b].fd) \in {"none", "new", "bin"}
          /\ (Renamed(job[b].fd) # "none" => job[b].fd # "none")
      BY <2>1 DEF Renamed
    <3>2. Removed(job[b].fd) \in {"none", "new", "bin"}
          /\ (Removed(job[b].fd) # "none" => job[b].fd # "none")
      BY <2>1 DEF Removed
    <3>3. \/ job'[b] = [job[b] EXCEPT !.fd = Renamed(job[b].fd)]
          \/ job'[b] = [job[b] EXCEPT !.fd = Removed(job[b].fd)]
      BY <1>1
    <3> QED BY <3>1, <3>2, <3>3
  <2> QED BY <2>1, <2>2 DEF Job, Kept
<1>2. job'[a] = NoJob /\ job' = [b \in Actors |-> job'[b]]
  OBVIOUS
<1> QED BY <1>1, <1>2, TJob

LEMMA TEnds ==
  ASSUME TInv, NEW a \in Actors, job' \in [Actors -> Job], job'[a] = NoJob,
         \A b \in Actors \ {a} : Kept(b), UNCHANGED calls, restarts' \in Nat,
         a = "server" => restarts' <= restarts + Pending, a = "cli" => restarts' = restarts
  PROVE  /\ \A b \in Actors : Placed(job'[b])
         /\ job'["cli"].pc \in {"idle", "stage", "staging", "swap"} /\ job'["cli"].op # "apply"
         /\ restarts' + Pending' <= calls'
<1>1. \A b \in Actors : Placed(job'[b])
  BY TJob DEF TInv, Kept, Placed
<1>2. job'["cli"].pc \in {"idle", "stage", "staging", "swap"} /\ job'["cli"].op # "apply"
  BY TJob DEF TInv, Kept, Actors
<1>3. restarts \in Nat /\ calls \in Nat /\ Pending \in {0, 1} /\ restarts + Pending <= calls
  BY SelfModifyAssumption DEF TInv, TypeOK, Pending
<1>4. restarts' + Pending' <= calls'
  <2>0. calls' = calls /\ restarts' \in Nat
    OBVIOUS
  <2>1. CASE a = "server"
    <3>1. job'["server"].pc = "idle"
      BY <2>1, TJob
    <3>2. restarts' <= restarts + Pending
      BY <2>1
    <3>3. restarts' <= calls'
      BY ONLY <1>3, <2>0, <3>2
    <3> QED BY <2>0, <3>1, <3>3 DEF Pending
  <2>2. CASE a = "cli"
    <3>1. Pending' = Pending
      BY <2>2 DEF Pending, Kept, Actors
    <3>2. restarts' = restarts
      BY <2>2
    <3>3. restarts' + Pending' = restarts + Pending
      BY <3>1, <3>2
    <3> QED BY ONLY <1>3, <2>0, <3>3
  <2> QED BY <2>1, <2>2 DEF Actors
<1> QED BY <1>1, <1>2, <1>4

LEMMA TSwap == ASSUME TInv, NEW a \in Actors, Swap(a) PROVE TInv'
<1>2. job' \in [Actors -> Job] /\ job'[a] = NoJob /\ \A b \in Actors \ {a} : Kept(b)
  BY TRenamed DEF Swap
<1>3. /\ restarts' \in Nat /\ (a = "server" => restarts' <= restarts + Pending)
      /\ (a = "cli" => restarts' = restarts)
  <2>1. restarts \in Nat /\ (a = "server" => Pending = 1)
    BY SelfModifyAssumption DEF TInv, TypeOK, Swap, Pending
  <2> QED BY <2>1 DEF Swap
<1>4. UNCHANGED calls
  BY DEF Swap
<1>5. /\ \A b \in Actors : Placed(job'[b])
      /\ job'["cli"].pc \in {"idle", "stage", "staging", "swap"} /\ job'["cli"].op # "apply"
      /\ restarts' + Pending' <= calls'
  BY <1>2, <1>3, <1>4, TEnds
<1>6. restarts' \in 0 .. MaxCalls
  <2>1. calls' \in Nat /\ calls' <= MaxCalls /\ MaxCalls \in Nat
    BY <1>4, SelfModifyAssumption DEF TInv, TypeOK
  <2>2. Pending' \in {0, 1}
    BY DEF Pending
  <2>3. restarts' \in Nat /\ restarts' + Pending' <= calls'
    BY <1>3, <1>5
  <2>4. restarts' <= calls'
    BY ONLY <2>1, <2>2, <2>3, AtMost
  <2> QED BY ONLY <2>1, <2>3, <2>4
<1>7. mishaps' \subseteq Mishaps
  BY TMishaps DEF Swap, TInv, TypeOK
<1>8. installed' \in Contents /\ staged' \in Contents \cup {NoFile}
  BY DEF Swap, TInv, TypeOK
<1> QED BY <1>2, <1>4, <1>5, <1>6, <1>7, <1>8 DEF TInv, TypeOK, Swap

\* The steps at which the call of a ends and nothing is installed.
LEMMA TReturned ==
  ASSUME TInv, NEW a \in Actors, Return(a), UNCHANGED <<calls, source, installed, backups>>,
         staged' \in Contents \cup {NoFile}, mishaps' \subseteq Mishaps,
         \/ UNCHANGED process
         \/ /\ a = "server" /\ restarts' = 0 /\ lastVerify' = "none"
            /\ running' \in Binaries \cup {NoFile}
  PROVE  TInv'
<1>1. restarts' \in Nat /\ restarts' <= restarts /\ (a = "cli" => restarts' = restarts)
  BY TSame DEF process, TInv
<1>2. /\ job' \in [Actors -> Job] /\ \A b \in Actors : Placed(job'[b])
      /\ job'["cli"].pc \in {"idle", "stage", "staging", "swap"} /\ job'["cli"].op # "apply"
      /\ restarts' + Pending' <= calls'
  BY <1>1, TReturns
<1>3. restarts' \in 0 .. MaxCalls
  BY SelfModifyAssumption DEF process, TInv, TypeOK
<1> QED BY <1>2, <1>3 DEF TInv, TypeOK, process

LEMMA TSwapLost == ASSUME TInv, NEW a \in Actors, SwapLost(a) PROVE TInv'
<1>1. mishaps' \subseteq Mishaps
  BY TMishaps DEF SwapLost, TInv, TypeOK
<1> QED BY <1>1, TReturned DEF SwapLost, files, TInv, TypeOK

LEMMA TStepFails == ASSUME TInv, NEW a \in Actors, StepFails(a) PROVE TInv'
<1>1. mishaps' \subseteq Mishaps
  BY TMishaps DEF StepFails, TInv, TypeOK, Mishaps
<1>2. CASE job[a].pc # "swap"
  BY <1>1, <1>2, TReturned DEF StepFails, TInv, TypeOK
<1>3. CASE job[a].pc = "swap"
  <2>1. job' \in [Actors -> Job] /\ job'[a] = NoJob /\ \A b \in Actors \ {a} : Kept(b)
    BY <1>3, TRenamed DEF StepFails
  <2>2. UNCHANGED <<calls, restarts, running, lastVerify>> /\ restarts \in Nat
    BY SelfModifyAssumption DEF StepFails, process, TInv, TypeOK
  <2>3. restarts <= restarts + Pending
    BY <2>2 DEF Pending
  <2>4. /\ \A b \in Actors : Placed(job'[b])
        /\ job'["cli"].pc \in {"idle", "stage", "staging", "swap"} /\ job'["cli"].op # "apply"
        /\ restarts' + Pending' <= calls'
    BY <2>1, <2>2, <2>3, TEnds
  <2> QED BY <1>1, <1>3, <2>1, <2>2, <2>4 DEF StepFails, TInv, TypeOK
<1> QED BY <1>2, <1>3

LEMMA TEdit == ASSUME TInv, NEW r \in Revs, Edit(r) PROVE TInv'
<1>1. mishaps' \subseteq Mishaps
  BY TMishaps DEF Edit, TInv, TypeOK, Mishaps
<1> QED BY <1>1 DEF Edit, files, process, TInv, TypeOK, Pending

LEMMA TReExec == ASSUME TInv, ReExec PROVE TInv'
<1>1. mishaps' \subseteq Mishaps
  BY TMishaps DEF ReExec, TInv, TypeOK, Mishaps, CutShort
<1>2. CASE installed = Torn
  <2>1. restarts \in Nat /\ restarts > 0 /\ restarts' = restarts - 1 /\ UNCHANGED <<job, calls>>
    BY <1>2, SelfModifyAssumption DEF ReExec, TInv, TypeOK
  <2>2. restarts' \in 0 .. MaxCalls
    BY <2>1, SelfModifyAssumption DEF TInv, TypeOK
  <2>3. Pending' = Pending /\ Pending \in {0, 1} /\ calls \in Nat /\ restarts + Pending <= calls
    BY <2>1, SelfModifyAssumption DEF Pending, TInv, TypeOK
  <2>4. restarts' + Pending' <= calls'
    BY <2>1, <2>3
  <2> QED BY <1>1, <1>2, <2>1, <2>2, <2>4 DEF ReExec, files, TInv, TypeOK
<1>3. CASE installed # Torn
  <2>1. running' \in Binaries \cup {NoFile}
    BY <1>3 DEF ReExec, TInv, TypeOK, Contents
  <2>2. "server" \in Actors
    BY DEF Actors
  <2> QED BY <1>1, <1>3, <2>1, <2>2, TReturned DEF ReExec, files, TInv, TypeOK
<1> QED BY <1>2, <1>3

LEMMA TKilled == ASSUME TInv, NEW a \in Actors, Killed(a) PROVE TInv'
<1>1. mishaps' \subseteq Mishaps
  BY TMishaps DEF Killed, TInv, TypeOK, Mishaps, CutShort
<1> QED BY <1>1, TReturned DEF Killed, files, process, TInv, TypeOK

LEMMA TStart == ASSUME TInv, Start PROVE TInv'
<1>1. mishaps' \subseteq Mishaps
  BY TMishaps DEF Start, TInv, TypeOK
<1> QED BY <1>1 DEF Start, files, TInv, TypeOK, Contents, Pending

LEMMA TStutter == ASSUME TInv, UNCHANGED vars PROVE TInv'
BY DEF vars, TInv, TypeOK, Pending

LEMMA TStep == TInv /\ [Next]_vars => TInv'
<1> SUFFICES ASSUME TInv, [Next]_vars PROVE TInv'
  OBVIOUS
<1>1. ASSUME NEW r \in Revs, Edit(r) PROVE TInv'
  BY <1>1, TEdit
<1>2. ASSUME NEW op \in Ops, AskGate(op) PROVE TInv'
  BY <1>2, TAskGate
<1>3. ASSUME NEW a \in Actors, Rollback(a) \/ JobStep(a) \/ Killed(a) PROVE TInv'
  <2>1. CASE JobStep(a)
    BY <2>1, TGate, TCreateBackup, TFillBackup, TFinalBuild, TStage, TFill, TSwap, TSwapLost,
       TStepFails DEF JobStep
  <2> QED BY <1>3, <2>1, TRollback, TKilled
<1>4. CASE ReExec
  BY <1>4, TReExec
<1>5. CASE Start
  BY <1>5, TStart
<1>6. CASE UNCHANGED vars
  BY <1>6, TStutter
<1> QED BY <1>1, <1>2, <1>3, <1>4, <1>5, <1>6 DEF Next

\* Every variable keeps its shape, and no process ever executes a half-written
\* file: neither a re-exec nor the service manager takes one that is torn.
THEOREM TypeCorrect == Spec => []TypeOK
<1>1. Spec => []TInv
  BY TInit, TStep, PTL DEF Spec
<1>2. TInv => TypeOK
  BY DEF TInv
<1> QED BY <1>1, <1>2, PTL

-----------------------------------------------------------------------------
(* Nothing untested: while the tree is left alone during an apply, every     *)
(* binary at hand has been through the gate, and so has the tree itself, as  *)
(* far as the gate has got.                                                 *)

Tested(b) == b \in Revs => b \in CiPasses

Cleared(j) == j.op = "apply" =>
    /\ j.pc \in {"vet", "test", "save", "saving", "final"} => source \in Passes["build"]
    /\ j.pc \in {"test", "save", "saving", "final"} => source \in Passes["vet"]
    /\ j.pc \in {"save", "saving", "final"} => source \in Passes["test"]

PCalls == \A a \in Actors : Tested(job[a].data) /\ Cleared(job[a])
PFiles ==
    /\ Tested(installed) /\ Tested(staged) /\ Tested(running)
    /\ \A i \in DOMAIN backups : Tested(backups[i])

PInv == "edit" \notin mishaps => PCalls /\ PFiles

LEMMA PTested ==
  /\ Tested(Torn) /\ Tested(NoFile) /\ Tested(Shipped)
  /\ \A b : b \in Passes["build"] /\ b \in Passes["vet"] /\ b \in Passes["test"] => Tested(b)
<1>1. DOMAIN Passes = {"build", "vet", "test"}
  BY SelfModifyAssumption
<1> QED BY <1>1, SelfModifyAssumption DEF Tested, CiPasses

LEMMA PInit == Init => PInv
<1> SUFFICES ASSUME Init PROVE PInv
  OBVIOUS
<1>1. \A a \in Actors : job[a] = NoJob
  BY DEF Init
<1>2. PCalls
  BY <1>1, TJob, PTested DEF PCalls, Cleared
<1>3. PFiles
  BY PTested DEF Init, PFiles
<1> QED BY <1>2, <1>3 DEF PInv

\* What has happened has happened.
LEMMA Lasting == [Next]_vars => mishaps \subseteq mishaps'
<1> SUFFICES ASSUME [Next]_vars PROVE mishaps \subseteq mishaps'
  OBVIOUS
<1>1. ASSUME NEW what, Happens(what) PROVE mishaps \subseteq mishaps'
  BY <1>1 DEF Happens
<1>2. ASSUME NEW a \in Actors, JobStep(a) PROVE mishaps \subseteq mishaps'
  BY <1>1, <1>2 DEF JobStep, GateStep, GateFails, CreateBackup, FillBackup, FinalBuild, Stage, Fill,
     Swap, SwapLost, StepFails
<1>3. ASSUME NEW a \in Actors, Rollback(a) \/ Killed(a) PROVE mishaps \subseteq mishaps'
  BY <1>1, <1>3 DEF Rollback, Killed
<1>4. ASSUME NEW r \in Revs, Edit(r) PROVE mishaps \subseteq mishaps'
  BY <1>1, <1>4 DEF Edit
<1>5. ASSUME NEW op \in Ops, AskGate(op) PROVE mishaps \subseteq mishaps'
  BY <1>1, <1>5 DEF AskGate
<1>6. ASSUME ReExec \/ Start PROVE mishaps \subseteq mishaps'
  BY <1>1, <1>6 DEF ReExec, Start
<1> QED BY <1>2, <1>3, <1>4, <1>5, <1>6 DEF Next, vars

LEMMA PCall ==
  ASSUME TInv, PCalls, NEW a \in Actors, NEW c \in Job, job' = [job EXCEPT ![a] = c],
         Tested(c.data), Cleared(c), source' = source
  PROVE  PCalls'
<1>1. job'[a] = c /\ \A b \in Actors \ {a} : job'[b] = job[b]
  BY TOne
<1>2. \A j : Cleared(j) => Cleared(j)'
  BY DEF Cleared
<1> QED BY <1>1, <1>2 DEF PCalls, Tested, Cleared

LEMMA PReturns ==
  ASSUME TInv, PCalls, NEW a \in Actors, Return(a), source' = source
  PROVE  PCalls'
<1>1. Cleared(NoJob)
  BY TJob DEF Cleared
<1> QED BY <1>1, TJob, PTested, PCall DEF Return

LEMMA PGate ==
  ASSUME TInv, PCalls, NEW a \in Actors, GateStep(a) PROVE PCalls'
<1>1. PICK i \in DOMAIN Gate : /\ job[a].pc = Gate[i] /\ source \in Passes[Gate[i]]
                               /\ IF i < Len(Gate) THEN Goto(a, Gate[i + 1])
                                  ELSE Goto(a, IF job[a].op = "apply" THEN "save" ELSE "idle")
  BY DEF GateStep
<1>2. \/ job[a].pc = "build" /\ source \in Passes["build"] /\ Goto(a, "vet")
      \/ job[a].pc = "vet" /\ source \in Passes["vet"] /\ Goto(a, "test")
      \/ job[a].pc = "test" /\ source \in Passes["test"] /\ Goto(a, "save")
      \/ job[a].pc = "test" /\ source \in Passes["test"] /\ Goto(a, "idle")
  <2>1. i = 1 \/ i = 2 \/ i = 3
    BY GateIs
  <2> QED BY <1>1, <2>1, GateIs
<1>3. Cleared(job[a]) /\ Tested(job[a].data) /\ source' = source
  BY DEF PCalls, GateStep
<1>4. ASSUME NEW pc \in Pcs, Goto(a, pc),
             job[a].op = "apply" => Cleared([op |-> "apply", pc |-> pc])
      PROVE  PCalls'
  <2>1. PICK c \in Job : /\ job' = [job EXCEPT ![a] = c] /\ c.pc = pc
                         /\ c.op = job[a].op /\ c.fd = job[a].fd /\ c.data = job[a].data
    BY <1>4, TGoto
  <2>2. Cleared(c)
    BY <1>4, <2>1 DEF Cleared
  <2> QED BY <1>3, <2>1, <2>2, PCall
<1>5. CASE job[a].pc = "build" /\ source \in Passes["build"] /\ Goto(a, "vet")
  BY <1>4, <1>5, PcsAre DEF Cleared
<1>6. CASE job[a].pc = "vet" /\ source \in Passes["vet"] /\ Goto(a, "test")
  BY <1>3, <1>4, <1>6, PcsAre DEF Cleared
<1>7. CASE job[a].pc = "test" /\ source \in Passes["test"] /\ Goto(a, "save")
  BY <1>3, <1>4, <1>7, PcsAre DEF Cleared
<1>8. CASE job[a].pc = "test" /\ source \in Passes["test"] /\ Goto(a, "idle")
  BY <1>4, <1>8, PcsAre DEF Cleared
<1> QED BY <1>2, <1>5, <1>6, <1>7, <1>8

\* The steps that write files, and what is in the files afterwards.
LEMMA PCreateBackup ==
  ASSUME TInv, PCalls, PFiles, NEW a \in Actors, CreateBackup(a) PROVE PCalls' /\ PFiles'
<1> DEFINE c == [job[a] EXCEPT !.pc = "saving", !.data = installed]
<1>0. job[a] \in Job /\ installed \in Contents /\ backups \in Seq(Contents) /\ source' = source
  BY DEF TInv, TypeOK, CreateBackup
<1>1. c \in Job /\ c.pc = "saving" /\ c.op = job[a].op /\ c.data = installed
  BY <1>0, PcsAre DEF Job
<1>2. job' = [job EXCEPT ![a] = c] /\ job[a].pc = "save"
  BY <1>0 DEF CreateBackup
<1> HIDE DEF c
<1>3. Cleared(c) /\ Tested(c.data)
  BY <1>1, <1>2 DEF PCalls, PFiles, Cleared
<1>4. \A i \in DOMAIN backups' : Tested(backups'[i])
  <2>1. /\ backups' \in Seq(Contents) /\ Last(backups') = Torn /\ Len(backups') = Len(backups) + 1
        /\ \A i \in 1 .. Len(backups) : backups'[i] = backups[i]
    BY <1>0, Appended DEF CreateBackup, Contents
  <2>2. backups'[Len(backups')] = Torn
    BY <2>1 DEF Last
  <2>3. ASSUME NEW i \in DOMAIN backups' PROVE Tested(backups'[i])
    <3>1. i \in 1 .. Len(backups) \/ i = Len(backups')
      BY <1>0, <2>1
    <3> QED BY <1>0, <2>1, <2>2, <3>1, PTested DEF PFiles
  <2> QED BY <2>3
<1> QED BY <1>0, <1>1, <1>2, <1>3, <1>4, PCall DEF CreateBackup, process, PFiles, Tested

LEMMA PFillBackup ==
  ASSUME TInv, PCalls, PFiles, NEW a \in Actors, FillBackup(a) PROVE PCalls' /\ PFiles'
<1> DEFINE f == Append(Front(backups), job[a].data)
<1>0. job[a] \in Job /\ job[a].data \in Contents /\ backups \in Seq(Contents)
  BY DEF TInv, TypeOK, FillBackup, Job
<1>1. PICK c \in Job : /\ job' = [job EXCEPT ![a] = c] /\ c.pc = "final"
                       /\ c.op = job[a].op /\ c.fd = job[a].fd /\ c.data = job[a].data
  BY PcsAre, TGoto DEF FillBackup
<1>2. Cleared(c) /\ Tested(c.data) /\ source' = source
  BY <1>1 DEF PCalls, Cleared, FillBackup
<1>3. /\ Front(backups) \in Seq(Contents)
      /\ \A i \in DOMAIN Front(backups) : Tested(Front(backups)[i])
  <2>1. CASE backups = <<>>
    BY <2>1 DEF Front
  <2>2. CASE backups # <<>>
    <3>1. /\ Front(backups) \in Seq(Contents) /\ Len(Front(backups)) = Len(backups) - 1
          /\ \A i \in 1 .. Len(backups) - 1 : Front(backups)[i] = backups[i]
      BY <1>0, <2>2, FrontIs
    <3>2. Len(backups) \in Nat
      BY <1>0
    <3> QED BY <1>0, <3>1, <3>2 DEF PFiles
  <2> QED BY <2>1, <2>2
<1>4. /\ f \in Seq(Contents) /\ f # <<>> /\ Len(f) = Len(Front(backups)) + 1
      /\ Last(f) = job[a].data
      /\ \A i \in 1 .. Len(Front(backups)) : f[i] = Front(backups)[i]
  BY <1>0, <1>3, Appended
<1> HIDE DEF f
<1>5. \A i \in 1 .. Len(f) : Tested(f[i])
  <2>1. ASSUME NEW i \in 1 .. Len(f) PROVE Tested(f[i])
    <3>1. i \in 1 .. Len(Front(backups)) \/ i = Len(f)
      BY <1>3, <1>4
    <3> QED BY <1>3, <1>4, <3>1 DEF PCalls, Last
  <2> QED BY <2>1
<1>6. /\ Pruned(f) \in Seq(Contents)
      /\ \A i \in 1 .. Len(Pruned(f)) : \E j \in 1 .. Len(f) : Pruned(f)[i] = f[j]
  BY <1>4, PrunedIs
<1>7. backups' = Pruned(f)
  BY DEF FillBackup, f
<1>8. \A i \in DOMAIN backups' : Tested(backups'[i])
  BY <1>5, <1>6, <1>7
<1> QED BY <1>1, <1>2, <1>8, PCall DEF FillBackup, process, PFiles, Tested

LEMMA PFinalBuild ==
  ASSUME TInv, PCalls, PFiles, NEW a \in Actors, FinalBuild(a) PROVE PCalls' /\ PFiles'
<1> DEFINE c == [job[a] EXCEPT !.pc = "stage", !.data = source]
<1>0. job[a] \in Job /\ Placed(job[a]) /\ source \in Contents /\ source' = source /\ job[a].pc = "final"
  BY DEF TInv, TypeOK, FinalBuild, Contents, Binaries
<1>1. c \in Job /\ c.pc = "stage" /\ c.op = job[a].op /\ c.data = source
  BY <1>0, PcsAre DEF Job
<1>2. job' = [job EXCEPT ![a] = c]
  BY <1>0 DEF FinalBuild
<1> HIDE DEF c
<1>3. Tested(source)
  BY <1>0, PTested DEF PCalls, Cleared, Placed
<1>4. Cleared(c)
  BY <1>1 DEF Cleared
<1> QED BY <1>0, <1>1, <1>2, <1>3, <1>4, PCall DEF FinalBuild, files, process, PFiles, Tested

LEMMA PStage ==
  ASSUME TInv, PCalls, PFiles, NEW a \in Actors, Stage(a) PROVE PCalls' /\ PFiles'
<1> DEFINE c == [job[a] EXCEPT !.pc = "staging", !.fd = "new"]
<1>0. job[a] \in Job /\ source' = source
  BY DEF TInv, TypeOK, Stage
<1>1. c \in Job /\ c.pc = "staging" /\ c.op = job[a].op /\ c.data = job[a].data
  BY <1>0, PcsAre DEF Job
<1>2. job' = [job EXCEPT ![a] = c]
  BY <1>0 DEF Stage
<1> HIDE DEF c
<1>3. Cleared(c) /\ Tested(c.data)
  BY <1>1 DEF Cleared, PCalls
<1> QED BY <1>0, <1>1, <1>2, <1>3, PTested, PCall DEF Stage, process, PFiles, Tested

LEMMA PFill ==
  ASSUME TInv, PCalls, PFiles, NEW a \in Actors, Fill(a) PROVE PCalls' /\ PFiles'
<1> DEFINE c == [job[a] EXCEPT !.pc = "swap", !.fd = "none"]
<1>0. job[a] \in Job /\ source' = source
  BY DEF TInv, TypeOK, Fill
<1>1. c \in Job /\ c.pc = "swap" /\ c.op = job[a].op /\ c.data = job[a].data
  BY <1>0, PcsAre DEF Job
<1>2. job' = [job EXCEPT ![a] = c]
  BY <1>0 DEF Fill
<1> HIDE DEF c
<1>3. Cleared(c) /\ Tested(c.data) /\ Tested(job[a].data)
  BY <1>1 DEF Cleared, PCalls
<1>4. \A old : \A b \in Written(old, job[a].data) : Tested(b)
  BY <1>3, PTested DEF Written
<1>5. Tested(installed') /\ Tested(staged')
  BY <1>4 DEF Fill, PFiles
<1> QED BY <1>0, <1>1, <1>2, <1>3, <1>5, PCall DEF Fill, process, PFiles, Tested

LEMMA PEnds ==
  ASSUME TInv, PCalls, NEW a \in Actors, job'[a] = NoJob, source' = source,
         \A b \in Actors \ {a} : Kept(b)
  PROVE  PCalls'
<1>1. ASSUME NEW b \in Actors PROVE (Tested(job[b].data) /\ Cleared(job[b]))'
  <2>1. CASE b = a
    BY <2>1, TJob, PTested DEF Cleared, Tested
  <2>2. CASE b # a
    BY <2>2 DEF Kept, PCalls, Cleared, Tested
  <2> QED BY <2>1, <2>2
<1> QED BY <1>1 DEF PCalls

LEMMA PSwap ==
  ASSUME TInv, PCalls, PFiles, NEW a \in Actors, Swap(a) PROVE PCalls' /\ PFiles'
<1>1. PCalls'
  BY TRenamed, PEnds DEF Swap
<1> QED BY <1>1, PTested DEF Swap, PFiles, Tested

LEMMA PStepFails ==
  ASSUME TInv, PCalls, PFiles, NEW a \in Actors, StepFails(a) PROVE PCalls' /\ PFiles'
<1>1. PCalls'
  <2>1. CASE job[a].pc = "swap"
    BY <2>1, TRenamed, PEnds DEF StepFails
  <2>2. CASE job[a].pc # "swap"
    BY <2>2, PReturns DEF StepFails
  <2> QED BY <2>1, <2>2
<1> QED BY <1>1, PTested DEF StepFails, process, PFiles, Tested

LEMMA PJobStep ==
  ASSUME TInv, PCalls, PFiles, NEW a \in Actors, JobStep(a) PROVE PCalls' /\ PFiles'
<1>1. CASE GateStep(a)
  BY <1>1, PGate DEF GateStep, files, PFiles, Tested
<1>2. CASE GateFails(a) \/ SwapLost(a)
  BY <1>2, PReturns DEF GateFails, SwapLost, files, process, PFiles, Tested
<1> QED BY <1>1, <1>2, PCreateBackup, PFillBackup, PFinalBuild, PStage, PFill, PSwap, PStepFails
        DEF JobStep

\* A call begins, with nothing read but the newest backup.
LEMMA PAsk ==
  ASSUME TInv, PCalls, PFiles, \/ \E op \in Ops : AskGate(op)
                               \/ \E a \in Actors : Rollback(a)
  PROVE  PCalls' /\ PFiles'
<1>1. ASSUME NEW op \in Ops, AskGate(op) PROVE PCalls'
  <2> DEFINE c == [job["server"] EXCEPT !.op = op, !.pc = Gate[1]]
  <2>0. job["server"] \in Job /\ source' = source /\ "server" \in Actors
    BY <1>1 DEF TInv, TypeOK, AskGate, Actors
  <2>1. c \in Job /\ c.pc = "build" /\ c.op = op /\ c.data = job["server"].data
    BY <2>0, GateIs, PcsAre DEF Job
  <2>2. job' = [job EXCEPT !["server"] = c]
    BY <1>1, <2>0 DEF AskGate
  <2> HIDE DEF c
  <2>3. Cleared(c) /\ Tested(c.data)
    BY <2>0, <2>1 DEF Cleared, PCalls
  <2> QED BY <2>0, <2>1, <2>2, <2>3, PCall
<1>2. ASSUME NEW a \in Actors, Rollback(a) PROVE PCalls'
  <2> DEFINE c == [job[a] EXCEPT !.op = "rollback", !.pc = "stage", !.data = Last(backups)]
  <2>0. job[a] \in Job /\ source' = source /\ backups \in Seq(Contents) /\ backups # <<>>
    BY <1>2 DEF TInv, TypeOK, Rollback
  <2>1. c \in Job /\ c.op = "rollback" /\ c.data = Last(backups)
    BY <2>0, PcsAre, LastIsIn DEF Job, Ops
  <2>2. job' = [job EXCEPT ![a] = c]
    BY <1>2, <2>0 DEF Rollback
  <2> HIDE DEF c
  <2>3. Cleared(c) /\ Tested(c.data)
    BY <2>0, <2>1, LastIsIn DEF Cleared, PFiles
  <2> QED BY <2>0, <2>1, <2>2, <2>3, PCall
<1>3. UNCHANGED <<installed, staged, backups, running>>
  BY DEF AskGate, Rollback, files, process
<1> QED BY <1>1, <1>2, <1>3 DEF PFiles, Tested

LEMMA PProcess ==
  ASSUME TInv, PCalls, PFiles, ReExec \/ Start \/ \E a \in Actors : Killed(a)
  PROVE  PCalls' /\ PFiles'
<1>1. PCalls'
  <2>1. source' = source /\ (job' = job \/ \E a \in Actors : Return(a))
    BY DEF ReExec, Start, Killed, Actors
  <2>2. CASE job' = job
    BY <2>1, <2>2 DEF PCalls, Cleared, Tested
  <2> QED BY <2>1, <2>2, PReturns
<1>2. UNCHANGED <<installed, staged, backups>> /\ running' \in {running, installed, NoFile}
  BY DEF ReExec, Start, Killed, files, process
<1> QED BY <1>1, <1>2, PTested DEF PFiles, Tested

\* An edit that an apply does not notice is made while none is in its gate.
LEMMA PEdit ==
  ASSUME TInv, PCalls, PFiles, NEW r \in Revs, Edit(r), "edit" \notin mishaps'
  PROVE  PCalls' /\ PFiles'
<1>1. ~(job["server"].op = "apply" /\ UsesTheTree(job["server"].pc))
  BY DEF Edit, Happens
<1>2. job["cli"].op # "apply" /\ job' = job
  BY DEF TInv, Edit
<1>3. \A a \in Actors : Cleared(job[a])'
  BY <1>1, <1>2, GateIs DEF Cleared, Actors, UsesTheTree
<1>4. UNCHANGED <<installed, staged, backups, running>>
  BY DEF Edit, files, process
<1> QED BY <1>2, <1>3, <1>4 DEF PCalls, PFiles, Tested

LEMMA PStep == TInv /\ PInv /\ [Next]_vars => PInv'
<1> SUFFICES ASSUME TInv, PInv, [Next]_vars, "edit" \notin mishaps' PROVE PCalls' /\ PFiles'
  BY DEF PInv
<1>1. PCalls /\ PFiles
  BY Lasting DEF PInv
<1>2. ASSUME NEW r \in Revs, Edit(r) PROVE PCalls' /\ PFiles'
  BY <1>1, <1>2, PEdit
<1>3. CASE \E op \in Ops : AskGate(op)
  BY <1>1, <1>3, PAsk
<1>4. ASSUME NEW a \in Actors, Rollback(a) \/ JobStep(a) \/ Killed(a) PROVE PCalls' /\ PFiles'
  BY <1>1, <1>4, PAsk, PJobStep, PProcess
<1>5. CASE ReExec \/ Start
  BY <1>1, <1>5, PProcess
<1>6. CASE UNCHANGED vars
  BY <1>1, <1>6 DEF vars, PCalls, PFiles, Cleared, Tested
<1> QED BY <1>2, <1>3, <1>4, <1>5, <1>6 DEF Next

\* Unless the tree is edited under an apply, nothing that fails the build, vet
\* or the tests is installed, staged, running or kept, whatever the two
\* processes do at the same time, and whatever fails and dies.
THEOREM OnlyPassing == Spec => []OnlyPassingInstalled
<1>1. Spec => [](TInv /\ PInv)
  BY TInit, PInit, TStep, PStep, PTL DEF Spec
<1>2. TInv /\ PInv => OnlyPassingInstalled
  <2> SUFFICES ASSUME TInv, PInv, "edit" \notin mishaps,
                      NEW b \in {installed, staged, running} \cup ToSet(backups)
               PROVE  Tested(b)
    BY DEF OnlyPassingInstalled, Tested
  <2>1. backups \in Seq(Contents)
    BY DEF TInv, TypeOK
  <2>2. b \in ToSet(backups) => \E i \in DOMAIN backups : b = backups[i]
    BY <2>1 DEF ToSet
  <2> QED BY <2>2 DEF PInv, PFiles
<1> QED BY <1>1, <1>2, PTL

-----------------------------------------------------------------------------
(* One at a time: as long as the two processes have not overlapped, one of   *)
(* them replaces nothing, and no file being written has become the binary.   *)

Alone == \E a \in Actors : ~Replacing(a)
NoBin == \A a \in Actors : job[a].fd # "bin"
AInv == "overlap" \notin mishaps => Alone /\ NoBin

LEMMA AInit == Init => AInv
<1> SUFFICES ASSUME Init PROVE AInv
  OBVIOUS
<1>1. \A a \in Actors : job[a] = NoJob
  BY DEF Init
<1> QED BY <1>1, TJob DEF AInv, Alone, NoBin, Replacing, Actors

LEMMA AAlone == Next /\ "overlap" \notin mishaps' => Alone'
<1> SUFFICES ASSUME Next, "overlap" \notin mishaps' PROVE Alone'
  OBVIOUS
<1>1. ASSUME NEW what, Happens(what) PROVE Alone'
  BY <1>1 DEF Happens, Alone
<1>2. ASSUME NEW a \in Actors, JobStep(a) PROVE Alone'
  BY <1>1, <1>2 DEF JobStep, GateStep, GateFails, CreateBackup, FillBackup, FinalBuild, Stage, Fill,
     Swap, SwapLost, StepFails
<1>3. ASSUME NEW a \in Actors, Rollback(a) \/ Killed(a) PROVE Alone'
  BY <1>1, <1>3 DEF Rollback, Killed
<1>4. ASSUME NEW r \in Revs, Edit(r) PROVE Alone'
  BY <1>1, <1>4 DEF Edit
<1>5. ASSUME NEW op \in Ops, AskGate(op) PROVE Alone'
  BY <1>1, <1>5 DEF AskGate
<1>6. ASSUME ReExec \/ Start PROVE Alone'
  BY <1>1, <1>6 DEF ReExec, Start
<1> QED BY <1>2, <1>3, <1>4, <1>5, <1>6 DEF Next

\* While a replaces the binary the other has no file open.
LEMMA AOther ==
  ASSUME TInv, Alone, NEW a \in Actors, Replacing(a)
  PROVE  \A b \in Actors \ {a} : ~Replacing(b) /\ job[b].fd = "none"
BY DEF TInv, Placed, Alone, Replacing, Actors

LEMMA ASwapped ==
  ASSUME TInv, Alone, NoBin, NEW a \in Actors, job[a].pc = "swap", Swap(a) \/ StepFails(a)
  PROVE  NoBin' /\ job'[a] = NoJob /\ \A b \in Actors \ {a} : Kept(b)
<1>1. job'[a] = NoJob /\ \A b \in Actors \ {a} : Kept(b)
  BY TRenamed DEF Swap, StepFails
<1>2. \A b \in Actors \ {a} : job'[b].fd = "none"
  BY <1>1, AOther DEF Kept, Replacing
<1> QED BY <1>1, <1>2, TJob DEF NoBin

LEMMA AJob ==
  ASSUME TInv, NoBin, NEW a \in Actors, NEW c \in Job, job' = [job EXCEPT ![a] = c], c.fd # "bin"
  PROVE  NoBin'
BY TOne DEF NoBin

LEMMA ANoBin ==
  ASSUME TInv, Alone, NoBin, NEW a \in Actors, JobStep(a) PROVE NoBin'
<1>0. job[a] \in Job /\ job[a].fd # "bin"
  BY DEF TInv, TypeOK, NoBin
<1>1. ASSUME Return(a) PROVE NoBin'
  BY <1>1, TJob, AJob DEF Return
<1>2. ASSUME NEW pc \in Pcs, Goto(a, pc) PROVE NoBin'
  BY <1>0, <1>2, TGoto, AJob
<1>3. CASE GateStep(a)
  BY <1>2, <1>3, GateIs, PcsAre DEF GateStep
<1>4. CASE GateFails(a) \/ SwapLost(a)
  BY <1>1, <1>4 DEF GateFails, SwapLost
<1>5. CASE CreateBackup(a)
  <2> DEFINE c == [job[a] EXCEPT !.pc = "saving", !.data = installed]
  <2>1. c \in Job /\ c.fd = job[a].fd
    BY <1>0, PcsAre DEF Job, TInv, TypeOK
  <2>2. job' = [job EXCEPT ![a] = c]
    BY <1>5 DEF CreateBackup
  <2> HIDE DEF c
  <2> QED BY <1>0, <2>1, <2>2, AJob
<1>6. CASE FillBackup(a)
  BY <1>2, <1>6, PcsAre DEF FillBackup
<1>7. CASE FinalBuild(a)
  <2> DEFINE c == [job[a] EXCEPT !.pc = "stage", !.data = source]
  <2>1. c \in Job /\ c.fd = job[a].fd
    BY <1>0, PcsAre DEF Job, TInv, TypeOK, Contents, Binaries
  <2>2. job' = [job EXCEPT ![a] = c]
    BY <1>7 DEF FinalBuild
  <2> HIDE DEF c
  <2> QED BY <1>0, <2>1, <2>2, AJob
<1>8. CASE Stage(a)
  <2> DEFINE c == [job[a] EXCEPT !.pc = "staging", !.fd = "new"]
  <2>1. c \in Job /\ c.fd = "new"
    BY <1>0, PcsAre DEF Job
  <2>2. job' = [job EXCEPT ![a] = c]
    BY <1>8 DEF Stage
  <2> HIDE DEF c
  <2> QED BY <2>1, <2>2, AJob
<1>9. CASE Fill(a)
  <2> DEFINE c == [job[a] EXCEPT !.pc = "swap", !.fd = "none"]
  <2>1. c \in Job /\ c.fd = "none"
    BY <1>0, PcsAre DEF Job
  <2>2. job' = [job EXCEPT ![a] = c]
    BY <1>9 DEF Fill
  <2> HIDE DEF c
  <2> QED BY <2>1, <2>2, AJob
<1>10. CASE Swap(a)
  BY <1>10, ASwapped DEF Swap
<1>11. CASE StepFails(a)
  <2>1. CASE job[a].pc = "swap"
    BY <1>11, <2>1, ASwapped
  <2>2. CASE job[a].pc # "swap"
    BY <1>1, <1>11, <2>2 DEF StepFails
  <2> QED BY <2>1, <2>2
<1> QED BY <1>3, <1>4, <1>5, <1>6, <1>7, <1>8, <1>9, <1>10, <1>11 DEF JobStep

LEMMA AStep == TInv /\ AInv /\ [Next]_vars => AInv'
<1> SUFFICES ASSUME TInv, AInv, [Next]_vars, "overlap" \notin mishaps' PROVE Alone' /\ NoBin'
  BY DEF AInv
<1>1. Alone /\ NoBin
  BY Lasting DEF AInv
<1>2. CASE UNCHANGED vars
  BY <1>1, <1>2 DEF vars, Alone, NoBin, Replacing
<1>3. ASSUME Next PROVE NoBin'
  <2>1. ASSUME NEW a \in Actors, JobStep(a) PROVE NoBin'
    BY <1>1, <2>1, ANoBin
  <2>2. ASSUME NEW a \in Actors, Return(a) PROVE NoBin'
    BY <1>1, <2>2, TJob, AJob DEF Return
  <2>3. ASSUME UNCHANGED job PROVE NoBin'
    BY <1>1, <2>3 DEF NoBin
  <2>4. ASSUME NEW op \in Ops, AskGate(op) PROVE NoBin'
    BY <1>1, <2>4 DEF AskGate, NoBin, TInv, TypeOK, Job
  <2>5. ASSUME NEW a \in Actors, Rollback(a) PROVE NoBin'
    BY <1>1, <2>5 DEF Rollback, NoBin, TInv, TypeOK, Job
  <2>6. ASSUME NEW a \in Actors, Killed(a) PROVE NoBin'
    BY <2>2, <2>6 DEF Killed
  <2>7. ASSUME ReExec \/ Start \/ \E r \in Revs : Edit(r) PROVE NoBin'
    BY <2>2, <2>3, <2>7 DEF ReExec, Start, Edit, Actors
  <2> QED BY <1>3, <2>1, <2>4, <2>5, <2>6, <2>7 DEF Next
<1> QED BY <1>2, <1>3, AAlone

-----------------------------------------------------------------------------
(* Backed up first: from the moment an apply has saved the binary, the       *)
(* newest backup is what is installed.                                      *)

Backed == job["server"].op = "apply" =>
    /\ job["server"].pc = "saving" => job["server"].data = installed /\ backups # <<>>
    /\ job["server"].pc \in {"final", "stage", "staging", "swap"} =>
         backups # <<>> /\ Last(backups) = installed

RInv == "overlap" \notin mishaps => Backed

LEMMA RSame ==
  ASSUME Backed, UNCHANGED <<installed, backups>>, job'["server"].op = job["server"].op,
         job'["server"].pc = job["server"].pc, job'["server"].data = job["server"].data
  PROVE  Backed'
BY DEF Backed

LEMMA ROther ==
  ASSUME \/ job'["server"].op # "apply"
         \/ job'["server"].pc \notin {"saving", "final", "stage", "staging", "swap"}
  PROVE  Backed'
BY DEF Backed

LEMMA RReturns ==
  ASSUME TInv, Backed, NEW a \in Actors, Return(a), UNCHANGED <<installed, backups>>
  PROVE  Backed'
<1>1. job'[a] = NoJob /\ (a = "cli" => job'["server"] = job["server"])
  BY TJob, TOne DEF Return, Actors
<1> QED BY <1>1, TJob, RSame, ROther DEF Actors

\* The steps of one call that are not the last one: c is what it becomes.
LEMMA RMove ==
  ASSUME TInv, Backed, NEW a \in Actors, NEW c \in Job, job' = [job EXCEPT ![a] = c],
         c.op = job[a].op, UNCHANGED <<installed, backups>>,
         \/ a = "cli"
         \/ c.pc \notin {"saving", "final", "stage", "staging", "swap"}
         \/ c.pc # "saving" /\ job[a].pc \in {"final", "stage", "staging", "swap"}
  PROVE  Backed'
<1>1. job'[a] = c /\ (a = "cli" => job'["server"] = job["server"])
  BY TOne DEF Actors
<1>2. CASE a = "cli"
  BY <1>1, <1>2, RSame
<1>3. CASE a = "server"
  BY <1>1, <1>3 DEF Backed
<1> QED BY <1>2, <1>3 DEF Actors

LEMMA RSwapped ==
  ASSUME TInv, Alone, NoBin, Backed, NEW a \in Actors, job[a].pc = "swap", Swap(a) \/ StepFails(a)
  PROVE  Backed'
<1>1. job'[a] = NoJob /\ \A b \in Actors \ {a} : Kept(b) /\ ~Replacing(b)
  BY ASwapped, AOther DEF Replacing
<1>2. CASE a = "server"
  BY <1>1, <1>2, TJob, ROther
<1>3. CASE a = "cli"
  BY <1>1, <1>3, ROther DEF Actors, Kept, Replacing
<1> QED BY <1>2, <1>3 DEF Actors

LEMMA RCreateBackup == ASSUME TInv, Backed, NEW a \in Actors, CreateBackup(a) PROVE Backed'
<1> DEFINE c == [job[a] EXCEPT !.pc = "saving", !.data = installed]
<1>0. job[a] \in Job /\ installed \in Contents /\ backups \in Seq(Contents) /\ a = "server"
  BY TServer DEF TInv, TypeOK, CreateBackup
<1>1. c \in Job /\ c.pc = "saving" /\ c.data = installed
  BY <1>0, PcsAre DEF Job
<1>2. job' = [job EXCEPT ![a] = c] /\ installed' = installed
  BY <1>0 DEF CreateBackup
<1> HIDE DEF c
<1>3. backups' # <<>>
  BY <1>0, Appended DEF CreateBackup, Contents
<1> QED BY <1>0, <1>1, <1>2, <1>3, TOne DEF Backed

LEMMA RFillBackup == ASSUME TInv, Backed, NEW a \in Actors, FillBackup(a) PROVE Backed'
<1>0. /\ job[a].data \in Contents /\ backups \in Seq(Contents) /\ a = "server"
      /\ job[a].op = "apply" /\ job[a].pc = "saving" /\ installed' = installed
  BY TServer DEF TInv, TypeOK, FillBackup, Job, Placed
<1>1. PICK c \in Job : /\ job' = [job EXCEPT ![a] = c] /\ c.pc = "final"
                       /\ c.op = job[a].op /\ c.fd = job[a].fd /\ c.data = job[a].data
  BY PcsAre, TGoto DEF FillBackup
<1>2. job[a].data = installed /\ backups # <<>>
  BY <1>0 DEF Backed
<1>3. Front(backups) \in Seq(Contents)
  BY <1>0, <1>2, FrontIs
<1>4. /\ Append(Front(backups), job[a].data) \in Seq(Contents)
      /\ Append(Front(backups), job[a].data) # <<>>
      /\ Last(Append(Front(backups), job[a].data)) = installed
  BY <1>0, <1>2, <1>3, Appended
<1>5. backups' # <<>> /\ Last(backups') = installed
  BY <1>4, PrunedIs DEF FillBackup
<1>6. job'["server"].pc = "final"
  BY <1>0, <1>1, TOne
<1> QED BY <1>0, <1>5, <1>6 DEF Backed

LEMMA RJobStep ==
  ASSUME TInv, Alone, NoBin, Backed, NEW a \in Actors, JobStep(a) PROVE Backed'
<1>0. job[a] \in Job /\ job[a].fd # "bin"
  BY DEF TInv, TypeOK, NoBin
<1>1. CASE GateStep(a)
  <2>1. /\ UNCHANGED <<installed, backups>>
        /\ \E pc \in {"vet", "test", "save", "idle"} : Goto(a, pc)
    BY <1>1, GateIs DEF GateStep, files
  <2>2. PICK pc \in {"vet", "test", "save", "idle"} : Goto(a, pc)
    BY <2>1
  <2>3. PICK c \in Job : /\ job' = [job EXCEPT ![a] = c] /\ c.pc = pc
                         /\ c.op = job[a].op /\ c.fd = job[a].fd /\ c.data = job[a].data
    BY <2>2, PcsAre, TGoto
  <2> QED BY <2>1, <2>2, <2>3, RMove
<1>2. CASE GateFails(a) \/ SwapLost(a)
  BY <1>2, RReturns DEF GateFails, SwapLost, files
<1>3. CASE FinalBuild(a)
  <2> DEFINE c == [job[a] EXCEPT !.pc = "stage", !.data = source]
  <2>1. c \in Job /\ c.op = job[a].op /\ c.pc = "stage"
    BY <1>0, PcsAre DEF Job, TInv, TypeOK, Contents, Binaries
  <2>2. job' = [job EXCEPT ![a] = c] /\ job[a].pc = "final" /\ UNCHANGED <<installed, backups>>
    BY <1>3 DEF FinalBuild, files
  <2> HIDE DEF c
  <2> QED BY <2>1, <2>2, RMove
<1>4. CASE Stage(a)
  <2> DEFINE c == [job[a] EXCEPT !.pc = "staging", !.fd = "new"]
  <2>1. c \in Job /\ c.op = job[a].op /\ c.pc = "staging"
    BY <1>0, PcsAre DEF Job
  <2>2. job' = [job EXCEPT ![a] = c] /\ job[a].pc = "stage" /\ UNCHANGED <<installed, backups>>
    BY <1>4 DEF Stage
  <2> HIDE DEF c
  <2> QED BY <2>1, <2>2, RMove
<1>5. CASE Fill(a)
  <2> DEFINE c == [job[a] EXCEPT !.pc = "swap", !.fd = "none"]
  <2>1. c \in Job /\ c.op = job[a].op /\ c.pc = "swap"
    BY <1>0, PcsAre DEF Job
  <2>2. job' = [job EXCEPT ![a] = c] /\ job[a].pc = "staging" /\ UNCHANGED <<installed, backups>>
    BY <1>0, <1>5 DEF Fill
  <2> HIDE DEF c
  <2> QED BY <2>1, <2>2, RMove
<1>6. CASE Swap(a)
  BY <1>6, RSwapped DEF Swap
<1>7. CASE StepFails(a)
  <2>1. CASE job[a].pc = "swap"
    BY <1>7, <2>1, RSwapped
  <2>2. CASE job[a].pc # "swap"
    BY <1>7, <2>2, RReturns DEF StepFails
  <2> QED BY <2>1, <2>2
<1> QED BY <1>1, <1>2, <1>3, <1>4, <1>5, <1>6, <1>7, RCreateBackup, RFillBackup DEF JobStep

\* The steps outside a call, its beginning and its cutting short.
LEMMA RRest ==
  ASSUME TInv, Backed,
         \/ ReExec \/ Start \/ \E r \in Revs : Edit(r)
         \/ \E op \in Ops : AskGate(op)
         \/ \E a \in Actors : Rollback(a) \/ Killed(a)
  PROVE  Backed'
<1>0. UNCHANGED <<installed, backups>>
  BY DEF ReExec, Start, Edit, AskGate, Rollback, Killed, files
<1>1. ASSUME NEW a \in Actors, Return(a) PROVE Backed'
  BY <1>0, <1>1, RReturns
<1>2. ASSUME UNCHANGED job PROVE Backed'
  BY <1>0, <1>2, RSame
<1>3. ASSUME NEW op \in Ops, AskGate(op) PROVE Backed'
  <2>1. job'["server"].pc = "build"
    BY <1>3, GateIs DEF AskGate, TInv, TypeOK, Job, Actors
  <2> QED BY <2>1, ROther
<1>4. ASSUME NEW a \in Actors, Rollback(a) PROVE Backed'
  <2>1. CASE a = "server"
    <3>1. job'["server"].op = "rollback"
      BY <1>4, <2>1 DEF Rollback, TInv, TypeOK, Job, Actors
    <3> QED BY <3>1, ROther
  <2>2. CASE a = "cli"
    <3>1. job'["server"] = job["server"]
      BY <1>4, <2>2 DEF Rollback, TInv, TypeOK, Actors
    <3> QED BY <1>0, <3>1, RSame
  <2> QED BY <2>1, <2>2 DEF Actors
<1> QED BY <1>1, <1>2, <1>3, <1>4 DEF ReExec, Start, Edit, Killed, Actors

LEMMA RStep == TInv /\ AInv /\ RInv /\ [Next]_vars => RInv'
<1> SUFFICES ASSUME TInv, AInv, RInv, [Next]_vars, "overlap" \notin mishaps' PROVE Backed'
  BY DEF RInv
<1>1. Alone /\ NoBin /\ Backed
  BY Lasting DEF AInv, RInv
<1>2. ASSUME NEW a \in Actors, JobStep(a) PROVE Backed'
  BY <1>1, <1>2, RJobStep
<1>3. CASE UNCHANGED vars
  BY <1>1, <1>3 DEF vars, Backed
<1>4. ASSUME Next, ~\E a \in Actors : JobStep(a) PROVE Backed'
  BY <1>1, <1>4, RRest DEF Next
<1> QED BY <1>2, <1>3, <1>4

LEMMA RInit == Init => RInv
BY TJob DEF Init, RInv, Backed, Actors

\* What the server's apply replaces is the newest backup at that moment, for any
\* number of backups kept, unless the command line was replacing the binary at
\* the same time.
THEOREM ReplacedKept == Spec => ReplacedIsKept
<1>1. Spec => [](TInv /\ AInv /\ RInv)
  BY TInit, AInit, RInit, TStep, AStep, RStep, PTL DEF Spec
<1>2. TInv /\ AInv /\ RInv /\ [Next]_vars =>
        [(/\ job["server"].op = "apply" /\ job["server"].pc = "swap"
          /\ installed' # installed /\ "overlap" \notin mishaps')
         => installed = Last(backups)]_vars
  BY Lasting DEF RInv, Backed
<1> QED BY <1>1, <1>2, PTL DEF Spec, ReplacedIsKept

-----------------------------------------------------------------------------
(* Whole files: without a fault or an overlap, what is half-written is the   *)
(* backup the server is saving, or the binary.new of the one process that    *)
(* is staging, and what is read to be installed is whole.                   *)

WCall(j, new) ==
    /\ j.pc \in {"saving", "stage", "staging", "swap"} => j.data # Torn
    /\ j.pc = "staging" => j.fd = "new" /\ new = Torn
    /\ j.pc = "swap" => new = j.data

WBackups == \A i \in DOMAIN backups : backups[i] = Torn =>
    i = Len(backups) /\ job["server"].pc = "saving"

Whole == installed # Torn /\ WBackups /\ \A a \in Actors : WCall(job[a], staged)

WInv == mishaps \cap {"fault", "overlap"} = {} => Whole

LEMMA WInit == Init => WInv
<1> SUFFICES ASSUME Init PROVE Whole
  BY DEF WInv
<1>1. \A a \in Actors : WCall(job[a], staged)
  BY TJob DEF Init, WCall
<1>2. WBackups
  BY DEF Init, WBackups
<1> QED BY <1>1, <1>2, SelfModifyAssumption DEF Init, Whole

\* A step of the call of a; the other's is not disturbed.
LEMMA WMove ==
  ASSUME TInv, Alone, Whole, NEW a \in Actors, NEW c \in Job, job' = [job EXCEPT ![a] = c],
         WCall(c, staged'), Replacing(a) \/ staged' = staged
  PROVE  \A b \in Actors : WCall(job[b], staged)'
<1>1. job'[a] = c /\ \A b \in Actors \ {a} : job'[b] = job[b]
  BY TOne
<1>2. ASSUME NEW b \in Actors, b # a PROVE WCall(job[b], staged)'
  <2>1. CASE staged' = staged
    BY <1>1, <1>2, <2>1 DEF WCall, Whole
  <2>2. CASE Replacing(a)
    BY <1>1, <1>2, <2>2, AOther DEF WCall, Replacing
  <2> QED BY <2>1, <2>2
<1> QED BY <1>1, <1>2 DEF WCall

\* A step that writes nothing.
LEMMA WPlain ==
  ASSUME TInv, Alone, Whole, NEW a \in Actors, NEW c \in Job, job' = [job EXCEPT ![a] = c],
         WCall(c, staged), job[a].pc # "saving", UNCHANGED files
  PROVE  Whole'
<1>1. WCall(c, staged')
  BY DEF WCall, files
<1>2. \A b \in Actors : WCall(job[b], staged)'
  BY <1>1, WMove DEF files
<1>3. WBackups'
  <2>1. job["server"].pc = "saving" => job'["server"].pc = "saving"
    BY TOne DEF Actors
  <2> QED BY <2>1 DEF WBackups, Whole, files
<1> QED BY <1>2, <1>3 DEF Whole, files

LEMMA WNothing ==
  \A new : /\ WCall(NoJob, new)
           /\ \A j : j.pc \in {"idle", "build", "vet", "test", "save", "final"} => WCall(j, new)
BY TJob DEF WCall

LEMMA WReturns ==
  ASSUME TInv, Alone, Whole, NEW a \in Actors, Return(a), job[a].pc # "saving", UNCHANGED files
  PROVE  Whole'
BY TJob, WNothing, WPlain DEF Return

LEMMA WSave ==
  ASSUME TInv, Alone, Whole, NEW a \in Actors, CreateBackup(a) \/ FillBackup(a) PROVE Whole'
<1>0. /\ job[a] \in Job /\ a = "server" /\ installed \in Contents /\ job[a].data \in Contents
      /\ backups \in Seq(Contents) /\ UNCHANGED <<installed, staged>>
  BY TServer DEF TInv, TypeOK, Job, CreateBackup, FillBackup
<1>1. CASE CreateBackup(a)
  <2> DEFINE c == [job[a] EXCEPT !.pc = "saving", !.data = installed]
  <2>1. c \in Job /\ c.pc = "saving" /\ c.data = installed
    BY <1>0, PcsAre DEF Job
  <2>2. job' = [job EXCEPT ![a] = c] /\ job[a].pc = "save"
    BY <1>0, <1>1 DEF CreateBackup
  <2> HIDE DEF c
  <2>3. WCall(c, staged')
    BY <1>0, <2>1 DEF WCall, Whole
  <2>4. /\ backups' \in Seq(Contents) /\ Len(backups') = Len(backups) + 1
        /\ \A i \in 1 .. Len(backups) : backups'[i] = backups[i]
    BY <1>0, <1>1, Appended DEF CreateBackup, Contents
  <2>5. \A i \in 1 .. Len(backups) : backups[i] # Torn
    BY <1>0, <2>2 DEF Whole, WBackups
  <2>6. job'["server"].pc = "saving"
    BY <1>0, <2>1, <2>2, TOne
  <2>7. WBackups'
    <3>1. ASSUME NEW i \in DOMAIN backups', backups'[i] = Torn PROVE i = Len(backups')
      <4>1. i \in 1 .. Len(backups) \/ i = Len(backups')
        BY <1>0, <2>4
      <4> QED BY <2>4, <2>5, <3>1, <4>1
    <3> QED BY <2>6, <3>1 DEF WBackups
  <2> QED BY <1>0, <2>1, <2>2, <2>3, <2>7, WMove DEF Whole
<1>2. CASE FillBackup(a)
  <2> DEFINE f == Append(Front(backups), job[a].data)
  <2>1. PICK c \in Job : /\ job' = [job EXCEPT ![a] = c] /\ c.pc = "final"
                         /\ c.op = job[a].op /\ c.fd = job[a].fd /\ c.data = job[a].data
    BY <1>2, PcsAre, TGoto DEF FillBackup
  <2>2. WCall(c, staged') /\ job[a].data # Torn
    BY <1>2, <2>1 DEF WCall, Whole, FillBackup
  <2>3. Front(backups) \in Seq(Contents) /\ \A i \in DOMAIN Front(backups) : Front(backups)[i] # Torn
    <3>1. CASE backups = <<>>
      BY <3>1 DEF Front
    <3>2. CASE backups # <<>>
      <4>1. /\ Front(backups) \in Seq(Contents) /\ Len(Front(backups)) = Len(backups) - 1
            /\ \A i \in 1 .. Len(backups) - 1 : Front(backups)[i] = backups[i]
        BY <1>0, <3>2, FrontIs
      <4>2. Len(backups) \in Nat
        BY <1>0
      <4>3. \A i \in 1 .. Len(backups) - 1 : backups[i] # Torn
        BY <1>0, <4>2 DEF Whole, WBackups
      <4> QED BY <4>1, <4>2, <4>3
    <3> QED BY <3>1, <3>2
  <2>4. /\ f \in Seq(Contents) /\ f # <<>> /\ Len(f) = Len(Front(backups)) + 1
        /\ Last(f) = job[a].data
        /\ \A i \in 1 .. Len(Front(backups)) : f[i] = Front(backups)[i]
    BY <1>0, <2>3, Appended
  <2>5. backups' = Pruned(f)
    BY <1>2 DEF FillBackup
  <2> HIDE DEF f
  <2>6. \A i \in 1 .. Len(f) : f[i] # Torn
    <3>1. ASSUME NEW i \in 1 .. Len(f) PROVE f[i] # Torn
      <4>1. i \in 1 .. Len(Front(backups)) \/ i = Len(f)
        BY <2>3, <2>4
      <4> QED BY <2>2, <2>3, <2>4, <4>1 DEF Last
    <3> QED BY <3>1
  <2>7. /\ Pruned(f) \in Seq(Contents)
        /\ \A i \in 1 .. Len(Pruned(f)) : \E j \in 1 .. Len(f) : Pruned(f)[i] = f[j]
    BY <2>4, PrunedIs
  <2>8. \A i \in DOMAIN backups' : backups'[i] # Torn
    BY <2>5, <2>6, <2>7
  <2>9. WBackups'
    BY <2>8 DEF WBackups
  <2> QED BY <1>0, <2>1, <2>2, <2>9, WMove DEF Whole
<1> QED BY <1>1, <1>2

LEMMA WStage ==
  ASSUME TInv, Alone, NoBin, Whole, NEW a \in Actors, Stage(a) \/ Fill(a) PROVE Whole'
<1>0. /\ job[a] \in Job /\ UNCHANGED backups /\ Replacing(a)
      /\ job[a].pc # "saving" /\ job[a].fd # "bin"
  BY DEF TInv, TypeOK, Stage, Fill, Replacing, NoBin
<1>1. CASE Stage(a)
  <2> DEFINE c == [job[a] EXCEPT !.pc = "staging", !.fd = "new"]
  <2>1. c \in Job /\ c.pc = "staging" /\ c.fd = "new" /\ c.data = job[a].data
    BY <1>0, PcsAre DEF Job
  <2>2. job' = [job EXCEPT ![a] = c] /\ job[a].pc = "stage" /\ staged' = Torn /\ installed' = installed
    BY <1>1 DEF Stage
  <2> HIDE DEF c
  <2>3. WCall(c, staged')
    BY <2>1, <2>2 DEF WCall, Whole
  <2>4. WBackups'
    <3>1. job["server"].pc = "saving" => job'["server"].pc = "saving"
      BY <1>0, <2>2, TOne DEF Actors
    <3> QED BY <1>0, <3>1 DEF WBackups, Whole
  <2> QED BY <1>0, <2>1, <2>2, <2>3, <2>4, WMove DEF Whole
<1>2. CASE Fill(a)
  <2> DEFINE c == [job[a] EXCEPT !.pc = "swap", !.fd = "none"]
  <2>1. c \in Job /\ c.pc = "swap" /\ c.data = job[a].data
    BY <1>0, PcsAre DEF Job
  <2>2. job' = [job EXCEPT ![a] = c] /\ job[a].pc = "staging" /\ installed' = installed
    BY <1>0, <1>2 DEF Fill
  <2>3. job[a].data # Torn /\ staged' = job[a].data
    BY <1>2 DEF Fill, Whole, WCall, Written
  <2> HIDE DEF c
  <2>4. WCall(c, staged')
    BY <2>1, <2>3 DEF WCall
  <2>5. WBackups'
    <3>1. job["server"].pc = "saving" => job'["server"].pc = "saving"
      BY <1>0, <2>2, TOne DEF Actors
    <3> QED BY <1>0, <3>1 DEF WBackups, Whole
  <2> QED BY <1>0, <2>1, <2>2, <2>4, <2>5, WMove DEF Whole
<1> QED BY <1>1, <1>2

LEMMA WSwap == ASSUME TInv, Alone, NoBin, Whole, NEW a \in Actors, Swap(a) PROVE Whole'
<1>1. job'[a] = NoJob /\ \A b \in Actors \ {a} : Kept(b) /\ ~Replacing(b)
  BY ASwapped, AOther DEF Swap, Replacing
<1>2. installed' # Torn /\ backups' = backups
  BY DEF Swap, Whole, WCall
<1>3. ASSUME NEW b \in Actors PROVE WCall(job[b], staged)'
  BY <1>1, TJob DEF WCall, Kept, Replacing
<1>4. WBackups'
  <2>1. job["server"].pc # "saving"
    BY <1>1 DEF Swap, Replacing, Actors
  <2> QED BY <1>2, <2>1 DEF WBackups, Whole
<1> QED BY <1>2, <1>3, <1>4 DEF Whole

\* A failed write, and a process cut short, count as faults.
LEMMA WNoFault ==
  ASSUME Next, "fault" \notin mishaps'
  PROVE  /\ \A a \in Actors : ~StepFails(a)
         /\ \A a \in Actors : Killed(a) => ~Replacing(a)
         /\ ReExec => UNCHANGED job \/ ~Replacing("server")
<1>1. ASSUME NEW what, Happens(what) PROVE "fault" \notin what
  BY <1>1 DEF Happens
<1>2. \A a \in Actors : ~StepFails(a)
  BY <1>1 DEF StepFails
<1>3. ASSUME NEW a \in Actors, Killed(a) PROVE ~Replacing(a)
  <2>1. "fault" \notin CutShort(a)
    BY <1>1, <1>3 DEF Killed
  <2> QED BY <2>1 DEF CutShort
<1>4. ASSUME ReExec, job' # job PROVE ~Replacing("server")
  <2>1. "fault" \notin CutShort("server")
    BY <1>1, <1>4 DEF ReExec
  <2> QED BY <2>1 DEF CutShort
<1> QED BY <1>2, <1>3, <1>4

LEMMA WJobStep ==
  ASSUME TInv, Alone, NoBin, Whole, NEW a \in Actors, JobStep(a), ~StepFails(a) PROVE Whole'
<1>0. job[a] \in Job
  BY DEF TInv, TypeOK
<1>1. CASE GateStep(a)
  <2>1. /\ UNCHANGED files /\ job[a].pc # "saving"
        /\ \E pc \in {"vet", "test", "save", "idle"} : Goto(a, pc)
    BY <1>1, GateIs DEF GateStep
  <2>2. PICK pc \in {"vet", "test", "save", "idle"} : Goto(a, pc)
    BY <2>1
  <2>3. PICK c \in Job : /\ job' = [job EXCEPT ![a] = c] /\ c.pc = pc
                         /\ c.op = job[a].op /\ c.fd = job[a].fd /\ c.data = job[a].data
    BY <2>2, PcsAre, TGoto
  <2>4. WCall(c, staged)
    BY <2>2, <2>3, WNothing
  <2> QED BY <2>1, <2>3, <2>4, WPlain
<1>2. CASE GateFails(a) \/ SwapLost(a)
  BY <1>2, GateIs, WReturns DEF GateFails, SwapLost
<1>3. CASE FinalBuild(a)
  <2> DEFINE c == [job[a] EXCEPT !.pc = "stage", !.data = source]
  <2>1. source # Torn /\ source \in Contents
    BY SelfModifyAssumption DEF TInv, TypeOK, Contents, Binaries
  <2>2. c \in Job /\ c.data = source /\ c.pc = "stage"
    BY <1>0, <2>1, PcsAre DEF Job
  <2>3. job' = [job EXCEPT ![a] = c] /\ job[a].pc = "final" /\ UNCHANGED files
    BY <1>3 DEF FinalBuild
  <2> HIDE DEF c
  <2>4. WCall(c, staged)
    BY <2>1, <2>2 DEF WCall
  <2> QED BY <2>2, <2>3, <2>4, WPlain
<1> QED BY <1>1, <1>2, <1>3, WSave, WStage, WSwap DEF JobStep

LEMMA WRollback ==
  ASSUME TInv, Alone, Alone', Whole, NEW a \in Actors, Rollback(a) PROVE Whole'
<1> DEFINE c == [job[a] EXCEPT !.op = "rollback", !.pc = "stage", !.data = Last(backups)]
<1>0. /\ job[a] \in Job /\ job[a].pc = "idle" /\ backups \in Seq(Contents) /\ backups # <<>>
      /\ UNCHANGED files
  BY TJob DEF TInv, TypeOK, Rollback
<1>1. c \in Job /\ c.pc = "stage" /\ c.data = Last(backups)
  BY <1>0, PcsAre, LastIsIn DEF Job, Ops
<1>2. job' = [job EXCEPT ![a] = c]
  BY <1>0 DEF Rollback
<1> HIDE DEF c
<1>3. job'[a].pc = "stage" /\ \A b \in Actors \ {a} : job'[b] = job[b]
  BY <1>1, <1>2, TOne
<1>4. job["server"].pc # "saving"
  BY <1>0, <1>3 DEF Alone, Replacing, Actors
<1>5. Last(backups) # Torn
  BY <1>0, <1>4, LastIsIn DEF Whole, WBackups
<1>6. WCall(c, staged)
  BY <1>1, <1>5 DEF WCall
<1> QED BY <1>0, <1>1, <1>2, <1>6, WPlain

LEMMA WStep == TInv /\ AInv /\ WInv /\ [Next]_vars => WInv'
<1> SUFFICES ASSUME TInv, AInv, WInv, [Next]_vars, mishaps' \cap {"fault", "overlap"} = {} PROVE Whole'
  BY DEF WInv
<1>1. Alone /\ NoBin /\ Whole /\ "fault" \notin mishaps'
  BY Lasting DEF AInv, WInv
<1>2. CASE UNCHANGED vars
  BY <1>1, <1>2 DEF vars, Whole, WBackups, WCall
<1>3. ASSUME UNCHANGED <<files, job>> PROVE Whole'
  BY <1>1, <1>3 DEF files, Whole, WBackups, WCall
<1>4. CASE Next
  <2>0. Alone'
    BY <1>4, AAlone
  <2>1. ASSUME NEW a \in Actors, JobStep(a) PROVE Whole'
    BY <1>1, <1>4, <2>1, WNoFault, WJobStep
  <2>2. ASSUME NEW a \in Actors, Rollback(a) PROVE Whole'
    BY <1>1, <2>0, <2>2, WRollback
  <2>3. ASSUME NEW a \in Actors, ~Replacing(a), Return(a), UNCHANGED files PROVE Whole'
    BY <1>1, <2>3, WReturns DEF Replacing
  <2>4. ASSUME NEW a \in Actors, Killed(a) PROVE Whole'
    BY <1>1, <1>4, <2>3, <2>4, WNoFault DEF Killed
  <2>5. ASSUME ReExec PROVE Whole'
    BY <1>1, <1>3, <1>4, <2>3, <2>5, WNoFault DEF ReExec, Actors
  <2>6. ASSUME Start \/ \E r \in Revs : Edit(r) PROVE Whole'
    BY <1>3, <2>6 DEF Start, Edit
  <2>7. ASSUME NEW op \in Ops, AskGate(op) PROVE Whole'
    <3> DEFINE c == [job["server"] EXCEPT !.op = op, !.pc = Gate[1]]
    <3>0. /\ job["server"] \in Job /\ job["server"].pc = "idle" /\ "server" \in Actors
          /\ UNCHANGED files
      BY <2>7, TJob DEF TInv, TypeOK, AskGate, Actors
    <3>1. c \in Job /\ c.pc = "build"
      BY <3>0, GateIs, PcsAre DEF Job
    <3>2. job' = [job EXCEPT !["server"] = c]
      BY <2>7, <3>0 DEF AskGate
    <3> HIDE DEF c
    <3>3. WCall(c, staged) /\ job["server"].pc # "saving"
      BY <3>0, <3>1 DEF WCall
    <3> QED BY <1>1, <3>0, <3>1, <3>2, <3>3, WPlain
  <2> QED BY <1>4, <2>1, <2>2, <2>4, <2>5, <2>6, <2>7 DEF Next
<1> QED BY <1>2, <1>4

\* With one process replacing the binary at a time and no write failing or cut
\* short, the installed file is never half-written: not by an apply, not by a
\* rollback to a backup that was being saved.
THEOREM Installed == Spec => []InstalledIsWhole
<1>1. Spec => [](TInv /\ AInv /\ WInv)
  BY TInit, AInit, WInit, TStep, AStep, WStep, PTL DEF Spec
<1>2. TInv /\ AInv /\ WInv => InstalledIsWhole
  BY DEF WInv, Whole, InstalledIsWhole
<1> QED BY <1>1, <1>2, PTL
=============================================================================
