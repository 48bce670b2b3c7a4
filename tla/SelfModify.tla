----------------------------- MODULE SelfModify -----------------------------
(***************************************************************************)
(* The machinery that lets the agent replace its own binary: a gate (build, *)
(* vet, test), a backup of the installed binary, a swap, and a re-exec of   *)
(* the server into what is installed.  Two processes drive it: the server,  *)
(* through the self_modify tool, and a one-shot "hyperi selfmodify" command *)
(* that never re-execs.  Both write the same files without a lock, while    *)
(* the source tree may be edited.                                           *)
(*                                                                         *)
(* A binary is the revision of the source it was built from; a file being   *)
(* written, or left half-written, is Torn.                                  *)
(***************************************************************************)
EXTENDS Naturals, SequencesExt

CONSTANTS
    Revs,           \* revisions the source tree may be edited to
    Shipped,        \* the binary installed before anything was applied
    Torn, NoFile,   \* the contents of an incomplete and of an absent file
    Passes,         \* per step of the gate, the revisions that pass it
    MaxBackups,     \* maxBackups: backups kept by a prune
    MaxCalls        \* bound: calls of the manager, by both processes together

\* A gate that leaves out the tests.
MutGate == <<"build", "vet">>

Gate == <<"build", "vet", "test">>

ASSUME SelfModifyAssumption ==
    /\ Shipped \notin Revs /\ {Torn, NoFile} \cap (Revs \cup {Shipped}) = {}
    /\ Torn # NoFile
    /\ Passes \in [{"build", "vet", "test"} -> SUBSET Revs]
    /\ MaxBackups \in Nat \ {0} /\ MaxCalls \in Nat

Actors == {"server", "cli"}
Binaries == Revs \cup {Shipped}
Contents == Binaries \cup {Torn}

VARIABLES
    source,     \* the revision the source tree is at
    installed,  \* the file at binaryPath
    staged,     \* the file at binaryPath.new
    backups,    \* the files of backupDir, oldest first
    job,        \* per process, the call of the manager in progress
    running,    \* the binary the server process is executing
    restarts,   \* goroutines of the server asleep before reExec
    lastVerify, \* what the server's manager remembers of its last gate
    calls,      \* calls made so far
    mishaps     \* history: which disturbances have happened, see Mishaps

vars == <<source, installed, staged, backups, job, running, restarts,
          lastVerify, calls, mishaps>>
files == <<installed, staged, backups>>
process == <<running, restarts, lastVerify>>

\* "edit": the tree changed under an apply; "fault": a write failed or a process
\* died; "manual": the command was used; "overlap": it and the server were
\* replacing the binary, or saving it, at the same time.
Mishaps == {"edit", "fault", "manual", "overlap"}

\* fd: which name the file being written has by now: binaryPath.new, binaryPath
\* (someone renamed it), or none (and replaced since).
Ops == {"verify", "apply", "rollback"}
Pcs == {"idle"} \cup ToSet(Gate) \cup {"save", "saving", "final", "stage", "staging", "swap"}
Job == [op : Ops, pc : Pcs, data : Contents, fd : {"none", "new", "bin"}]
NoJob == [op |-> "verify", pc |-> "idle", data |-> Torn, fd |-> "none"]

Goto(a, pc) == job' = [job EXCEPT ![a].pc = pc]
Return(a) == job' = [job EXCEPT ![a] = NoJob]

Replacing(a) == job[a].pc \in {"save", "saving", "final", "stage", "staging", "swap"}
Happens(what) == mishaps' = mishaps \cup what
    \cup (IF \A a \in Actors : Replacing(a)' THEN {"overlap"} ELSE {})

Init ==
    /\ source \in Revs
    /\ installed = Shipped /\ staged = NoFile /\ backups = <<>>
    /\ job = [a \in Actors |-> NoJob]
    /\ running = Shipped /\ restarts = 0 /\ lastVerify = "none"
    /\ calls = 0 /\ mishaps = {}

-----------------------------------------------------------------------------
(* The agent's shell tool, or a person, edits the source tree.              *)

UsesTheTree(pc) == pc \in ToSet(Gate) \cup {"save", "saving", "final"}

Edit(r) ==
    /\ r # source
    /\ source' = r
    /\ UNCHANGED <<files, job, process, calls>>
    /\ Happens(IF job["server"].op = "apply" /\ UsesTheTree(job["server"].pc)
               THEN {"edit"} ELSE {})

(* SelfModifyTool.Execute: the agent makes its tool calls one after the      *)
(* other.  The verify command is left out, it changes no file.              *)

AskGate(op) ==
    /\ op \in {"verify", "apply"}
    /\ job["server"] = NoJob /\ running # NoFile /\ calls < MaxCalls
    /\ job' = [job EXCEPT !["server"].op = op, !["server"].pc = Gate[1]]
    /\ calls' = calls + 1
    /\ UNCHANGED <<source, files, process>>
    /\ Happens({})

(* The tool's rollback, and the command's, of the newest backup by name.    *)
(* installBinary has read it before it writes anything.                     *)

Rollback(a) ==
    /\ job[a] = NoJob /\ calls < MaxCalls /\ backups # <<>>
    /\ a = "server" => running # NoFile
    /\ job' = [job EXCEPT ![a].op = "rollback", ![a].pc = "stage", ![a].data = Last(backups)]
    /\ calls' = calls + 1
    /\ UNCHANGED <<source, files, process>>
    /\ Happens(IF a = "cli" THEN {"manual"} ELSE {})

(* Manager.Verify, a step of the gate at a time: each go command sees the   *)
(* tree as it is when it runs.  One that times out has failed.              *)

GateStep(a) ==
    \E i \in DOMAIN Gate :
        /\ job[a].pc = Gate[i]
        /\ source \in Passes[Gate[i]]
        /\ IF i < Len(Gate)
           THEN Goto(a, Gate[i + 1]) /\ UNCHANGED lastVerify
           ELSE /\ Goto(a, IF job[a].op = "apply" THEN "save" ELSE "idle")
                /\ lastVerify' = "passed"
        /\ UNCHANGED <<source, files, running, restarts, calls>>
        /\ Happens({})

GateFails(a) ==
    /\ job[a].pc \in ToSet(Gate)
    /\ Return(a) /\ lastVerify' = "failed"
    /\ UNCHANGED <<source, files, running, restarts, calls>>
    /\ Happens({})

(* backupCurrentBinary: read the installed file, create a file with a new   *)
(* name, fill it, and prune all but the newest MaxBackups.                  *)

CreateBackup(a) ==
    /\ job[a].pc = "save"
    /\ backups' = Append(backups, Torn)
    /\ job' = [job EXCEPT ![a].pc = "saving", ![a].data = installed]
    /\ UNCHANGED <<source, installed, staged, process, calls>>
    /\ Happens({})

\* A prune that keeps the oldest.
MutPruned(s) == SubSeq(s, 1, IF Len(s) > MaxBackups THEN MaxBackups ELSE Len(s))

Pruned(s) == IF Len(s) > MaxBackups THEN SubSeq(s, Len(s) - MaxBackups + 1, Len(s)) ELSE s

FillBackup(a) ==
    /\ job[a].pc = "saving"
    /\ backups' = Pruned(Append(Front(backups), job[a].data))
    /\ Goto(a, "final")
    /\ UNCHANGED <<source, installed, staged, process, calls>>
    /\ Happens({})

(* The build that is installed is a second one, of the tree as it is now.   *)

FinalBuild(a) ==
    /\ job[a].pc = "final"
    /\ source \in Passes["build"]
    /\ job' = [job EXCEPT ![a].pc = "stage", ![a].data = source]
    /\ UNCHANGED <<source, files, process, calls>>
    /\ Happens({})

(* installBinary: open and truncate binaryPath.new, write it, rename it.    *)
(* Both processes use the one name.                                         *)

\* An installBinary that writes binaryPath in place.
MutStage(a) ==
    /\ job[a].pc = "stage"
    /\ installed' = Torn
    /\ job' = [job EXCEPT ![a].pc = "staging", ![a].fd = "bin"]
    /\ UNCHANGED <<source, staged, backups, process, calls>>
    /\ Happens({})

Stage(a) ==
    /\ job[a].pc = "stage"
    /\ staged' = Torn
    /\ job' = [job EXCEPT ![a].pc = "staging", ![a].fd = "new"]
    /\ UNCHANGED <<source, installed, backups, process, calls>>
    /\ Happens({})

\* Over the whole of another binary, a shorter one leaves a tail behind.
Written(old, data) == IF old \in {Torn, data} THEN {data} ELSE {data, Torn}

Fill(a) ==
    /\ job[a].pc = "staging"
    /\ IF job[a].fd = "new" THEN staged' \in Written(staged, job[a].data)
                            ELSE UNCHANGED staged
    /\ IF job[a].fd = "bin" THEN installed' \in Written(installed, job[a].data)
                            ELSE UNCHANGED installed
    /\ job' = [job EXCEPT ![a].pc = "swap", ![a].fd = "none"]
    /\ UNCHANGED <<source, backups, process, calls>>
    /\ Happens({})

\* What a file someone is still writing is called after a rename, or a remove.
Renamed(fd) == CASE fd = "new" -> "bin" [] OTHER -> "none"
Removed(fd) == IF fd = "new" THEN "none" ELSE fd

\* An Apply that schedules no re-exec.
MutSwap(a) ==
    /\ job[a].pc = "swap" /\ staged # NoFile
    /\ installed' = staged /\ staged' = NoFile
    /\ job' = [b \in Actors |-> IF b = a THEN NoJob ELSE [job[b] EXCEPT !.fd = Renamed(@)]]
    /\ UNCHANGED <<source, backups, process, calls>>
    /\ Happens({})

Swap(a) ==
    /\ job[a].pc = "swap" /\ staged # NoFile
    /\ installed' = staged /\ staged' = NoFile
    /\ job' = [b \in Actors |-> IF b = a THEN NoJob ELSE [job[b] EXCEPT !.fd = Renamed(@)]]
    /\ restarts' = IF a = "server" THEN restarts + 1 ELSE restarts
    /\ UNCHANGED <<source, backups, running, lastVerify, calls>>
    /\ Happens({})

\* The other process has renamed the file this one has written.
SwapLost(a) ==
    /\ job[a].pc = "swap" /\ staged = NoFile
    /\ Return(a)
    /\ UNCHANGED <<source, files, process, calls>>
    /\ Happens({})

(* A read, a write, the second build or the rename fails (a full disk): the  *)
(* call returns an error.  What was being written stays where it is, but     *)
(* binaryPath.new goes when the rename fails.                                *)

StepFails(a) ==
    /\ Replacing(a)
    /\ IF job[a].pc = "swap"
       THEN /\ staged' = NoFile
            /\ job' = [b \in Actors |-> IF b = a THEN NoJob
                                        ELSE [job[b] EXCEPT !.fd = Removed(@)]]
       ELSE Return(a) /\ UNCHANGED staged
    /\ UNCHANGED <<source, installed, backups, process, calls>>
    /\ Happens({"fault"})

(* reExec, a moment after a swap: the process becomes what is installed by  *)
(* now, and all it was doing is cut short.  When exec fails it goes on.     *)

CutShort(a) == IF Replacing(a) THEN {"fault"} ELSE {}

ReExec ==
    /\ restarts > 0
    /\ IF installed = Torn
       THEN restarts' = restarts - 1 /\ UNCHANGED <<job, running, lastVerify>> /\ Happens({})
       ELSE /\ running' = installed /\ restarts' = 0 /\ lastVerify' = "none"
            /\ Return("server")
            /\ Happens(CutShort("server"))
    /\ UNCHANGED <<source, files, calls>>

(* Either process may be killed at any point; the service manager starts    *)
(* the server again, if what is installed can be started.                   *)

Killed(a) ==
    /\ IF a = "server" THEN /\ running # NoFile
                            /\ running' = NoFile /\ restarts' = 0 /\ lastVerify' = "none"
                       ELSE job[a] # NoJob /\ UNCHANGED process
    /\ Return(a)
    /\ UNCHANGED <<source, files, calls>>
    /\ Happens(CutShort(a))

\* Starting whatever file is there.
MutStart ==
    /\ running = NoFile
    /\ running' = installed
    /\ UNCHANGED <<source, files, job, restarts, lastVerify, calls>>
    /\ Happens({})

Start ==
    /\ running = NoFile /\ installed # Torn
    /\ running' = installed
    /\ UNCHANGED <<source, files, job, restarts, lastVerify, calls>>
    /\ Happens({})

-----------------------------------------------------------------------------
JobStep(a) ==
    \/ GateStep(a) \/ GateFails(a) \/ CreateBackup(a) \/ FillBackup(a) \/ FinalBuild(a)
    \/ Stage(a) \/ Fill(a) \/ Swap(a) \/ SwapLost(a) \/ StepFails(a)

Next ==
    \/ \E r \in Revs : Edit(r)
    \/ \E op \in Ops : AskGate(op)
    \/ \E a \in Actors : Rollback(a) \/ JobStep(a) \/ Killed(a)
    \/ ReExec
    \/ Start

Spec == Init /\ [][Next]_vars

\* A goroutine asleep wakes up.
FairSpec == Spec /\ WF_vars(ReExec)

-----------------------------------------------------------------------------
\* Every variable has its shape, and no process executes a half-written file.
TypeOK ==
    /\ source \in Revs
    /\ installed \in Contents /\ staged \in Contents \cup {NoFile}
    /\ backups \in Seq(Contents)
    /\ job \in [Actors -> Job]
    /\ running \in Binaries \cup {NoFile}
    /\ restarts \in 0 .. MaxCalls /\ lastVerify \in {"none", "passed", "failed"}
    /\ calls \in 0 .. MaxCalls /\ mishaps \subseteq Mishaps

CiPasses == {r \in Revs : \A step \in DOMAIN Passes : r \in Passes[step]}

\* "A modification that wouldn't pass CI is never applied" (Manager.Verify):
\* as long as nobody touches the tree while an apply is at work, no revision
\* that fails the build, vet or tests is installed, running, about to be
\* installed, or kept to go back to, whatever crashes, fails and overlaps.
OnlyPassingInstalled ==
    "edit" \notin mishaps =>
        \A b \in {installed, staged, running} \cup ToSet(backups) : b \in Revs => b \in CiPasses

\* installBinary "atomically replaces" the binary: with one process at work at a
\* time, whatever order verifies, applies, rollbacks and re-execs come in, the
\* installed file is never half-written unless a write failed or was cut short.
InstalledIsWhole ==
    mishaps \cap {"fault", "overlap"} = {} => installed # Torn

\* "Every applied binary is backed up first": what an apply replaces is the
\* newest backup at that moment, so that the next rollback undoes the apply,
\* however many backups there were and whatever failed before.
ReplacedIsKept ==
    [][ (/\ job["server"].op = "apply" /\ job["server"].pc = "swap"
         /\ installed' # installed /\ "overlap" \notin mishaps')
        => installed = Last(backups) ]_vars

\* Apply "schedules a re-exec so the running process becomes the new binary":
\* a server left running something else than what is installed comes to run
\* it, or is stopped, unless the command line swapped the binary or the file may
\* not be whole.
SwapTakesEffect ==
    installed # running ~>
        (running \in {installed, NoFile} \/ mishaps \cap {"manual", "fault", "overlap"} # {})

\* The documented promise as it stands (manager.go:143): nothing that fails the
\* gate is ever installed.
AppliedPassesCi == installed \in Revs => installed \in CiPasses
=============================================================================
