------------------------------ MODULE Scheduler ------------------------------
(***************************************************************************)
(* scheduler.Scheduler, as the "schedule" tool uses it: a table of jobs by  *)
(* name in front of a cron library that runs what it was given until it is  *)
(* told to remove it.  Nothing in the server removes a job: it outlives the *)
(* goal that asked for it and ends with the process.                        *)
(***************************************************************************)
EXTENDS Naturals, Sequences

CONSTANTS
    Commands,   \* shell commands
    JobNames,   \* names of jobs
    JobName,    \* per command, its name: "tool:" and the first 64 bytes of the command
    Nothing

ASSUME SchedulerAssumption == JobName \in [Commands -> JobNames] /\ Nothing \notin Commands

VARIABLES
    jobs,       \* per name, the job: its command and its EntryID, 0 if there is none
    entries     \* cron's entries: the command each runs, by EntryID

schedulerVars == <<jobs, entries>>

NoJob == [command |-> Nothing, entry |-> 0]

Exists(name) == jobs[name] # NoJob

Add(command) ==
    /\ entries' = Append(entries, command)
    /\ jobs' = [jobs EXCEPT ![JobName[command]] = [command |-> command, entry |-> Len(entries) + 1]]

\* A Register that replaces the job of its name.
MutAccepts(command, valid) == valid

\* A name that is taken is not taken again, whether or not the command is the same.
Accepts(command, valid) == valid /\ ~Exists(JobName[command])

\* Under the scheduler's lock.  valid: whether cron can parse the expression.
Register(command, valid) ==
    IF Accepts(command, valid) THEN Add(command) ELSE UNCHANGED schedulerVars

\* New, and then what earlier goals have scheduled.
SchedulerInit ==
    /\ entries \in {<<>>} \cup {<<c>> : c \in Commands}
    /\ jobs = [n \in JobNames |-> IF entries # <<>> /\ JobName[entries[1]] = n
                                  THEN [command |-> entries[1], entry |-> 1] ELSE NoJob]

SchedulerTypeOK ==
    /\ entries \in Seq(Commands)
    /\ jobs \in [JobNames -> {NoJob} \cup [command : Commands, entry : 1 .. Len(entries)]]

\* Table and cron agree: each entry that fires is the one of the job of its name, and
\* each job has an entry that runs its command, so that Unregister could stop it.
TableIsCron ==
    /\ \A n \in JobNames : Exists(n) => entries[jobs[n].entry] = jobs[n].command
    /\ \A i \in DOMAIN entries : jobs[JobName[entries[i]]] = [command |-> entries[i], entry |-> i]
=============================================================================
