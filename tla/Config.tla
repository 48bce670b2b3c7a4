------------------------------- MODULE Config -------------------------------
(***************************************************************************)
(* config.json and the commands that change it: "hyperi config set",        *)
(* "models setup / enable / disable / remove" and "selfmodify enable /      *)
(* disable", any number of them at once in as many shells, beside the       *)
(* models of the Ollama daemon and the server that reads the configuration  *)
(* when it starts.                                                          *)
(*                                                                         *)
(* A command loads the configuration first, may then probe the daemon, wait *)
(* for a person at a prompt and pull a model for as long as that takes, and *)
(* saves the whole configuration it has loaded, changed, at the end.        *)
(* config.Save writes config.json.tmp, one name for all, and renames it.    *)
(* Names and files are told apart: a file that was renamed while it was     *)
(* open is written on under its new name.                                   *)
(***************************************************************************)
EXTENDS Naturals, FiniteSets

CONSTANTS
    Shells,         \* the shells commands are given in, one at a time in each
    Models,         \* models the user may set up
    Preinstalled,   \* those the daemon has from the start
    Values,         \* the values of "config set", for all of its keys but one
    Default,        \* the one of a fresh installation
    Sizes,          \* the values of that one, local_model_num_ctx
    AutoSize,           \* the one that leaves the size to buildLLMClient, as at first
    Recommended,    \* per model, the size RecommendNumCtx finds for the hardware
    None,           \* no model, no file
    Empty, Garbage, \* the contents of a file that does not parse
    MaxCommands     \* bound: commands given

Files == 1 .. Cardinality(Shells) + 2

ASSUME ConfigAssumption ==
    /\ Preinstalled \subseteq Models /\ Default \in Values /\ MaxCommands \in Nat
    /\ AutoSize \in Sizes /\ Recommended \in [Models -> Sizes \ {AutoSize}]
    /\ None \notin Models \cup Files /\ "self" \notin Models

Configs == [enabled : BOOLEAN, name : Models \cup {None}, numCtx : Sizes,
             selfOn : BOOLEAN, selfOff : BOOLEAN, value : Values]

Defaults == [enabled |-> FALSE, name |-> None, numCtx |-> AutoSize,
             selfOn |-> FALSE, selfOff |-> FALSE, value |-> Default]

ASSUME ContentsAssumption == {Empty, Garbage} \cap Configs = {}

Contents == Configs \cup {Empty, Garbage}

VARIABLES
    contents,   \* of each file
    path, tmp,  \* the files named config.json and config.json.tmp
    cmd,        \* per shell, the command in progress
    given,      \* number of commands given
    installed,  \* the daemon's models
    server,     \* what the running server was started with
    last,       \* history: the command that took effect last, and what it was about
    agreed,     \* history: what the user said yes to, models and "self"
    mishaps     \* history, see Mishaps

disk == <<contents, path, tmp>>
vars == <<contents, path, tmp, cmd, given, installed, server, last, agreed, mishaps>>

Ops == {"set", "setNumCtx", "setup", "enable", "disable", "remove", "selfEnable", "selfDisable"}
Pcs == {"idle", "probe", "confirm", "pull", "delete", "open", "write", "rename"}

Subjects == Values \cup Sizes \cup Models \cup {None}

\* cfg is the loaded *Config, to: the value or the model the command is about,
\* have: alreadyInstalled, fd: the file Save has opened; stale is history:
\* config.json has changed since it was loaded.
Command == [op : Ops, pc : Pcs, cfg : Configs, to : Subjects,
            have : BOOLEAN, fd : Files \cup {None}, stale : BOOLEAN]
Idle == [op |-> "set", pc |-> "idle", cfg |-> Defaults, to |-> None,
         have |-> FALSE, fd |-> None, stale |-> FALSE]

Nothing == <<"nothing", None>>

Down == [up |-> FALSE, model |-> None, tool |-> FALSE]

\* "stale": a command has saved a configuration it loaded before another's save;
\* "overlap": two saves were in progress at once; "trouble": a save failed or was
\* killed; "cut": a remove has deleted the model and then not saved; "incomplete":
\* the daemon ended a pull early without an error.
Mishaps == {"stale", "overlap", "trouble", "cut", "incomplete"}

Saving(s) == cmd[s].pc \in {"write", "rename"}
Goto(s, pc) == cmd' = [cmd EXCEPT ![s].pc = pc]
Happens(what) == mishaps' = mishaps \cup what

-----------------------------------------------------------------------------
(* Load: no file is the defaults, and one that does not parse is an error,  *)
(* which ends the command, or the start of the server.                      *)

Loaded == IF path = None THEN Defaults ELSE contents[path]
Parses == Loaded \in Configs

\* An enable that leaves the flag of an earlier disable in place.
MutEdit(op, to, c) ==
    CASE op = "set"         -> [c EXCEPT !.value = to]
      [] op = "setNumCtx"   -> [c EXCEPT !.numCtx = to]
      [] op = "setup"       -> [c EXCEPT !.enabled = TRUE, !.name = to, !.numCtx = Recommended[to]]
      [] op = "enable"      -> [c EXCEPT !.enabled = TRUE]
      [] op = "disable"     -> [c EXCEPT !.enabled = FALSE]
      [] op = "remove"      -> [c EXCEPT !.enabled = FALSE, !.name = None]
      [] op = "selfEnable"  -> [c EXCEPT !.selfOn = TRUE]
      [] op = "selfDisable" -> [c EXCEPT !.selfOn = FALSE, !.selfOff = TRUE]

\* What each command makes of the configuration it has loaded.  Setup replaces the
\* size of the context, whatever it was; the other fields it writes are no setting
\* of "config set" (OllamaBaseURL, LocalModelConfirmedAt) and are left out.
Edit(op, to, c) ==
    CASE op = "set"         -> [c EXCEPT !.value = to]
      [] op = "setNumCtx"   -> [c EXCEPT !.numCtx = to]
      [] op = "setup"       -> [c EXCEPT !.enabled = TRUE, !.name = to, !.numCtx = Recommended[to]]
      [] op = "enable"      -> [c EXCEPT !.enabled = TRUE]
      [] op = "disable"     -> [c EXCEPT !.enabled = FALSE]
      [] op = "remove"      -> [c EXCEPT !.enabled = FALSE, !.name = None]
      [] op = "selfEnable"  -> [c EXCEPT !.selfOn = TRUE, !.selfOff = FALSE]
      [] op = "selfDisable" -> [c EXCEPT !.selfOn = FALSE, !.selfOff = TRUE]

-----------------------------------------------------------------------------
(* The commands.                                                            *)

Begin(s, op, to, pc) ==
    /\ cmd[s] = Idle /\ given < MaxCommands /\ Parses
    /\ given' = given + 1
    /\ cmd' = [cmd EXCEPT ![s] = [Idle EXCEPT !.op = op, !.to = to, !.pc = pc, !.cfg = Loaded]]
    /\ UNCHANGED <<disk, installed, server, last, agreed, mishaps>>

ConfigSet(s) ==
    \/ \E v \in Values : Begin(s, "set", v, "open")
    \/ \E n \in Sizes : Begin(s, "setNumCtx", n, "open")

ModelsSetup(s) == \E m \in Models : Begin(s, "setup", m, "probe")

HasModel == Parses /\ Loaded.name # None

ModelsEnable(s) == HasModel /\ Begin(s, "enable", None, "open")

ModelsDisable(s) == Begin(s, "disable", None, "open")

\* A remove that does not ask whether a model is set up.
MutModelsRemove(s) == Parses /\ Begin(s, "remove", Loaded.name, "confirm")

ModelsRemove(s) == HasModel /\ Begin(s, "remove", Loaded.name, "confirm")

SelfmodifyEnable(s) == Begin(s, "selfEnable", None, "confirm")

SelfmodifyDisable(s) == Begin(s, "selfDisable", None, "open")

\* A check that finds every model installed.
MutProbe(s) ==
    /\ cmd[s].pc = "probe"
    /\ cmd' = [cmd EXCEPT ![s].have = TRUE, ![s].pc = "confirm"]
    /\ UNCHANGED <<disk, given, installed, server, last, agreed, mishaps>>

\* Setup asks the daemon for its models before it asks the user.
Probe(s) ==
    /\ cmd[s].pc = "probe"
    /\ cmd' = [cmd EXCEPT ![s].have = cmd[s].to \in installed, ![s].pc = "confirm"]
    /\ UNCHANGED <<disk, given, installed, server, last, agreed, mishaps>>

\* A prompt that takes every answer for a yes.
MutConfirm(s) ==
    LET c == cmd[s]
    IN  /\ c.pc = "confirm"
        /\ Goto(s, IF c.op = "remove" THEN "delete"
                   ELSE IF c.op = "setup" /\ ~c.have THEN "pull" ELSE "open")
        /\ agreed' \in {agreed, agreed \cup {IF c.op = "selfEnable" THEN "self" ELSE c.to}}
        /\ UNCHANGED <<disk, given, installed, server, last, mishaps>>

\* The user says yes, or has said so with --yes; a no is Abort.
Confirm(s) ==
    LET c == cmd[s]
    IN  /\ c.pc = "confirm"
        /\ Goto(s, IF c.op = "remove" THEN "delete"
                   ELSE IF c.op = "setup" /\ ~c.have THEN "pull" ELSE "open")
        /\ agreed' = IF c.op = "remove" THEN agreed
                     ELSE agreed \cup {IF c.op = "selfEnable" THEN "self" ELSE c.to}
        /\ UNCHANGED <<disk, given, installed, server, last, mishaps>>

\* PullModel returns nil when the stream ends, whatever its last status was.
Pull(s, complete) ==
    /\ cmd[s].pc = "pull"
    /\ Goto(s, "open")
    /\ installed' = IF complete THEN installed \cup {cmd[s].to} ELSE installed
    /\ Happens(IF complete THEN {} ELSE {"incomplete"})
    /\ UNCHANGED <<disk, given, server, last, agreed>>

\* A failed delete is a warning.
Delete(s, done) ==
    /\ cmd[s].pc = "delete"
    /\ Goto(s, "open")
    /\ installed' = IF done THEN installed \ {cmd[s].to} ELSE installed
    /\ UNCHANGED <<disk, given, server, last, agreed, mishaps>>

\* The user says no, a check or a request fails, the name cannot be opened for
\* writing, or the process is killed, before config.json.tmp is touched.
Abort(s) ==
    /\ cmd[s].pc \in {"probe", "confirm", "pull", "delete", "open"}
    /\ cmd' = [cmd EXCEPT ![s] = Idle]
    /\ Happens(IF cmd[s].op = "remove" /\ cmd[s].pc = "open" THEN {"cut"} ELSE {})
    /\ UNCHANGED <<disk, given, installed, server, last, agreed>>

-----------------------------------------------------------------------------
(* Save.                                                                    *)

Named(f, p, t, cs) == f = p \/ f = t \/ \E s \in Shells : cs[s].fd = f

\* A file that has lost its last name and is open nowhere is gone.
Reclaim(p, t, cs) ==
    contents' = [f \in Files |-> IF Named(f, p, t, cs) THEN contents[f] ELSE Empty]

Unused(f) == ~Named(f, path, tmp, cmd)

\* A Save that writes config.json itself.
MutOpen(s) ==
    /\ cmd[s].pc = "open"
    /\ \E f \in Files :
          /\ IF path # None THEN f = path
             ELSE Unused(f) /\ \A g \in Files : Unused(g) => f <= g
          /\ contents' = [contents EXCEPT ![f] = Empty]
          /\ path' = f
          /\ cmd' = [cmd EXCEPT ![s].pc = "write", ![s].fd = f]
    /\ Happens(IF \E u \in Shells \ {s} : Saving(u) THEN {"overlap"} ELSE {})
    /\ UNCHANGED <<tmp, given, installed, server, last, agreed>>

\* os.WriteFile opens config.json.tmp, whoever may have left it or be writing it,
\* and truncates it.
Open(s) ==
    /\ cmd[s].pc = "open"
    /\ \E f \in Files :
          /\ IF tmp # None THEN f = tmp
             ELSE Unused(f) /\ \A g \in Files : Unused(g) => f <= g
          /\ contents' = [contents EXCEPT ![f] = Empty]
          /\ tmp' = f
          /\ cmd' = [cmd EXCEPT ![s].pc = "write", ![s].fd = f]
    /\ Happens(IF \E u \in Shells \ {s} : Saving(u) THEN {"overlap"} ELSE {})
    /\ UNCHANGED <<path, given, installed, server, last, agreed>>

\* What a command saves: the whole configuration it has loaded, changed.
Changed(c) == Edit(c.op, c.to, c.cfg)

\* The whole text in one write, from the start of the file.  What was there already
\* and is longer shows behind it.
Over(old, new) == IF old \in {Empty, new} THEN {new} ELSE {new, Garbage}

Write(s) ==
    /\ cmd[s].pc = "write"
    /\ \E text \in Over(contents[cmd[s].fd], Changed(cmd[s])) :
          contents' = [contents EXCEPT ![cmd[s].fd] = text]
    /\ Goto(s, "rename")
    /\ UNCHANGED <<path, tmp, given, installed, server, last, agreed, mishaps>>

\* A command in progress now works on what is no longer the configuration.
Staled(s) == [u \in Shells |-> IF u = s THEN Idle
                               ELSE [cmd[u] EXCEPT !.stale = cmd[u].pc # "idle"]]

Rename(s) ==
    /\ cmd[s].pc = "rename" /\ tmp # None
    /\ path' = tmp /\ tmp' = None
    /\ cmd' = Staled(s)
    /\ Reclaim(path', tmp', cmd')
    /\ last' = <<cmd[s].op, cmd[s].to>>
    /\ Happens(IF cmd[s].stale THEN {"stale"} ELSE {})
    /\ UNCHANGED <<given, installed, server, agreed>>

Trouble(s) == {"trouble"} \cup (IF cmd[s].op = "remove" THEN {"cut"} ELSE {})

\* The rename fails, because somebody has renamed the file or for another reason,
\* and Save removes whatever has the name by now.
RenameFails(s) ==
    /\ cmd[s].pc = "rename"
    /\ tmp' = None
    /\ cmd' = [cmd EXCEPT ![s] = Idle]
    /\ Reclaim(path, tmp', cmd')
    /\ Happens(Trouble(s))
    /\ UNCHANGED <<path, given, installed, server, last, agreed>>

\* The write fails half-way, or the process is killed before or after it: the
\* name stays.
SaveDies(s) ==
    /\ Saving(s)
    /\ cmd' = [cmd EXCEPT ![s] = Idle]
    /\ \E half \in {Garbage, contents[cmd[s].fd]} :
          /\ cmd[s].pc = "rename" => half = contents[cmd[s].fd]
          /\ contents' = [f \in Files |-> IF ~Named(f, path, tmp, cmd') THEN Empty
                                          ELSE IF f = cmd[s].fd THEN half ELSE contents[f]]
    /\ Happens(Trouble(s))
    /\ UNCHANGED <<path, tmp, given, installed, server, last, agreed>>

-----------------------------------------------------------------------------
(* runServe, at the start of the process and when it re-executes itself: it *)
(* reads the configuration once, builds the hybrid client if a local model  *)
(* is enabled, and registers self_modify unless that was disabled.          *)

LocalModel(c) == IF c.enabled THEN c.name ELSE None
SelfModifyTool(c) == c.selfOn \/ ~c.selfOff

StartServer ==
    /\ server' = IF Parses THEN [up |-> TRUE, model |-> LocalModel(Loaded), tool |-> SelfModifyTool(Loaded)]
                           ELSE Down
    /\ server' # server
    /\ UNCHANGED <<disk, cmd, given, installed, last, agreed, mishaps>>

-----------------------------------------------------------------------------
Init ==
    /\ contents = [f \in Files |-> Empty] /\ path = None /\ tmp = None
    /\ cmd = [s \in Shells |-> Idle] /\ given = 0
    /\ installed = Preinstalled /\ server = Down
    /\ last = Nothing /\ agreed = {} /\ mishaps = {}

Given(s) ==
    \/ ConfigSet(s)
    \/ ModelsSetup(s) \/ ModelsEnable(s) \/ ModelsDisable(s) \/ ModelsRemove(s)
    \/ SelfmodifyEnable(s) \/ SelfmodifyDisable(s)

Proceeds(s) ==
    \/ Probe(s) \/ Confirm(s) \/ Abort(s)
    \/ \E b \in BOOLEAN : Pull(s, b) \/ Delete(s, b)
    \/ Open(s) \/ Write(s) \/ Rename(s) \/ RenameFails(s) \/ SaveDies(s)

Next == StartServer \/ \E s \in Shells : Given(s) \/ Proceeds(s)

Spec == Init /\ [][Next]_vars

-----------------------------------------------------------------------------
CommandOK(c) ==
    /\ c.op = "set" => c.to \in Values \cup {None}
    /\ c.op = "setNumCtx" => c.to \in Sizes
    /\ c.op = "setup" \/ c.op = "remove" => c.to \in Models
    /\ c.pc \in {"write", "rename"} <=> c.fd \in Files

TypeOK ==
    /\ contents \in [Files -> Contents]
    /\ path \in Files \cup {None} /\ tmp \in Files \cup {None}
    /\ path = tmp => path = None
    /\ cmd \in [Shells -> Command] /\ \A s \in Shells : CommandOK(cmd[s])
    /\ given \in 0 .. MaxCommands /\ installed \subseteq Models
    /\ server \in [up : BOOLEAN, model : Models \cup {None}, tool : BOOLEAN]
    /\ last \in (Ops \X Subjects) \cup {Nothing}
    /\ agreed \subseteq Models \cup {"self"} /\ mishaps \subseteq Mishaps

\* config.json always parses, through killed commands and failed writes, unless two
\* saves have overlapped; and even then it parses again once no save is in progress,
\* if every one of them has reported success (config.go Save).
WholeOrNoticed ==
    ~Parses => /\ "overlap" \in mishaps
               /\ "trouble" \in mishaps \/ \E s \in Shells : Saving(s)

\* No model is pulled and none is used, and self-modification is not marked as
\* enabled, unless the user has said yes to just that: in the daemon, the file and
\* the running server, whatever commands overlapped or failed (config.go:140-147,
\* 189-191).
NeverUnasked ==
    /\ installed \subseteq Preinstalled \cup agreed
    /\ Parses => /\ Loaded.enabled => Loaded.name \in agreed
                 /\ Loaded.selfOn => "self" \in agreed
    /\ server.model \in agreed \cup {None}

\* The model the configuration enables is one the daemon has, except while a remove
\* has deleted it and not saved yet: setup asks the daemon before a prompt and saves
\* after it, and remove deletes first.  Commands that were cut short between the two,
\* or got in each other's way, and a pull that ended early leave it otherwise.
EnabledIsInstalled ==
    (mishaps \subseteq {"trouble"} /\ Parses /\ Loaded.enabled) =>
        \/ Loaded.name \in installed
        \/ \E s \in Shells : /\ cmd[s].op = "remove" /\ cmd[s].to = Loaded.name
                             /\ cmd[s].pc \in {"open", "write", "rename"}

Untouched == "overlap" \notin mishaps

View(c) ==
    [model |-> c.name, local |-> c.enabled, numCtx |-> c.numCtx, value |-> c.value,
     tool |-> IF c.selfOff THEN "off" ELSE IF c.selfOn THEN "on" ELSE "default"]

\* The order behind a command in progress, and the settings it was given under.
Order(c) == [what |-> IF c.pc = "idle" THEN Nothing ELSE <<c.op, c.to>>, on |-> View(c.cfg)]

InForce == View(IF Untouched THEN Loaded ELSE Defaults)
Orders == [s \in Shells |-> Order(IF Untouched THEN cmd[s] ELSE Idle)]
LastDone == IF Untouched THEN last ELSE Nothing

Abstract == INSTANCE Settings WITH
    settings <- InForce, orders <- Orders, last <- LastDone, settled <- Untouched

\* Commands take effect one after the other, each as a whole, at its rename or never, and
\* each on the settings of the moment it was given: what others saved since then, while it
\* waited for a person or a download, is undone as a whole, never mixed with it.  So it is
\* until two saves overlap.
ImplementsSettings == Abstract!SettingsSpec
=============================================================================
