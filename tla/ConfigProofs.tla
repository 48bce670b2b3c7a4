---------------------------- MODULE ConfigProofs ----------------------------
(***************************************************************************)
(* Theorems about Config for any number of shells, commands, models and     *)
(* values: types, consent, when the file parses, that what it enables is    *)
(* there, and that the commands implement Settings.                         *)
(***************************************************************************)
EXTENDS Config, TLAPS

\* What the place a command has got to says about the command.
Placed(c) ==
    /\ CommandOK(c)
    /\ c.pc \in {"probe", "pull"} => c.op = "setup"
    /\ c.pc = "confirm" => c.op \in {"setup", "remove", "selfEnable"}
    /\ c.pc = "delete" => c.op = "remove"
    /\ c.pc # "idle" /\ c.op = "set" => c.to \in Values
    /\ c.pc # "idle" /\ c.op = "enable" => c.cfg.name # None
    /\ c.op \notin {"set", "setNumCtx", "setup", "remove"} => c.to = None

TInv == TypeOK /\ \A s \in Shells : Placed(cmd[s])

LEMMA DefaultsIsConfig == Defaults \in Configs
BY ConfigAssumption DEF Defaults, Configs

LEMMA IdleIsPlaced == Idle \in Command /\ Placed(Idle) /\ Idle.pc = "idle" /\ Idle.fd = None
<1>1. None \notin Files
  BY ConfigAssumption
<1> QED BY <1>1, DefaultsIsConfig DEF Idle, Command, Subjects, Ops, Pcs, Placed, CommandOK

\* Whatever a command has loaded, it makes a configuration of it.
LEMMA EditIsConfig ==
  ASSUME NEW c \in Command, Placed(c), c.pc # "idle"
  PROVE  Edit(c.op, c.to, c.cfg) \in Configs
<1>1. c.cfg \in Configs /\ c.op \in Ops
  BY DEF Command
<1>2. c.op = "set" => c.to \in Values
  BY DEF Placed
<1>3. /\ c.op = "setNumCtx" => c.to \in Sizes
      /\ c.op = "setup" => c.to \in Models /\ Recommended[c.to] \in Sizes
  BY ConfigAssumption DEF Placed, CommandOK
<1> QED BY <1>1, <1>2, <1>3 DEF Edit, Configs, Ops

LEMMA TInit == Init => TInv
<1> SUFFICES ASSUME Init PROVE TInv
  OBVIOUS
<1>1. \A s \in Shells : cmd[s] = Idle
  BY DEF Init
<1>2. TypeOK
  BY <1>1, IdleIsPlaced, ConfigAssumption DEF Init, TypeOK, Contents, Placed, Down, Nothing
<1> QED BY <1>1, <1>2, IdleIsPlaced DEF TInv

\* A step that leaves all but one command alone keeps TInv if it keeps the rest of the
\* types and that command is still in its place.
LEMMA TOne ==
  ASSUME TInv, NEW s \in Shells, NEW c \in Command, Placed(c),
         cmd' = [cmd EXCEPT ![s] = c]
  PROVE  cmd' \in [Shells -> Command] /\ \A u \in Shells : Placed(cmd'[u]) /\ CommandOK(cmd'[u])
<1>1. cmd \in [Shells -> Command]
  BY DEF TInv, TypeOK
<1>2. \A u \in Shells : cmd'[u] = IF u = s THEN c ELSE cmd[u]
  BY <1>1
<1> QED BY <1>1, <1>2 DEF TInv, Placed

LEMMA TBegin ==
  ASSUME TInv, NEW s \in Shells, NEW op \in Ops, NEW to \in Subjects,
         NEW pc \in {"probe", "confirm", "open"}, Begin(s, op, to, pc),
         Placed([Idle EXCEPT !.op = op, !.to = to, !.pc = pc, !.cfg = Loaded])
  PROVE  TInv'
<1> DEFINE c == [Idle EXCEPT !.op = op, !.to = to, !.pc = pc, !.cfg = Loaded]
<1>1. c \in Command
  BY IdleIsPlaced DEF Command, Pcs, Begin, Parses
<1>2. cmd' = [cmd EXCEPT ![s] = c]
  BY DEF Begin
<1>3. given' \in 0 .. MaxCommands
  BY ConfigAssumption DEF Begin, TInv, TypeOK
<1> HIDE DEF c
<1>4. cmd' \in [Shells -> Command] /\ \A u \in Shells : Placed(cmd'[u]) /\ CommandOK(cmd'[u])
  BY <1>1, <1>2, TOne DEF c
<1> QED BY <1>3, <1>4 DEF TInv, TypeOK, Begin, disk

\* How each command begins, stated once for all that is proved of it.
LEMMA Begins ==
  ASSUME NEW s \in Shells, Given(s)
  PROVE  \E op \in Ops, to \in Subjects, pc \in {"probe", "confirm", "open"} :
            /\ Begin(s, op, to, pc)
            /\ Parses
            /\ Placed([Idle EXCEPT !.op = op, !.to = to, !.pc = pc, !.cfg = Loaded])
            /\ pc = "open" => op \notin {"setup", "remove", "selfEnable"}
            /\ op = "remove" => to = Loaded.name /\ to # None
            /\ op = "enable" => Loaded.name # None
<1> DEFINE C(op, to, pc) == [Idle EXCEPT !.op = op, !.to = to, !.pc = pc, !.cfg = Loaded]
<1>0. ASSUME NEW op \in Ops, NEW to, NEW pc \in {"probe", "confirm", "open"}
      PROVE  /\ C(op, to, pc).op = op /\ C(op, to, pc).to = to /\ C(op, to, pc).pc = pc
             /\ C(op, to, pc).cfg = Loaded /\ C(op, to, pc).fd = None
  BY DEF Idle
<1>00. None \notin Files
  BY ConfigAssumption
<1>1. CASE ConfigSet(s)
  <2>1. ASSUME NEW v \in Values PROVE Placed(C("set", v, "open"))
    BY <1>0, <1>00 DEF Placed, CommandOK, Ops
  <2>2. ASSUME NEW n \in Sizes PROVE Placed(C("setNumCtx", n, "open"))
    BY <1>0, <1>00 DEF Placed, CommandOK, Ops
  <2>3. CASE \E v \in Values : Begin(s, "set", v, "open")
    BY <2>1, <2>3 DEF Ops, Subjects, Begin
  <2>4. CASE \E n \in Sizes : Begin(s, "setNumCtx", n, "open")
    BY <2>2, <2>4 DEF Ops, Subjects, Begin
  <2> QED BY <1>1, <2>3, <2>4 DEF ConfigSet
<1>2. CASE ModelsSetup(s)
  <2>1. PICK m \in Models : Begin(s, "setup", m, "probe")
    BY <1>2 DEF ModelsSetup
  <2>2. Placed(C("setup", m, "probe"))
    BY <1>0, <1>00 DEF Placed, CommandOK, Ops
  <2> QED BY <2>1, <2>2 DEF Ops, Subjects, Begin
<1>3. CASE ModelsEnable(s)
  <2>1. Begin(s, "enable", None, "open") /\ Loaded.name # None
    BY <1>3 DEF ModelsEnable, HasModel
  <2>2. Placed(C("enable", None, "open"))
    BY <2>1, <1>0, <1>00 DEF Placed, CommandOK, Ops
  <2> QED BY <2>1, <2>2 DEF Ops, Subjects, Begin
<1>4. CASE ModelsDisable(s)
  <2>1. Placed(C("disable", None, "open"))
    BY <1>0, <1>00 DEF Placed, CommandOK, Ops
  <2> QED BY <1>4, <2>1 DEF Ops, Subjects, Begin, ModelsDisable
<1>5. CASE ModelsRemove(s)
  <2>1. Begin(s, "remove", Loaded.name, "confirm") /\ Loaded.name # None /\ Parses
    BY <1>5 DEF ModelsRemove, HasModel
  <2>2. Loaded.name \in Models
    BY <2>1 DEF Parses, Configs
  <2>3. Placed(C("remove", Loaded.name, "confirm"))
    BY <2>2, <1>0, <1>00 DEF Placed, CommandOK, Ops
  <2> QED BY <2>1, <2>2, <2>3 DEF Ops, Subjects
<1>6. CASE SelfmodifyEnable(s)
  <2>1. Placed(C("selfEnable", None, "confirm"))
    BY <1>0, <1>00 DEF Placed, CommandOK, Ops
  <2> QED BY <1>6, <2>1 DEF Ops, Subjects, Begin, SelfmodifyEnable
<1>7. CASE SelfmodifyDisable(s)
  <2>1. Placed(C("selfDisable", None, "open"))
    BY <1>0, <1>00 DEF Placed, CommandOK, Ops
  <2> QED BY <1>7, <2>1 DEF Ops, Subjects, Begin, SelfmodifyDisable
<1> QED BY <1>1, <1>2, <1>3, <1>4, <1>5, <1>6, <1>7 DEF Given

LEMMA TProbe == ASSUME TInv, NEW s \in Shells, Probe(s) PROVE TInv'
<1> DEFINE h == cmd[s].to \in installed
           c == [cmd[s] EXCEPT !.have = h, !.pc = "confirm"]
<1>0. cmd[s] \in Command /\ Placed(cmd[s])
  BY DEF TInv, TypeOK
<1>3. cmd' = [cmd EXCEPT ![s] = c]
  BY DEF Probe, TInv, TypeOK
<1>h. h \in BOOLEAN
  OBVIOUS
<1> HIDE DEF h
<1>1. c \in Command
  BY <1>0, <1>h DEF Command, Pcs
<1>2. Placed(c)
  BY <1>0 DEF Command, Placed, CommandOK, Probe
<1> HIDE DEF c
<1>4. cmd' \in [Shells -> Command] /\ \A u \in Shells : Placed(cmd'[u]) /\ CommandOK(cmd'[u])
  BY <1>1, <1>2, <1>3, TOne
<1> QED BY <1>4 DEF TInv, TypeOK, Probe, disk

LEMMA TMoves ==
  ASSUME TInv, NEW s \in Shells, NEW pc \in Pcs, Goto(s, pc), Placed([cmd[s] EXCEPT !.pc = pc])
  PROVE  cmd' \in [Shells -> Command] /\ \A u \in Shells : Placed(cmd'[u]) /\ CommandOK(cmd'[u])
<1> DEFINE c == [cmd[s] EXCEPT !.pc = pc]
<1>1. c \in Command
  BY DEF TInv, TypeOK, Command
<1>2. cmd' = [cmd EXCEPT ![s] = c]
  BY DEF Goto, TInv, TypeOK
<1> HIDE DEF c
<1>3. Placed(c)
  BY DEF c
<1> QED BY <1>1, <1>2, <1>3, TOne

LEMMA TConfirm == ASSUME TInv, NEW s \in Shells, Confirm(s) PROVE TInv'
<1>0. cmd[s] \in Command /\ Placed(cmd[s])
  BY DEF TInv, TypeOK
<1> DEFINE pc == IF cmd[s].op = "remove" THEN "delete"
                 ELSE IF cmd[s].op = "setup" /\ ~cmd[s].have THEN "pull" ELSE "open"
<1>1. Goto(s, pc) /\ pc \in Pcs
  BY DEF Confirm, Pcs
<1>2. Placed([cmd[s] EXCEPT !.pc = pc])
  BY <1>0 DEF Command, Placed, CommandOK, Confirm
<1>3. agreed' \subseteq Models \cup {"self"}
  BY <1>0 DEF Confirm, Placed, CommandOK, TInv, TypeOK
<1>4. cmd' \in [Shells -> Command] /\ \A u \in Shells : Placed(cmd'[u]) /\ CommandOK(cmd'[u])
  BY <1>1, <1>2, TMoves
<1> QED BY <1>3, <1>4 DEF TInv, TypeOK, Confirm, disk

LEMMA TPullDelete ==
  ASSUME TInv, NEW s \in Shells, NEW b \in BOOLEAN, Pull(s, b) \/ Delete(s, b)
  PROVE  TInv'
<1>0. cmd[s] \in Command /\ Placed(cmd[s])
  BY DEF TInv, TypeOK
<1>1. Goto(s, "open") /\ cmd[s].pc \in {"pull", "delete"} /\ "open" \in Pcs
  BY DEF Pull, Delete, Pcs
<1>2. Placed([cmd[s] EXCEPT !.pc = "open"])
  BY <1>0, <1>1 DEF Command, Placed, CommandOK
<1>3. installed' \subseteq Models
  BY <1>0 DEF Pull, Delete, Placed, CommandOK, TInv, TypeOK
<1>4. cmd' \in [Shells -> Command] /\ \A u \in Shells : Placed(cmd'[u]) /\ CommandOK(cmd'[u])
  BY <1>1, <1>2, TMoves
<1>5. mishaps' \subseteq Mishaps
  BY DEF Pull, Delete, Happens, Mishaps, TInv, TypeOK
<1> QED BY <1>3, <1>4, <1>5 DEF TInv, TypeOK, Pull, Delete, disk

LEMMA TAbort == ASSUME TInv, NEW s \in Shells, Abort(s) PROVE TInv'
<1>1. cmd' \in [Shells -> Command] /\ \A u \in Shells : Placed(cmd'[u]) /\ CommandOK(cmd'[u])
  BY IdleIsPlaced, TOne DEF Abort
<1>2. mishaps' \subseteq Mishaps
  BY DEF Abort, Happens, Mishaps, TInv, TypeOK
<1> QED BY <1>1, <1>2 DEF TInv, TypeOK, Abort, disk

-----------------------------------------------------------------------------
(* The steps of Save.                                                       *)

LEMMA TOpen == ASSUME TInv, NEW s \in Shells, Open(s) PROVE TInv'
<1>0. cmd[s] \in Command /\ Placed(cmd[s]) /\ cmd[s].pc = "open"
  BY DEF TInv, TypeOK, Open
<1>1. PICK f \in Files :
        /\ IF tmp # None THEN f = tmp ELSE Unused(f)
        /\ contents' = [contents EXCEPT ![f] = Empty]
        /\ tmp' = f
        /\ cmd' = [cmd EXCEPT ![s].pc = "write", ![s].fd = f]
  BY DEF Open
<1> DEFINE c == [cmd[s] EXCEPT !.pc = "write", !.fd = f]
<1>2. c \in Command
  BY <1>0 DEF Command, Pcs
<1>3. Placed(c)
  BY <1>0 DEF Placed, CommandOK, Command
<1>4. cmd' = [cmd EXCEPT ![s] = c]
  BY <1>1 DEF TInv, TypeOK
<1>5. tmp' # path
  BY <1>1, ConfigAssumption DEF Unused, Named, TInv, TypeOK
<1>6. mishaps' \subseteq Mishaps
  BY DEF Open, Happens, Mishaps, TInv, TypeOK
<1>7. contents' \in [Files -> Contents]
  BY <1>1 DEF TInv, TypeOK, Contents
<1> HIDE DEF c
<1>8. cmd' \in [Shells -> Command] /\ \A u \in Shells : Placed(cmd'[u]) /\ CommandOK(cmd'[u])
  BY <1>2, <1>3, <1>4, TOne
<1> QED BY <1>1, <1>5, <1>6, <1>7, <1>8 DEF TInv, TypeOK, Open

LEMMA TWrite == ASSUME TInv, NEW s \in Shells, Write(s) PROVE TInv'
<1>0. cmd[s] \in Command /\ Placed(cmd[s]) /\ cmd[s].pc = "write" /\ cmd[s].fd \in Files
  BY DEF TInv, TypeOK, Write, CommandOK
<1>1. PICK text \in Over(contents[cmd[s].fd], Changed(cmd[s])) :
        contents' = [contents EXCEPT ![cmd[s].fd] = text]
  BY DEF Write
<1>2. text \in Contents
  BY <1>0, EditIsConfig DEF Over, Contents, Changed
<1>3. contents' \in [Files -> Contents]
  BY <1>0, <1>1, <1>2 DEF TInv, TypeOK
<1>4. Placed([cmd[s] EXCEPT !.pc = "rename"])
  BY <1>0 DEF Command, Placed, CommandOK
<1>5. cmd' \in [Shells -> Command] /\ \A u \in Shells : Placed(cmd'[u]) /\ CommandOK(cmd'[u])
  BY <1>4, TMoves DEF Write, Pcs
<1> QED BY <1>3, <1>5 DEF TInv, TypeOK, Write

LEMMA TReclaim ==
  ASSUME TInv, NEW p, NEW t, NEW cs, Reclaim(p, t, cs)
  PROVE  contents' \in [Files -> Contents]
BY DEF TInv, TypeOK, Reclaim, Contents

LEMMA TRename == ASSUME TInv, NEW s \in Shells, Rename(s) PROVE TInv'
<1>0. cmd[s] \in Command /\ Placed(cmd[s]) /\ cmd \in [Shells -> Command]
  BY DEF TInv, TypeOK
<1>1. contents' \in [Files -> Contents]
  BY TReclaim DEF Rename
<1>2. ASSUME NEW u \in Shells
      PROVE  cmd'[u] \in Command /\ Placed(cmd'[u]) /\ CommandOK(cmd'[u])
  <2>1. CASE u = s
    BY <2>1, IdleIsPlaced DEF Rename, Staled, Placed
  <2>2. CASE u # s
    <3> DEFINE b == cmd[u].pc # "idle"
    <3>1. cmd'[u] = [cmd[u] EXCEPT !.stale = b]
      BY <2>2 DEF Rename, Staled
    <3>2. b \in BOOLEAN /\ cmd[u] \in Command /\ Placed(cmd[u])
      BY DEF TInv, TypeOK
    <3> HIDE DEF b
    <3> QED BY <3>1, <3>2 DEF Command, Placed, CommandOK
  <2> QED BY <2>1, <2>2
<1>3. cmd' \in [Shells -> Command]
  BY <1>2 DEF Rename, Staled
<1>4. last' \in Ops \X Subjects
  BY <1>0 DEF Rename, Command
<1>5. mishaps' \subseteq Mishaps
  BY DEF Rename, Happens, Mishaps, TInv, TypeOK
<1>6. path' \in Files /\ tmp' = None /\ None \notin Files
  BY ConfigAssumption DEF Rename, TInv, TypeOK
<1> QED BY <1>1, <1>2, <1>3, <1>4, <1>5, <1>6 DEF TInv, TypeOK, Rename

LEMMA TRenameFails == ASSUME TInv, NEW s \in Shells, RenameFails(s) PROVE TInv'
<1>1. contents' \in [Files -> Contents]
  BY TReclaim DEF RenameFails
<1>2. cmd' \in [Shells -> Command] /\ \A u \in Shells : Placed(cmd'[u]) /\ CommandOK(cmd'[u])
  BY IdleIsPlaced, TOne DEF RenameFails
<1>3. mishaps' \subseteq Mishaps
  BY DEF RenameFails, Happens, Trouble, Mishaps, TInv, TypeOK
<1> QED BY <1>1, <1>2, <1>3 DEF TInv, TypeOK, RenameFails

LEMMA TSaveDies == ASSUME TInv, NEW s \in Shells, SaveDies(s) PROVE TInv'
<1>0. cmd[s].fd \in Files
  BY DEF TInv, TypeOK, SaveDies, Saving, CommandOK
<1>1. PICK half \in {Garbage, contents[cmd[s].fd]} :
        contents' = [f \in Files |-> IF ~Named(f, path, tmp, cmd') THEN Empty
                                     ELSE IF f = cmd[s].fd THEN half ELSE contents[f]]
  BY DEF SaveDies
<1>2. contents' \in [Files -> Contents]
  BY <1>0, <1>1 DEF TInv, TypeOK, Contents
<1>3. cmd' \in [Shells -> Command] /\ \A u \in Shells : Placed(cmd'[u]) /\ CommandOK(cmd'[u])
  BY IdleIsPlaced, TOne DEF SaveDies
<1>4. mishaps' \subseteq Mishaps
  BY DEF SaveDies, Happens, Trouble, Mishaps, TInv, TypeOK
<1> QED BY <1>2, <1>3, <1>4 DEF TInv, TypeOK, SaveDies

LEMMA TStartServer == ASSUME TInv, StartServer PROVE TInv'
<1>1. server' \in [up : BOOLEAN, model : Models \cup {None}, tool : BOOLEAN]
  <2>1. CASE ~Parses
    BY <2>1 DEF StartServer, Down
  <2>2. CASE Parses
    <3> DEFINE b == SelfModifyTool(Loaded)
    <3>1. server' = [up |-> TRUE, model |-> LocalModel(Loaded), tool |-> b]
      BY <2>2 DEF StartServer
    <3>2. b \in BOOLEAN
      BY DEF SelfModifyTool
    <3>3. LocalModel(Loaded) \in Models \cup {None}
      BY <2>2 DEF Parses, Configs, LocalModel
    <3> HIDE DEF b
    <3> QED BY <3>1, <3>2, <3>3
  <2> QED BY <2>1, <2>2
<1> QED BY <1>1 DEF TInv, TypeOK, StartServer, disk

LEMMA TStep == TInv /\ [Next]_vars => TInv'
<1> SUFFICES ASSUME TInv, [Next]_vars PROVE TInv'
  OBVIOUS
<1>1. CASE UNCHANGED vars
  BY <1>1 DEF TInv, TypeOK, vars
<1>2. CASE StartServer
  BY <1>2, TStartServer
<1>3. ASSUME NEW s \in Shells, Given(s) PROVE TInv'
  BY <1>3, Begins, TBegin
<1>4. ASSUME NEW s \in Shells, Proceeds(s) PROVE TInv'
  BY <1>4, TProbe, TConfirm, TAbort, TPullDelete, TOpen, TWrite, TRename, TRenameFails, TSaveDies
  DEF Proceeds
<1> QED BY <1>1, <1>2, <1>3, <1>4 DEF Next

\* Whatever commands are given, in however many shells, every variable keeps its type.
THEOREM TypeCorrect == Spec => []TypeOK
<1>1. TInv => TypeOK
  BY DEF TInv
<1> QED BY TInit, TStep, <1>1, PTL DEF Spec

-----------------------------------------------------------------------------
(* Consent: what the file, every copy of it in a file or in a command, the  *)
(* daemon and the server hold has been agreed to.                           *)

AgreedTo(c, yes) ==
    /\ c.name \in yes \cup {None}
    /\ c.enabled => c.name # None
    /\ c.selfOn => "self" \in yes

\* A command past its prompt has been agreed to as well.
Asked(c, yes) ==
    /\ AgreedTo(c.cfg, yes)
    /\ c.op = "setup" /\ c.pc \notin {"idle", "probe", "confirm"} => c.to \in yes
    /\ c.op = "selfEnable" /\ c.pc \notin {"idle", "confirm"} => "self" \in yes

Consent ==
    /\ \A f \in Files : contents[f] \in Configs => AgreedTo(contents[f], agreed)
    /\ \A s \in Shells : Asked(cmd[s], agreed)
    /\ installed \subseteq Preinstalled \cup agreed
    /\ server.model \in agreed \cup {None}

LEMMA CLoaded == ASSUME TInv, Consent, Parses PROVE AgreedTo(Loaded, agreed)
<1>1. CASE path = None
  BY <1>1 DEF Loaded, Defaults, AgreedTo
<1>2. CASE path # None
  <2>1. path \in Files
    BY <1>2 DEF TInv, TypeOK
  <2> QED BY <1>2, <2>1 DEF Loaded, Parses, Consent
<1> QED BY <1>1, <1>2

LEMMA CIdle == \A yes : Asked(Idle, yes)
BY DEF Idle, Asked, AgreedTo, Defaults

LEMMA CInit == Init => Consent
<1> SUFFICES ASSUME Init PROVE Consent
  OBVIOUS
<1>1. \A f \in Files : contents[f] = Empty
  BY DEF Init
<1> QED BY <1>1, CIdle, ContentsAssumption DEF Init, Consent, Down

\* What was agreed to stays so; a step keeps Consent if every content it leaves is an old
\* one or has been agreed to, and so have the commands it changes.
LEMMA CKeeps ==
  ASSUME Consent, agreed \subseteq agreed',
         \A f \in Files : contents'[f] \in Configs =>
            contents'[f] = contents[f] \/ AgreedTo(contents'[f], agreed'),
         \A s \in Shells : cmd'[s] = cmd[s] \/ Asked(cmd'[s], agreed'),
         installed' \subseteq Preinstalled \cup agreed', server'.model \in agreed' \cup {None}
  PROVE  Consent'
<1>1. ASSUME NEW c, AgreedTo(c, agreed) PROVE AgreedTo(c, agreed')
  BY <1>1 DEF AgreedTo
<1>2. ASSUME NEW f \in Files, contents'[f] \in Configs PROVE AgreedTo(contents'[f], agreed')
  BY <1>1, <1>2 DEF Consent, Asked
<1>3. ASSUME NEW s \in Shells PROVE Asked(cmd'[s], agreed')
  BY <1>1 DEF Consent, Asked
<1> QED BY <1>2, <1>3 DEF Consent

\* A step of one command, which leaves the files alone.
LEMMA COne ==
  ASSUME TInv, Consent, agreed \subseteq agreed', UNCHANGED contents,
         NEW s \in Shells, NEW c, cmd' = [cmd EXCEPT ![s] = c], Asked(c, agreed'),
         installed' \subseteq Preinstalled \cup agreed', UNCHANGED server
  PROVE  Consent'
<1>1. \A u \in Shells : cmd'[u] = IF u = s THEN c ELSE cmd[u]
  BY DEF TInv, TypeOK
<1>2. server'.model \in agreed' \cup {None}
  BY DEF Consent
<1> QED BY <1>1, <1>2, CKeeps

LEMMA CBegins == ASSUME TInv, Consent, NEW s \in Shells, Given(s) PROVE Consent'
<1>1. PICK op \in Ops, to \in Subjects, pc \in {"probe", "confirm", "open"} :
        /\ Begin(s, op, to, pc) /\ Parses
        /\ Placed([Idle EXCEPT !.op = op, !.to = to, !.pc = pc, !.cfg = Loaded])
        /\ pc = "open" => op \notin {"setup", "remove", "selfEnable"}
  BY Begins
<1> DEFINE c == [Idle EXCEPT !.op = op, !.to = to, !.pc = pc, !.cfg = Loaded]
<1>2. c.op = op /\ c.pc = pc /\ c.cfg = Loaded /\ c.to = to
  BY DEF Idle
<1>3. pc = "confirm" => op \in {"setup", "remove", "selfEnable"}
  BY <1>1, <1>2 DEF Placed
<1>4. pc = "probe" => op = "setup"
  BY <1>1, <1>2 DEF Placed
<1>5. Asked(c, agreed)
  BY <1>1, <1>2, <1>3, <1>4, CLoaded DEF Asked
<1>6. cmd' = [cmd EXCEPT ![s] = c]
  BY <1>1 DEF Begin
<1> HIDE DEF c
<1> QED BY <1>1, <1>5, <1>6, COne DEF Begin, disk, Consent

LEMMA CMoves ==
  ASSUME TInv, Consent, NEW s \in Shells, Probe(s) \/ Confirm(s)
  PROVE  Consent'
<1> DEFINE h == cmd[s].to \in installed
           past == IF cmd[s].op = "remove" THEN "delete"
                   ELSE IF cmd[s].op = "setup" /\ ~cmd[s].have THEN "pull" ELSE "open"
<1>0. cmd \in [Shells -> Command] /\ Placed(cmd[s]) /\ Asked(cmd[s], agreed) /\ cmd[s] \in Command
  BY DEF TInv, TypeOK, Consent
<1>1. CASE Probe(s)
  <2> DEFINE c == [cmd[s] EXCEPT !.have = h, !.pc = "confirm"]
  <2>1. cmd' = [cmd EXCEPT ![s] = c]
    BY <1>0, <1>1 DEF Probe
  <2> HIDE DEF h
  <2>2. cmd[s].op = "setup"
    BY <1>0, <1>1 DEF Placed, Probe
  <2>3. c.pc = "confirm" /\ c.op = "setup" /\ c.cfg = cmd[s].cfg
    BY <1>0, <2>2 DEF Command
  <2>4. Asked(c, agreed')
    BY <1>0, <1>1, <2>3 DEF Asked, Probe
  <2> HIDE DEF c
  <2> QED BY <1>1, <2>1, <2>4, COne DEF Probe, disk, Consent
<1>2. CASE Confirm(s)
  <2> DEFINE c == [cmd[s] EXCEPT !.pc = past]
  <2>1. cmd' = [cmd EXCEPT ![s] = c]
    BY <1>0, <1>2 DEF Confirm, Goto
  <2>2. c.op = cmd[s].op /\ c.cfg = cmd[s].cfg /\ c.to = cmd[s].to
    BY <1>0 DEF Command
  <2>3. agreed \subseteq agreed' /\ cmd[s].op = "setup" => cmd[s].to \in agreed'
    BY <1>2 DEF Confirm
  <2>4. cmd[s].op = "selfEnable" => "self" \in agreed'
    BY <1>2 DEF Confirm
  <2>5. Asked(c, agreed')
    BY <1>0, <1>2, <2>2, <2>3, <2>4 DEF Asked, AgreedTo, Confirm
  <2> HIDE DEF c
  <2> QED BY <1>2, <2>1, <2>5, COne DEF Confirm, disk, Consent
<1> QED BY <1>1, <1>2

LEMMA CPullDelete ==
  ASSUME TInv, Consent, NEW s \in Shells, NEW b \in BOOLEAN, Pull(s, b) \/ Delete(s, b)
  PROVE  Consent'
<1> DEFINE c == [cmd[s] EXCEPT !.pc = "open"]
<1>0. cmd \in [Shells -> Command] /\ Placed(cmd[s]) /\ Asked(cmd[s], agreed) /\ cmd[s] \in Command
  BY DEF TInv, TypeOK, Consent
<1>1. cmd' = [cmd EXCEPT ![s] = c]
  BY <1>0 DEF Pull, Delete, Goto
<1>2. cmd[s].op \in {"setup", "remove"} /\ cmd[s].pc \in {"pull", "delete"}
      /\ (cmd[s].pc = "pull" => cmd[s].op = "setup") /\ (cmd[s].pc = "delete" => cmd[s].op = "remove")
  BY <1>0 DEF Pull, Delete, Placed
<1>3. Asked(c, agreed)
  BY <1>0, <1>2 DEF Asked, Command
<1>4. installed' \subseteq Preinstalled \cup agreed
  BY <1>0, <1>2 DEF Pull, Delete, Consent, Asked
<1> HIDE DEF c
<1> QED BY <1>1, <1>3, <1>4, COne DEF Pull, Delete, disk

LEMMA COpen == ASSUME TInv, Consent, NEW s \in Shells, Open(s) PROVE Consent'
<1>0. /\ cmd \in [Shells -> Command] /\ Asked(cmd[s], agreed)
      /\ cmd[s] \in Command /\ cmd[s].pc = "open"
  BY DEF TInv, TypeOK, Consent, Open
<1>1. PICK f \in Files :
        /\ contents' = [contents EXCEPT ![f] = Empty]
        /\ cmd' = [cmd EXCEPT ![s].pc = "write", ![s].fd = f]
  BY DEF Open
<1> DEFINE c == [cmd[s] EXCEPT !.pc = "write", !.fd = f]
<1>2. cmd' = [cmd EXCEPT ![s] = c]
  BY <1>0, <1>1
<1>3. Asked(c, agreed)
  BY <1>0 DEF Asked, Command
<1>4. \A g \in Files : contents'[g] \in Configs => contents'[g] = contents[g]
  BY <1>1, ContentsAssumption DEF TInv, TypeOK
<1> HIDE DEF c
<1>5. \A u \in Shells : cmd'[u] = cmd[u] \/ Asked(cmd'[u], agreed')
  BY <1>0, <1>2, <1>3 DEF Open
<1> QED BY <1>4, <1>5, CKeeps DEF Open, Consent

\* What a command saves has been agreed to as what it loaded has, and its own change.
LEMMA CChanged ==
  ASSUME NEW c \in Command, Placed(c), Asked(c, agreed), c.pc \in {"write", "rename"}
  PROVE  AgreedTo(Changed(c), agreed)
<1>1. c.op \in Ops /\ c.cfg \in Configs
  BY DEF Command
<1>2. c.op = "setup" => c.to \in agreed /\ c.to \in Models /\ None \notin Models
  BY ConfigAssumption DEF Asked, Placed, CommandOK
<1>3. c.op = "selfEnable" => "self" \in agreed
  BY DEF Asked
<1>4. c.op = "enable" => c.cfg.name # None
  BY DEF Placed
<1>5. AgreedTo(c.cfg, agreed)
  BY DEF Asked
<1> QED BY <1>1, <1>2, <1>3, <1>4, <1>5 DEF Changed, Edit, AgreedTo, Configs, Ops

LEMMA CWrite == ASSUME TInv, Consent, NEW s \in Shells, Write(s) PROVE Consent'
<1> DEFINE c == [cmd[s] EXCEPT !.pc = "rename"]
           new == Changed(cmd[s])
<1>0. /\ cmd \in [Shells -> Command] /\ Placed(cmd[s]) /\ Asked(cmd[s], agreed)
      /\ cmd[s] \in Command /\ cmd[s].pc = "write"
  BY DEF TInv, TypeOK, Consent, Write
<1>1. PICK text \in {new, Garbage} : contents' = [contents EXCEPT ![cmd[s].fd] = text]
  BY DEF Write, Over
<1>2. cmd' = [cmd EXCEPT ![s] = c]
  BY <1>0 DEF Write, Goto
<1>3. Asked(c, agreed)
  BY <1>0 DEF Asked, Command
<1>4. AgreedTo(new, agreed)
  BY <1>0, CChanged
<1> HIDE DEF c, new
<1>5. \A g \in Files : contents'[g] \in Configs =>
        contents'[g] = contents[g] \/ AgreedTo(contents'[g], agreed)
  BY <1>1, <1>4, ContentsAssumption DEF TInv, TypeOK
<1>6. \A u \in Shells : cmd'[u] = cmd[u] \/ Asked(cmd'[u], agreed')
  BY <1>0, <1>2, <1>3 DEF Write
<1> QED BY <1>5, <1>6, CKeeps DEF Write, Consent

\* Steps that end a command and lose files or their contents.
LEMMA CEnds ==
  ASSUME TInv, Consent, NEW s \in Shells,
         Rename(s) \/ RenameFails(s) \/ SaveDies(s) \/ Abort(s)
  PROVE  Consent'
<1>1. \A f \in Files : contents'[f] \in Configs => contents'[f] = contents[f]
  BY ContentsAssumption DEF Rename, RenameFails, SaveDies, Abort, Reclaim, disk
<1>2. ASSUME NEW u \in Shells PROVE cmd'[u] = cmd[u] \/ Asked(cmd'[u], agreed)
  <2>1. CASE Rename(s)
    <3>1. cmd'[u] = Idle \/ cmd'[u] = [cmd[u] EXCEPT !.stale = cmd[u].pc # "idle"]
      BY <2>1 DEF Rename, Staled
    <3>2. cmd[u] \in Command /\ Asked(cmd[u], agreed)
      BY DEF TInv, TypeOK, Consent
    <3> QED BY <3>1, <3>2, CIdle DEF Asked, Command
  <2>2. CASE RenameFails(s) \/ SaveDies(s) \/ Abort(s)
    <3>1. cmd' = [cmd EXCEPT ![s] = Idle]
      BY <2>2 DEF RenameFails, SaveDies, Abort
    <3> QED BY <3>1, CIdle DEF TInv, TypeOK
  <2> QED BY <2>1, <2>2
<1> QED BY <1>1, <1>2, CKeeps DEF Rename, RenameFails, SaveDies, Abort, Consent

LEMMA CStartServer == ASSUME TInv, Consent, StartServer PROVE Consent'
<1>1. server'.model \in agreed \cup {None}
  BY CLoaded DEF StartServer, Down, LocalModel, AgreedTo
<1> QED BY <1>1 DEF StartServer, Consent, disk

LEMMA CStep == TInv /\ Consent /\ [Next]_vars => Consent'
<1> SUFFICES ASSUME TInv, Consent, [Next]_vars PROVE Consent'
  OBVIOUS
<1>1. CASE UNCHANGED vars
  BY <1>1 DEF Consent, vars
<1>2. CASE StartServer
  BY <1>2, CStartServer
<1>3. ASSUME NEW s \in Shells, Given(s) PROVE Consent'
  BY <1>3, CBegins
<1>4. ASSUME NEW s \in Shells, Proceeds(s) PROVE Consent'
  BY <1>4, CMoves, CPullDelete, COpen, CWrite, CEnds DEF Proceeds
<1> QED BY <1>1, <1>2, <1>3, <1>4 DEF Next

\* However many commands overlap, fail or are killed, nobody's model is pulled, used or
\* enabled, and self-modification is not marked as enabled, without a yes to just that.
THEOREM AlwaysAsked == Spec => []NeverUnasked
<1>1. TInv /\ Consent => NeverUnasked
  BY CLoaded DEF NeverUnasked, AgreedTo, Consent
<1> QED BY TInit, TStep, CInit, CStep, <1>1, PTL DEF Spec

-----------------------------------------------------------------------------
(* The file.  As long as saves do not overlap, the one in progress owns     *)
(* config.json.tmp and knows what is in it.  As long as each of them        *)
(* succeeds, a file that is still named config.json.tmp has a writer, and   *)
(* one with a single writer is not mixed up.                                *)

Known(s) ==
    /\ cmd[s].pc = "write" => contents[tmp] = Empty
    /\ cmd[s].pc = "rename" => contents[tmp] = Changed(cmd[s])

Lone ==
    "overlap" \notin mishaps =>
        /\ Parses
        /\ \A s \in Shells : Saving(s) => cmd[s].fd = tmp /\ Known(s)
        /\ \A s, u \in Shells : Saving(s) /\ Saving(u) => s = u

Sole(s) == cmd[s].fd = tmp /\ \A u \in Shells \ {s} : cmd[u].fd # tmp

Unmixed(s) ==
    /\ cmd[s].pc = "write" => contents[tmp] = Empty
    /\ cmd[s].pc = "rename" => contents[tmp] \in Configs

Manned ==
    "trouble" \notin mishaps =>
        /\ Parses \/ \E s \in Shells : Saving(s)
        /\ tmp # None => /\ \E s \in Shells : cmd[s].fd = tmp
                         /\ \A s \in Shells : Sole(s) => Unmixed(s)

FInv == Lone /\ Manned

LEMMA FInit == Init => FInv
<1> SUFFICES ASSUME Init PROVE FInv
  OBVIOUS
<1>1. Parses /\ tmp = None
  BY DefaultsIsConfig DEF Init, Parses, Loaded
<1>2. \A s \in Shells : ~Saving(s)
  BY DEF Init, Idle, Saving
<1> QED BY <1>1, <1>2 DEF FInv, Lone, Manned

LEMMA Holds ==
  ASSUME TInv, NEW s \in Shells
  PROVE  Saving(s) <=> cmd[s].fd \in Files
BY DEF TInv, TypeOK, CommandOK, Saving

\* A step that leaves the files and every save in progress alone.
LEMMA FQuiet ==
  ASSUME TInv, TInv', FInv, UNCHANGED disk, mishaps \subseteq mishaps',
         \A s \in Shells : cmd'[s] = cmd[s] \/ (~Saving(s) /\ ~Saving(s)')
  PROVE  FInv'
<1>1. Parses' = Parses /\ tmp' = tmp /\ contents' = contents
  BY DEF Parses, Loaded, disk
<1>2. \A s \in Shells : Saving(s)' <=> Saving(s)
  BY DEF Saving
<1>3. \A s \in Shells : Saving(s) => cmd'[s] = cmd[s]
  OBVIOUS
<1>4. \A s \in Shells : (Saving(s) <=> cmd[s].fd \in Files) /\ (Saving(s)' <=> cmd'[s].fd \in Files)
  BY Holds DEF TInv, TypeOK, CommandOK, Saving
<1>5. Lone'
  BY <1>1, <1>2, <1>3 DEF FInv, Lone, Known
<1>6. ASSUME tmp # None PROVE \A s \in Shells : cmd'[s].fd = tmp <=> cmd[s].fd = tmp
  BY <1>2, <1>3, <1>4, <1>6 DEF TInv, TypeOK
<1>7. ASSUME tmp # None, NEW s \in Shells, Sole(s)' PROVE Sole(s) /\ cmd'[s] = cmd[s]
  <2>1. Sole(s)
    BY <1>1, <1>6, <1>7 DEF Sole
  <2>2. Saving(s)
    BY <2>1, <1>4, <1>7 DEF Sole, TInv, TypeOK
  <2> QED BY <2>1, <2>2, <1>3
<1>8. Manned'
  BY <1>1, <1>2, <1>6, <1>7 DEF FInv, Manned, Unmixed
<1> QED BY <1>5, <1>8 DEF FInv

\* What the steps of one command do to that command.
LEMMA One ==
  ASSUME TInv, NEW s \in Shells, NEW c, cmd' = [cmd EXCEPT ![s] = c]
  PROVE  \A u \in Shells : cmd'[u] = IF u = s THEN c ELSE cmd[u]
BY DEF TInv, TypeOK

\* Opening config.json.tmp never touches config.json.
LEMMA OpenKeeps ==
  ASSUME TInv, NEW s \in Shells, Open(s)
  PROVE  Loaded' = Loaded
<1>1. PICK f \in Files : /\ IF tmp # None THEN f = tmp ELSE Unused(f)
                         /\ contents' = [contents EXCEPT ![f] = Empty]
  BY DEF Open
<1>2. path' = path /\ f # path
  BY <1>1, ConfigAssumption DEF Open, Unused, Named, TInv, TypeOK
<1> QED BY <1>1, <1>2 DEF Loaded, TInv, TypeOK

LEMMA FOpen == ASSUME TInv, TInv', FInv, NEW s \in Shells, Open(s) PROVE FInv'
<1>1. PICK f \in Files :
        /\ IF tmp # None THEN f = tmp ELSE Unused(f)
        /\ contents' = [contents EXCEPT ![f] = Empty]
        /\ tmp' = f
        /\ cmd' = [cmd EXCEPT ![s].pc = "write", ![s].fd = f]
  BY DEF Open
<1>2. /\ cmd'[s].pc = "write" /\ cmd'[s].fd = f
      /\ \A u \in Shells \ {s} : cmd'[u] = cmd[u]
  BY <1>1 DEF TInv, TypeOK, Command
<1>3. contents'[f] = Empty /\ \A g \in Files \ {f} : contents'[g] = contents[g]
  BY <1>1 DEF TInv, TypeOK
<1>4. Saving(s)' /\ \A u \in Shells \ {s} : Saving(u)' <=> Saving(u)
  BY <1>2 DEF Saving
<1>6. Loaded' = Loaded
  BY OpenKeeps
<1>7. Lone'
  <2> SUFFICES ASSUME "overlap" \notin mishaps'
               PROVE  /\ Parses'
                      /\ \A u \in Shells : Saving(u)' => cmd'[u].fd = tmp' /\ Known(u)'
                      /\ \A v, u \in Shells : Saving(v)' /\ Saving(u)' => v = u
    BY DEF Lone
  <2>1. "overlap" \notin mishaps /\ \A u \in Shells \ {s} : ~Saving(u)
    BY DEF Open, Happens
  <2>2. Parses'
    BY <2>1, <1>6 DEF FInv, Lone, Parses
  <2>3. \A u \in Shells : Saving(u)' => u = s
    BY <2>1, <1>4
  <2>4. Known(s)' /\ cmd'[s].fd = tmp'
    BY <1>1, <1>2, <1>3 DEF Known
  <2> QED BY <2>2, <2>3, <2>4
<1>8. Manned'
  <2>1. \E u \in Shells : cmd'[u].fd = tmp'
    BY <1>1, <1>2
  <2>2. ASSUME NEW u \in Shells, Sole(u)' PROVE Unmixed(u)'
    <3>1. u = s
      BY <1>1, <1>2, <2>2 DEF Sole
    <3> QED BY <3>1, <1>1, <1>2, <1>3 DEF Unmixed
  <2> QED BY <1>4, <2>1, <2>2 DEF Manned
<1> QED BY <1>7, <1>8 DEF FInv

LEMMA FWrite == ASSUME TInv, TInv', FInv, NEW s \in Shells, Write(s) PROVE FInv'
<1> DEFINE f == cmd[s].fd
           c == [cmd[s] EXCEPT !.pc = "rename"]
           new == Changed(cmd[s])
<1>0. /\ cmd \in [Shells -> Command] /\ cmd[s] \in Command /\ cmd[s].pc = "write" /\ f \in Files
      /\ new \in Configs /\ Saving(s) /\ tmp' = tmp /\ path' = path
  BY EditIsConfig DEF TInv, TypeOK, CommandOK, Write, Saving, Changed
<1>1. PICK text \in Over(contents[f], new) : contents' = [contents EXCEPT ![f] = text]
  BY DEF Write
<1>2. cmd' = [cmd EXCEPT ![s] = c]
  BY <1>0 DEF Write, Goto
<1>3. c.fd = f /\ Changed(c) = new /\ c.pc = "rename"
  BY <1>0 DEF Command, Changed
<1>4. \A u \in Shells : cmd'[u] = IF u = s THEN c ELSE cmd[u]
  BY <1>2, One
<1>5. contents'[f] = text /\ \A g \in Files \ {f} : contents'[g] = contents[g]
  BY <1>0, <1>1 DEF TInv, TypeOK
<1> HIDE DEF c, f, new
<1>6. \A u \in Shells : (Saving(u)' <=> Saving(u)) /\ cmd'[u].fd = cmd[u].fd
  BY <1>0, <1>3, <1>4 DEF Saving, f
<1>7. Lone'
  <2> SUFFICES ASSUME "overlap" \notin mishaps'
               PROVE  /\ Parses'
                      /\ \A u \in Shells : Saving(u)' => cmd'[u].fd = tmp' /\ Known(u)'
                      /\ \A v, u \in Shells : Saving(v)' /\ Saving(u)' => v = u
    BY DEF Lone
  <2>1. "overlap" \notin mishaps
    BY DEF Write
  <2>2. f = tmp /\ contents[f] = Empty /\ \A u \in Shells : Saving(u) => u = s
    BY <2>1, <1>0 DEF FInv, Lone, Known, f
  <2>3. text = new
    BY <2>2, <1>1 DEF Over
  <2>4. Known(s)'
    BY <2>2, <2>3, <1>0, <1>3, <1>4, <1>5 DEF Known
  <2>5. Loaded' = Loaded
    BY <2>2, <1>0, <1>5 DEF Loaded, TInv, TypeOK
  <2> QED BY <2>1, <2>2, <2>4, <2>5, <1>0, <1>6 DEF FInv, Lone, Parses, f
<1>8. Manned'
  <2> SUFFICES ASSUME "trouble" \notin mishaps', tmp' # None
               PROVE  /\ \E u \in Shells : cmd'[u].fd = tmp'
                      /\ \A u \in Shells : Sole(u)' => Unmixed(u)'
    BY <1>0, <1>6 DEF Manned
  <2>1. "trouble" \notin mishaps /\ tmp # None
    BY <1>0 DEF Write
  <2>2. ASSUME NEW u \in Shells, Sole(u)' PROVE Unmixed(u)'
    <3>1. Sole(u) /\ Unmixed(u)
      BY <2>1, <2>2, <1>0, <1>6 DEF Sole, FInv, Manned
    <3>2. CASE u = s
      <4>1. f = tmp /\ contents[f] = Empty
        BY <3>1, <3>2, <1>0 DEF Sole, Unmixed, f
      <4>2. text = new
        BY <4>1, <1>1 DEF Over
      <4> QED BY <3>2, <4>1, <4>2, <1>0, <1>3, <1>4, <1>5 DEF Unmixed
    <3>3. CASE u # s
      <4>1. f # tmp
        BY <3>1, <3>3 DEF Sole, f
      <4> QED BY <3>1, <3>3, <4>1, <2>1, <1>0, <1>4, <1>5 DEF Unmixed, TInv, TypeOK
    <3> QED BY <3>2, <3>3
  <2> QED BY <2>1, <2>2, <1>0, <1>6 DEF FInv, Manned
<1> QED BY <1>7, <1>8 DEF FInv

\* Reclaim keeps what has a name.
LEMMA Reclaimed ==
  ASSUME NEW p, NEW t, NEW cs, Reclaim(p, t, cs), NEW f \in Files, f = p \/ f = t
  PROVE  contents'[f] = contents[f]
BY DEF Reclaim, Named

LEMMA FRename == ASSUME TInv, TInv', FInv, NEW s \in Shells, Rename(s) PROVE FInv'
<1>0. Saving(s) /\ tmp \in Files /\ path' = tmp /\ tmp' = None /\ cmd[s].pc = "rename"
      /\ Changed(cmd[s]) \in Configs
  BY EditIsConfig DEF Rename, Saving, TInv, TypeOK, Changed
<1>1. contents'[tmp] = contents[tmp]
  BY <1>0, Reclaimed DEF Rename
<1>2. Loaded' = contents[tmp]
  BY <1>0, <1>1, ConfigAssumption DEF Loaded
<1>3. \A u \in Shells : Saving(u)' <=> Saving(u) /\ u # s
  <2> SUFFICES ASSUME NEW u \in Shells PROVE Saving(u)' <=> Saving(u) /\ u # s
    OBVIOUS
  <2>1. cmd[u] \in Command
    BY DEF TInv, TypeOK
  <2>2. cmd'[u] = IF u = s THEN Idle ELSE [cmd[u] EXCEPT !.stale = cmd[u].pc # "idle"]
    BY DEF Rename, Staled
  <2>3. cmd'[u].pc = IF u = s THEN "idle" ELSE cmd[u].pc
    BY <2>1, <2>2 DEF Command, Idle
  <2> QED BY <2>3 DEF Saving
<1>4. Lone'
  <2> SUFFICES ASSUME "overlap" \notin mishaps'
               PROVE  Parses' /\ \A u \in Shells : ~Saving(u)'
    BY DEF Lone
  <2>1. "overlap" \notin mishaps
    BY DEF Rename, Happens
  <2> QED BY <2>1, <1>0, <1>2, <1>3 DEF FInv, Lone, Known, Parses
<1>5. Manned'
  <2> SUFFICES ASSUME "trouble" \notin mishaps', \A u \in Shells : ~Saving(u)'
               PROVE  Parses'
    BY <1>0 DEF Manned
  <2>1. "trouble" \notin mishaps
    BY DEF Rename, Happens
  <2>2. \A u \in Shells : Saving(u) => u = s
    BY <1>3
  <2>3. tmp # None
    BY <1>0, ConfigAssumption
  <2>4. \A u \in Shells : cmd[u].fd = tmp => u = s
    BY <1>0, <2>2, Holds
  <2>5. Sole(s)
    BY <2>1, <2>3, <2>4 DEF FInv, Manned, Sole
  <2> QED BY <2>1, <2>3, <2>5, <1>0, <1>2 DEF FInv, Manned, Unmixed, Parses
<1> QED BY <1>4, <1>5 DEF FInv

\* Nor does a save that fails by itself.
LEMMA FailsKeep ==
  ASSUME TInv, FInv, "overlap" \notin mishaps, NEW s \in Shells, RenameFails(s) \/ SaveDies(s)
  PROVE  Loaded' = Loaded
<1>1. cmd[s].fd = tmp /\ path' = path
  BY DEF RenameFails, SaveDies, Saving, FInv, Lone
<1>2. CASE path = None
  BY <1>1, <1>2 DEF Loaded
<1>3. CASE path # None
  <2>1. path \in Files /\ path # tmp
    BY <1>3 DEF TInv, TypeOK
  <2>2. contents'[path] = contents[path]
    BY <1>1, <2>1, Reclaimed DEF RenameFails, SaveDies, Named
  <2> QED BY <1>1, <1>3, <2>2 DEF Loaded
<1> QED BY <1>2, <1>3

LEMMA FFails ==
  ASSUME TInv, TInv', FInv, NEW s \in Shells, RenameFails(s) \/ SaveDies(s)
  PROVE  FInv'
<1>0. Saving(s) /\ path' = path /\ "trouble" \in mishaps' /\ mishaps \subseteq mishaps'
      /\ cmd' = [cmd EXCEPT ![s] = Idle]
  BY DEF RenameFails, SaveDies, Saving, Happens, Trouble
<1>1. \A u \in Shells : Saving(u)' <=> Saving(u) /\ u # s
  <2>1. \A u \in Shells : cmd'[u] = IF u = s THEN Idle ELSE cmd[u]
    BY <1>0, One
  <2> QED BY <2>1 DEF Saving, Idle
<1>2. Lone'
  <2> SUFFICES ASSUME "overlap" \notin mishaps'
               PROVE  Parses' /\ \A u \in Shells : ~Saving(u)'
    BY DEF Lone
  <2>1. "overlap" \notin mishaps
    BY <1>0
  <2>2. cmd[s].fd = tmp /\ \A u \in Shells : ~Saving(u)'
    BY <2>1, <1>0, <1>1 DEF FInv, Lone
  <2>3. Loaded' = Loaded
    BY <2>1, FailsKeep
  <2> QED BY <2>1, <2>2, <2>3 DEF FInv, Lone, Parses
<1>3. Manned'
  BY <1>0 DEF Manned
<1> QED BY <1>2, <1>3 DEF FInv

\* The steps of the commands before they save.
LEMMA Early ==
  ASSUME TInv, NEW s \in Shells,
         Given(s) \/ Probe(s) \/ Confirm(s) \/ Abort(s) \/ \E b \in BOOLEAN : Pull(s, b) \/ Delete(s, b)
  PROVE  /\ UNCHANGED disk /\ mishaps \subseteq mishaps'
         /\ ~Saving(s) /\ ~Saving(s)' /\ \A u \in Shells \ {s} : cmd'[u] = cmd[u]
<1>0. cmd \in [Shells -> Command] /\ cmd[s] \in Command
  BY DEF TInv, TypeOK
<1>1. CASE Given(s)
  <2>1. PICK op \in Ops, to \in Subjects, pc \in {"probe", "confirm", "open"} :
          Begin(s, op, to, pc)
    BY <1>1, Begins
  <2> DEFINE c == [Idle EXCEPT !.op = op, !.to = to, !.pc = pc, !.cfg = Loaded]
  <2>2. cmd[s] = Idle /\ cmd' = [cmd EXCEPT ![s] = c]
    BY <2>1 DEF Begin
  <2>3. c.pc = pc
    BY DEF Idle
  <2> HIDE DEF c
  <2>4. cmd'[s] = c /\ \A u \in Shells \ {s} : cmd'[u] = cmd[u]
    BY <2>2, <1>0
  <2>5. ~Saving(s) /\ ~Saving(s)'
    BY <2>2, <2>3, <2>4 DEF Saving, Idle
  <2> QED BY <2>1, <2>4, <2>5 DEF Begin
<1>2. CASE Probe(s)
  <2>1. cmd'[s].pc = "confirm" /\ \A u \in Shells \ {s} : cmd'[u] = cmd[u]
    BY <1>0, <1>2 DEF Probe, Command
  <2> QED BY <1>2, <2>1 DEF Probe, Saving
<1>3. CASE Confirm(s)
  <2>1. cmd'[s].pc \in {"delete", "pull", "open"} /\ \A u \in Shells \ {s} : cmd'[u] = cmd[u]
    BY <1>0, <1>3 DEF Confirm, Goto, Command
  <2> QED BY <1>3, <2>1 DEF Confirm, Saving
<1>4. ASSUME NEW b \in BOOLEAN, Pull(s, b) \/ Delete(s, b)
      PROVE  /\ UNCHANGED disk /\ mishaps \subseteq mishaps'
             /\ ~Saving(s) /\ ~Saving(s)' /\ \A u \in Shells \ {s} : cmd'[u] = cmd[u]
  <2>1. cmd'[s].pc = "open" /\ \A u \in Shells \ {s} : cmd'[u] = cmd[u]
    BY <1>0, <1>4 DEF Pull, Delete, Goto, Command
  <2> QED BY <1>4, <2>1 DEF Pull, Delete, Saving, Happens
<1>5. CASE Abort(s)
  <2>1. cmd'[s].pc = "idle" /\ \A u \in Shells \ {s} : cmd'[u] = cmd[u]
    BY <1>0, <1>5 DEF Abort, Idle
  <2> QED BY <1>5, <2>1 DEF Abort, Saving, Happens
<1> QED BY <1>1, <1>2, <1>3, <1>4, <1>5

LEMMA FStep == TInv /\ FInv /\ [Next]_vars => FInv'
<1> SUFFICES ASSUME TInv, FInv, [Next]_vars PROVE FInv'
  OBVIOUS
<1>0. TInv'
  BY TStep
<1>1. CASE UNCHANGED vars \/ StartServer
  BY <1>0, <1>1, FQuiet DEF vars, disk, StartServer
<1>2. ASSUME NEW s \in Shells, Given(s) PROVE FInv'
  BY <1>0, <1>2, Early, FQuiet
<1>3. ASSUME NEW s \in Shells,
             Probe(s) \/ Confirm(s) \/ Abort(s) \/ \E b \in BOOLEAN : Pull(s, b) \/ Delete(s, b)
      PROVE  FInv'
  BY <1>0, <1>3, Early, FQuiet
<1>4. ASSUME NEW s \in Shells, Proceeds(s) PROVE FInv'
  BY <1>0, <1>3, <1>4, FOpen, FWrite, FRename, FFails DEF Proceeds
<1> QED BY <1>1, <1>2, <1>4 DEF Next

\* Among any number of commands, killed or failed at any point, the file parses unless
\* saves overlapped; and it parses again when no save is in progress, if all succeeded.
THEOREM FileParses == Spec => []WholeOrNoticed
<1>1. FInv => WholeOrNoticed
  BY DEF FInv, Lone, Manned, WholeOrNoticed
<1> QED BY TInit, TStep, FInit, FStep, <1>1, PTL DEF Spec

-----------------------------------------------------------------------------
(* Refinement.  Barring saves that overlap, a command is an order on what   *)
(* it has loaded, and its rename makes of that what config.json holds.      *)

LEMMA WriteKeeps ==
  ASSUME TInv, FInv, "overlap" \notin mishaps, NEW s \in Shells, Write(s)
  PROVE  Loaded' = Loaded
<1>1. cmd[s].fd = tmp /\ path' = path
  BY DEF Write, Saving, FInv, Lone
<1> QED BY <1>1 DEF Write, Loaded, TInv, TypeOK

LEMMA IdleOrder == Order(Idle) = Abstract!NoOrder
BY DEF Order, Idle, View, Defaults, Nothing, Abstract!NoOrder, Abstract!Nothing, Abstract!Fresh

LEMMA ImplInit == Init => Abstract!SettingsInit
<1> SUFFICES ASSUME Init PROVE Abstract!SettingsInit
  OBVIOUS
<1>1. Untouched /\ Loaded = Defaults /\ last = Nothing
  BY DEF Init, Untouched, Loaded
<1>2. InForce = Abstract!Fresh
  BY <1>1 DEF InForce, View, Defaults, Abstract!Fresh
<1>3. Orders = [s \in Shells |-> Abstract!NoOrder]
  BY <1>1, IdleOrder DEF Init, Orders
<1> QED BY <1>1, <1>2, <1>3 DEF Abstract!SettingsInit, Abstract!Nothing, LastDone, Nothing

\* A step of one command changes the order of that one at most.
LEMMA OneOrder ==
  ASSUME Untouched, Untouched', NEW s \in Shells,
         \A u \in Shells \ {s} : Order(cmd'[u]) = Order(cmd[u])
  PROVE  Orders' = [Orders EXCEPT ![s] = Order(cmd'[s])]
BY DEF Orders

LEMMA SameOrder ==
  ASSUME Untouched, Untouched', NEW s \in Shells,
         \A u \in Shells \ {s} : Order(cmd'[u]) = Order(cmd[u]), Order(cmd'[s]) = Order(cmd[s])
  PROVE  Orders' = Orders
<1>1. Orders[s] = Order(cmd'[s])
  BY DEF Orders
<1>2. Orders = [u \in Shells |-> Orders[u]]
  BY DEF Orders
<1> QED BY <1>1, <1>2, OneOrder

LEMMA Others ==
  ASSUME TInv, NEW s \in Shells, NEW c, cmd' = [cmd EXCEPT ![s] = c]
  PROVE  cmd'[s] = c /\ \A u \in Shells \ {s} : Order(cmd'[u]) = Order(cmd[u])
BY DEF TInv, TypeOK

\* A command that is given is an order on the settings in force.
LEMMA Gives ==
  ASSUME TInv, Untouched, Untouched', NEW s \in Shells, Given(s)
  PROVE  Abstract!SettingsNext
<1>1. PICK op \in Ops, to \in Subjects, pc \in {"probe", "confirm", "open"} :
        /\ Begin(s, op, to, pc) /\ Parses
        /\ Placed([Idle EXCEPT !.op = op, !.to = to, !.pc = pc, !.cfg = Loaded])
        /\ op = "remove" => to = Loaded.name /\ to # None
        /\ op = "enable" => Loaded.name # None
  BY Begins
<1> DEFINE c == [Idle EXCEPT !.op = op, !.to = to, !.pc = pc, !.cfg = Loaded]
           what == <<op, to>>
<1>2. c.op = op /\ c.to = to /\ c.pc = pc /\ c.cfg = Loaded
  BY DEF Idle
<1>3. cmd[s] = Idle /\ cmd' = [cmd EXCEPT ![s] = c] /\ UNCHANGED <<disk, last>>
  BY <1>1 DEF Begin
<1>4. Placed(c)
  BY <1>1
<1> HIDE DEF c
<1>5. cmd'[s] = c /\ \A u \in Shells \ {s} : Order(cmd'[u]) = Order(cmd[u])
  BY <1>3, Others
<1>6. Order(c) = [what |-> what, on |-> InForce]
  BY <1>1, <1>2 DEF Order, InForce
<1>7. Orders[s] = Abstract!NoOrder
  BY <1>3, IdleOrder DEF Orders
<1>8. Orders' = [Orders EXCEPT ![s] = [what |-> what, on |-> InForce]]
  BY <1>5, <1>6, OneOrder
<1>9. UNCHANGED <<InForce, LastDone>>
  BY <1>3 DEF InForce, LastDone, Loaded, disk
<1>10. InForce.model = Loaded.name
  BY DEF InForce, View
<1>11. Abstract!Possible(what)
  BY <1>1, <1>10 DEF Abstract!Possible
<1>12. what \in Abstract!Whats
  <2>1. op \in {"set", "setNumCtx", "setup", "enable", "disable", "remove", "selfEnable", "selfDisable"}
    BY DEF Ops
  <2>2. /\ op = "set" => to \in Values
        /\ op = "setNumCtx" => to \in Sizes
        /\ op \in {"setup", "remove"} => to \in Models
        /\ op \in {"enable", "disable", "selfEnable", "selfDisable"} => to = None
    BY <1>1, <1>2, <1>4 DEF Placed, CommandOK
  <2> QED BY <2>1, <2>2 DEF Abstract!Whats
<1>13. Abstract!Give(s, what)
  BY <1>7, <1>8, <1>9, <1>11 DEF Abstract!Give
<1> QED BY <1>12, <1>13 DEF Abstract!SettingsNext

\* A command on its way is the same order still.
LEMMA GoesOn ==
  ASSUME TInv, FInv, Untouched, Untouched', NEW s \in Shells,
         \/ Probe(s) \/ Confirm(s) \/ Open(s) \/ Write(s)
         \/ \E b \in BOOLEAN : Pull(s, b) \/ Delete(s, b)
  PROVE  UNCHANGED Abstract!settingsVars
<1>0. cmd \in [Shells -> Command] /\ cmd[s] \in Command
  BY DEF TInv, TypeOK
<1>1. ASSUME NEW c, cmd' = [cmd EXCEPT ![s] = c], c.op = cmd[s].op, c.to = cmd[s].to, c.cfg = cmd[s].cfg,
             c.pc # "idle", cmd[s].pc # "idle"
      PROVE  Orders' = Orders
  <2>1. cmd'[s] = c /\ \A u \in Shells \ {s} : Order(cmd'[u]) = Order(cmd[u])
    BY <1>1, Others
  <2>2. Order(c) = Order(cmd[s])
    BY <1>1 DEF Order
  <2> QED BY <2>1, <2>2, SameOrder
<1>2. ASSUME NEW pc \in Pcs \ {"idle"}, Goto(s, pc), cmd[s].pc # "idle" PROVE Orders' = Orders
  <2> DEFINE c == [cmd[s] EXCEPT !.pc = pc]
  <2>1. cmd' = [cmd EXCEPT ![s] = c]
    BY <1>0, <1>2 DEF Goto
  <2>2. c.op = cmd[s].op /\ c.to = cmd[s].to /\ c.cfg = cmd[s].cfg /\ c.pc = pc
    BY <1>0 DEF Command
  <2> HIDE DEF c
  <2> QED BY <1>1, <1>2, <2>1, <2>2
<1>3. Orders' = Orders
  <2>1. CASE Probe(s)
    <3> DEFINE h == cmd[s].to \in installed
               c == [cmd[s] EXCEPT !.have = h, !.pc = "confirm"]
    <3>1. cmd' = [cmd EXCEPT ![s] = c] /\ cmd[s].pc = "probe"
      BY <2>1, <1>0 DEF Probe
    <3>2. c.op = cmd[s].op /\ c.to = cmd[s].to /\ c.cfg = cmd[s].cfg /\ c.pc = "confirm"
      BY <1>0 DEF Command
    <3> HIDE DEF c
    <3> QED BY <1>1, <3>1, <3>2
  <2>2. CASE Confirm(s)
    BY <2>2, <1>2 DEF Confirm, Pcs
  <2>3. CASE \E b \in BOOLEAN : Pull(s, b) \/ Delete(s, b)
    BY <2>3, <1>2 DEF Pull, Delete, Pcs
  <2>4. CASE Open(s)
    <3>1. PICK f \in Files : cmd' = [cmd EXCEPT ![s].pc = "write", ![s].fd = f]
      BY <2>4 DEF Open
    <3> DEFINE c == [cmd[s] EXCEPT !.pc = "write", !.fd = f]
    <3>2. cmd' = [cmd EXCEPT ![s] = c] /\ cmd[s].pc = "open"
      BY <2>4, <3>1, <1>0 DEF Open
    <3>3. c.op = cmd[s].op /\ c.to = cmd[s].to /\ c.cfg = cmd[s].cfg /\ c.pc = "write"
      BY <1>0 DEF Command
    <3> HIDE DEF c
    <3> QED BY <1>1, <3>2, <3>3
  <2>5. CASE Write(s)
    BY <2>5, <1>2 DEF Write, Pcs
  <2> QED BY <2>1, <2>2, <2>3, <2>4, <2>5
<1>4. Loaded' = Loaded
  <2>1. CASE Open(s) \/ Write(s)
    BY <2>1, OpenKeeps, WriteKeeps DEF Untouched
  <2>2. CASE ~(Open(s) \/ Write(s))
    BY <2>2, Early DEF disk, Loaded
  <2> QED BY <2>1, <2>2
<1>5. last' = last
  BY DEF Probe, Confirm, Pull, Delete, Open, Write
<1> QED BY <1>3, <1>4, <1>5 DEF Abstract!settingsVars, InForce, LastDone

\* One that ends otherwise is dropped.
LEMMA Drops ==
  ASSUME TInv, FInv, Untouched, Untouched', NEW s \in Shells, Abort(s) \/ RenameFails(s) \/ SaveDies(s)
  PROVE  Abstract!SettingsNext
<1>1. cmd' = [cmd EXCEPT ![s] = Idle] /\ last' = last
  BY DEF Abort, RenameFails, SaveDies
<1>2. cmd'[s] = Idle /\ \A u \in Shells \ {s} : Order(cmd'[u]) = Order(cmd[u])
  BY <1>1, Others
<1>3. Orders' = [Orders EXCEPT ![s] = Abstract!NoOrder]
  BY <1>2, IdleOrder, OneOrder
<1>4. Loaded' = Loaded
  <2>1. CASE Abort(s)
    BY <2>1, Early DEF disk, Loaded
  <2>2. CASE RenameFails(s) \/ SaveDies(s)
    BY <2>2, FailsKeep DEF Untouched
  <2> QED BY <2>1, <2>2
<1>5. Abstract!Drop(s)
  BY <1>1, <1>3, <1>4 DEF Abstract!Drop, InForce, LastDone
<1> QED BY <1>5 DEF Abstract!SettingsNext

\* A rename is the whole command, on what it was given under.
LEMMA Renamed ==
  ASSUME TInv, FInv, Untouched, NEW s \in Shells, Rename(s)
  PROVE  Loaded' = Changed(cmd[s])
<1>1. cmd[s].pc = "rename" /\ tmp \in Files /\ path' = tmp
  BY DEF TInv, TypeOK, Rename
<1>2. contents[tmp] = Changed(cmd[s])
  BY <1>1 DEF FInv, Lone, Known, Saving, Untouched
<1>3. contents'[tmp] = contents[tmp]
  BY <1>1, Reclaimed DEF Rename
<1> QED BY <1>1, <1>2, <1>3, ConfigAssumption DEF Loaded

\* What a user sees of a configuration, field by field.
Views == [model : Models \cup {None}, local : BOOLEAN, numCtx : Sizes, value : Values,
          tool : {"on", "off", "default"}]

LEMMA Viewed ==
  ASSUME NEW c \in Configs
  PROVE  /\ View(c) \in Views
         /\ View(c).model = c.name /\ View(c).local = c.enabled
         /\ View(c).numCtx = c.numCtx /\ View(c).value = c.value
         /\ View(c).tool = IF c.selfOff THEN "off" ELSE IF c.selfOn THEN "on" ELSE "default"
<1>1. /\ c.name \in Models \cup {None} /\ c.enabled \in BOOLEAN
      /\ c.numCtx \in Sizes /\ c.value \in Values
  BY DEF Configs
<1> QED BY <1>1 DEF View, Views

\* Enabling or disabling the model shows in that field alone.
LEMMA ViewSwitched ==
  ASSUME NEW c \in Configs, NEW b \in BOOLEAN
  PROVE  View([c EXCEPT !.enabled = b]) = [View(c) EXCEPT !.local = b]
<1> DEFINE d == [c EXCEPT !.enabled = b]
<1>1. /\ d \in Configs
      /\ d.name = c.name /\ d.enabled = b /\ d.numCtx = c.numCtx
      /\ d.value = c.value /\ d.selfOn = c.selfOn /\ d.selfOff = c.selfOff
  BY ConfigAssumption DEF Configs
<1> HIDE DEF d
<1>2. View(c) \in Views /\ View(d) \in Views
  BY <1>1, Viewed
<1>3. View(d) = [View(c) EXCEPT !.local = b]
  BY <1>1, <1>2, Viewed DEF Views
<1> QED BY <1>3 DEF d

\* Removing it shows in two.
LEMMA ViewRemoved ==
  ASSUME NEW c \in Configs, NEW b \in BOOLEAN
  PROVE  View([c EXCEPT !.enabled = b, !.name = None])
         = [View(c) EXCEPT !.model = None, !.local = b]
<1> DEFINE d == [c EXCEPT !.enabled = b, !.name = None]
<1>1. /\ d \in Configs
      /\ d.name = None /\ d.enabled = b /\ d.numCtx = c.numCtx
      /\ d.value = c.value /\ d.selfOn = c.selfOn /\ d.selfOff = c.selfOff
  BY ConfigAssumption DEF Configs
<1> HIDE DEF d
<1>2. View(c) \in Views /\ View(d) \in Views
  BY <1>1, Viewed
<1> DEFINE v == [View(c) EXCEPT !.model = None]
<1>3. /\ v \in Views /\ v.model = None
      /\ v.numCtx = View(c).numCtx /\ v.value = View(c).value /\ v.tool = View(c).tool
  BY <1>2 DEF Views
<1>4. [View(c) EXCEPT !.model = None, !.local = b] = [v EXCEPT !.local = b]
  BY <1>2
<1> HIDE DEF v
<1>5. View(d) = [v EXCEPT !.local = b]
  BY <1>1, <1>2, <1>3, Viewed DEF Views
<1> QED BY <1>4, <1>5 DEF d

\* The name of the model shows in one field.
LEMMA ViewNamed ==
  ASSUME NEW c \in Configs, NEW m \in Models
  PROVE  View([c EXCEPT !.name = m]) = [View(c) EXCEPT !.model = m]
<1> DEFINE d == [c EXCEPT !.name = m]
<1>1. /\ d \in Configs
      /\ d.name = m /\ d.enabled = c.enabled /\ d.numCtx = c.numCtx
      /\ d.value = c.value /\ d.selfOn = c.selfOn /\ d.selfOff = c.selfOff
  BY DEF Configs
<1> HIDE DEF d
<1>2. View(c) \in Views /\ View(d) \in Views
  BY <1>1, Viewed
<1>3. View(d) = [View(c) EXCEPT !.model = m]
  BY <1>1, <1>2, Viewed DEF Views
<1> QED BY <1>3 DEF d

\* So does the size of its context.
LEMMA ViewSized ==
  ASSUME NEW c \in Configs, NEW n \in Sizes
  PROVE  View([c EXCEPT !.numCtx = n]) = [View(c) EXCEPT !.numCtx = n]
<1> DEFINE d == [c EXCEPT !.numCtx = n]
<1>1. /\ d \in Configs
      /\ d.name = c.name /\ d.enabled = c.enabled /\ d.numCtx = n
      /\ d.value = c.value /\ d.selfOn = c.selfOn /\ d.selfOff = c.selfOff
  BY DEF Configs
<1> HIDE DEF d
<1>2. View(c) \in Views /\ View(d) \in Views
  BY <1>1, Viewed
<1>3. View(d) = [View(c) EXCEPT !.numCtx = n]
  BY <1>1, <1>2, Viewed DEF Views
<1> QED BY <1>3 DEF d

\* The two flags of self-modification are one setting of three values.
LEMMA ViewSelf ==
  ASSUME NEW c \in Configs, NEW a \in BOOLEAN, NEW b \in BOOLEAN
  PROVE  View([c EXCEPT !.selfOn = a, !.selfOff = b])
         = [View(c) EXCEPT !.tool = IF b THEN "off" ELSE IF a THEN "on" ELSE "default"]
<1> DEFINE d == [c EXCEPT !.selfOn = a, !.selfOff = b]
<1>1. /\ d \in Configs
      /\ d.name = c.name /\ d.enabled = c.enabled /\ d.numCtx = c.numCtx
      /\ d.value = c.value /\ d.selfOn = a /\ d.selfOff = b
  BY ConfigAssumption DEF Configs
<1> HIDE DEF d
<1>2. View(c) \in Views /\ View(d) \in Views
  BY <1>1, Viewed
<1>3. View(d) = [View(c) EXCEPT !.tool = IF b THEN "off" ELSE IF a THEN "on" ELSE "default"]
  BY <1>1, <1>2, Viewed DEF Views
<1> QED BY <1>3 DEF d

LEMMA TakesEffect ==
  ASSUME TInv, FInv, Untouched, Untouched', NEW s \in Shells, Rename(s)
  PROVE  Abstract!SettingsNext
<1> DEFINE op == cmd[s].op
           to == cmd[s].to
           on == cmd[s].cfg
           new == Edit(op, to, on)
<1>0. /\ cmd \in [Shells -> Command] /\ cmd[s] \in Command /\ Placed(cmd[s]) /\ cmd[s].pc = "rename"
      /\ on \in Configs
  BY DEF TInv, TypeOK, Rename, Command
<1>1. InForce' = View(new)
  BY Renamed DEF InForce, Changed
<1>2. LastDone' = <<op, to>>
  BY DEF Rename, LastDone
<1>3. Orders[s] = [what |-> <<op, to>>, on |-> View(on)]
  BY <1>0 DEF Orders, Order
<1>4. Orders' = [Orders EXCEPT ![s] = Abstract!NoOrder]
  <2>1. ASSUME NEW u \in Shells \ {s} PROVE Order(cmd'[u]) = Order(cmd[u])
    <3> DEFINE b == cmd[u].pc # "idle"
    <3>1. cmd'[u] = [cmd[u] EXCEPT !.stale = b] /\ cmd[u] \in Command
      BY <1>0 DEF Rename, Staled
    <3> HIDE DEF b
    <3> QED BY <3>1 DEF Order, Command
  <2>2. cmd'[s] = Idle
    BY DEF Rename, Staled
  <2> QED BY <2>1, <2>2, IdleOrder, OneOrder
<1> DEFINE v == View(on)
<1>5. ASSUME NEW x, InForce' = x PROVE Abstract!TakesEffect(s, <<op, to>>, x)
  BY <1>2, <1>3, <1>4, <1>5 DEF Abstract!TakesEffect
<1>6. Orders[s].on = v
  BY <1>3
<1> SUFFICES \/ \E a \in Values : Abstract!Set(s, a)
             \/ \E n \in Sizes : Abstract!SetNumCtx(s, n)
             \/ \E m \in Models : Abstract!Setup(s, m) \/ Abstract!Remove(s, m)
             \/ Abstract!Enable(s) \/ Abstract!Disable(s) \/ Abstract!SelfEnable(s) \/ Abstract!SelfDisable(s)
  BY DEF Abstract!SettingsNext
<1>7. op \in {"set", "setNumCtx", "setup", "enable", "disable", "remove", "selfEnable", "selfDisable"}
  BY <1>0 DEF Command, Ops
<1>8. /\ op = "set" => to \in Values
      /\ op = "setNumCtx" => to \in Sizes
      /\ op \in {"setup", "remove"} => to \in Models
      /\ op \in {"enable", "disable", "selfEnable", "selfDisable"} => to = None
  BY <1>0 DEF Placed, CommandOK
<1>9. CASE op = "set"
  <2>1. new = [on EXCEPT !.value = to]
    BY <1>9 DEF Edit
  <2>2. View(new) = [v EXCEPT !.value = to]
    BY <1>0, <2>1 DEF View, Configs
  <2> QED BY <2>2, <1>1, <1>5, <1>6, <1>8, <1>9 DEF Abstract!Set
<1>10. CASE op = "setNumCtx"
  <2>1. new = [on EXCEPT !.numCtx = to]
    BY <1>10 DEF Edit
  <2>2. View(new) = [v EXCEPT !.numCtx = to]
    BY <1>0, <2>1 DEF View, Configs
  <2> QED BY <2>2, <1>1, <1>5, <1>6, <1>8, <1>10 DEF Abstract!SetNumCtx
<1>11. CASE op = "setup"
  <2>1. new = [on EXCEPT !.enabled = TRUE, !.name = to, !.numCtx = Recommended[to]]
    BY <1>11 DEF Edit
  <2>2. View(new) = [v EXCEPT !.model = to, !.local = TRUE, !.numCtx = Recommended[to]]
    <3> DEFINE z == Recommended[to]
               c1 == [on EXCEPT !.enabled = TRUE]
               c2 == [c1 EXCEPT !.name = to]
               v1 == [v EXCEPT !.local = TRUE]
               v2 == [v1 EXCEPT !.model = to]
    <3>1. to \in Models /\ z \in Sizes
      BY <1>8, <1>11, ConfigAssumption
    <3>2. c1 \in Configs /\ c2 \in Configs
      BY <1>0, <3>1 DEF Configs
    <3>3. new = [c2 EXCEPT !.numCtx = z]
      BY <1>0, <2>1 DEF Configs
    <3>4. View(c1) = v1
      BY <1>0, ViewSwitched
    <3>5. [v EXCEPT !.model = to, !.local = TRUE, !.numCtx = z] = [v2 EXCEPT !.numCtx = z]
      BY <1>0, Viewed DEF Views
    <3> HIDE DEF c1, new, z
    <3>6. View(c2) = [View(c1) EXCEPT !.model = to]
      BY <3>1, <3>2, ViewNamed
    <3> HIDE DEF c2
    <3>7. View(new) = [View(c2) EXCEPT !.numCtx = z]
      BY <3>1, <3>2, <3>3, ViewSized
    <3> QED BY <3>4, <3>5, <3>6, <3>7 DEF z
  <2> QED BY <2>2, <1>1, <1>5, <1>6, <1>8, <1>11 DEF Abstract!Setup
<1>12. CASE op = "enable"
  <2>1. new = [on EXCEPT !.enabled = TRUE]
    BY <1>12 DEF Edit
  <2>2. View(new) = [v EXCEPT !.local = TRUE]
    BY <1>0, <2>1, ViewSwitched
  <2> QED BY <2>2, <1>1, <1>5, <1>6, <1>8, <1>12 DEF Abstract!Enable
<1>13. CASE op = "disable"
  <2>1. new = [on EXCEPT !.enabled = FALSE]
    BY <1>13 DEF Edit
  <2>2. View(new) = [v EXCEPT !.local = FALSE]
    BY <1>0, <2>1, ViewSwitched
  <2> QED BY <2>2, <1>1, <1>5, <1>6, <1>8, <1>13 DEF Abstract!Disable
<1>14. CASE op = "remove"
  <2>1. new = [on EXCEPT !.enabled = FALSE, !.name = None]
    BY <1>14 DEF Edit
  <2>2. View(new) = [v EXCEPT !.model = None, !.local = FALSE]
    BY <1>0, <2>1, ViewRemoved
  <2> QED BY <2>2, <1>1, <1>5, <1>6, <1>8, <1>14 DEF Abstract!Remove
<1>15. CASE op = "selfEnable"
  <2>1. new = [on EXCEPT !.selfOn = TRUE, !.selfOff = FALSE]
    BY <1>15 DEF Edit
  <2>2. View(new) = [v EXCEPT !.tool = "on"]
    BY <1>0, <2>1, ViewSelf
  <2> QED BY <2>2, <1>1, <1>5, <1>6, <1>8, <1>15 DEF Abstract!SelfEnable
<1>16. CASE op = "selfDisable"
  <2>1. new = [on EXCEPT !.selfOn = FALSE, !.selfOff = TRUE]
    BY <1>16 DEF Edit
  <2>2. View(new) = [v EXCEPT !.tool = "off"]
    BY <1>0, <2>1, ViewSelf
  <2> QED BY <2>2, <1>1, <1>5, <1>6, <1>8, <1>16 DEF Abstract!SelfDisable
<1> QED BY <1>7, <1>9, <1>10, <1>11, <1>12, <1>13, <1>14, <1>15, <1>16

LEMMA ImplStep == TInv /\ FInv /\ [Next]_vars => [Abstract!SettingsNext]_(Abstract!settingsVars)
<1> SUFFICES ASSUME TInv, FInv, [Next]_vars
             PROVE  Abstract!SettingsNext \/ UNCHANGED Abstract!settingsVars
  OBVIOUS
<1>1. CASE ~Untouched'
  BY <1>1 DEF Abstract!SettingsNext, Abstract!Interfere
<1>2. CASE Untouched'
  <2>1. mishaps \subseteq mishaps'
    <3>1. CASE UNCHANGED vars \/ StartServer
      BY <3>1 DEF vars, StartServer
    <3>2. ASSUME NEW s \in Shells, Given(s) \/ Proceeds(s) PROVE mishaps \subseteq mishaps'
      BY <3>2, Early DEF Proceeds, Open, Write, Rename, RenameFails, SaveDies, Happens
    <3> QED BY <3>1, <3>2 DEF Next
  <2>2. Untouched
    BY <1>2, <2>1 DEF Untouched
  <2>3. CASE UNCHANGED vars \/ StartServer
    BY <1>2, <2>2, <2>3
    DEF vars, StartServer, disk, Abstract!settingsVars, InForce, LastDone, Orders, Loaded
  <2>4. ASSUME NEW s \in Shells, Given(s) PROVE Abstract!SettingsNext
    BY <1>2, <2>2, <2>4, Gives
  <2>5. ASSUME NEW s \in Shells, Proceeds(s)
        PROVE  Abstract!SettingsNext \/ UNCHANGED Abstract!settingsVars
    BY <1>2, <2>2, <2>5, GoesOn, Drops, TakesEffect DEF Proceeds
  <2> QED BY <2>3, <2>4, <2>5 DEF Next
<1> QED BY <1>1, <1>2

\* Any number of commands, whatever fails or waits, behaves as commands that take effect
\* one after the other, each as a whole and on the settings it was given under, until two
\* saves overlap (main.go buildConfigSetCmd, llm_setup.go, selfmodify_setup.go, config.go
\* Save).
THEOREM CommandsAreAtomic == Spec => ImplementsSettings
<1> QED
  BY TInit, TStep, FInit, FStep, ImplInit, ImplStep, PTL
  DEF Spec, ImplementsSettings, Abstract!SettingsSpec

-----------------------------------------------------------------------------
(* The model in use.  As long as nothing but trouble has come up, the model *)
(* the configuration names, in use or not, and the one a setup in progress  *)
(* has found or pulled are installed, or a remove has got at them.          *)

\* A command that nobody has overtaken holds what config.json holds.
Fresh ==
    Untouched => \A s \in Shells : (cmd[s].pc # "idle" /\ ~cmd[s].stale) => cmd[s].cfg = Loaded

LEMMA RInit == Init => Fresh
BY DEF Init, Fresh, Idle

\* A step that does not change the configuration and keeps the other commands.
LEMMA RElsewhere ==
  ASSUME TInv, Fresh, mishaps \subseteq mishaps', Untouched' => Loaded' = Loaded,
         NEW s \in Shells, \A u \in Shells \ {s} : cmd'[u] = cmd[u],
         (Untouched /\ cmd'[s].pc # "idle" /\ ~cmd'[s].stale) => cmd'[s].cfg = Loaded
  PROVE  Fresh'
<1> SUFFICES ASSUME Untouched', NEW u \in Shells, cmd'[u].pc # "idle", ~cmd'[u].stale
             PROVE  cmd'[u].cfg = Loaded'
  BY DEF Fresh
<1>1. Untouched
  BY DEF Untouched
<1>2. CASE u = s
  BY <1>1, <1>2
<1>3. CASE u # s
  BY <1>1, <1>3 DEF Fresh
<1> QED BY <1>2, <1>3

LEMMA REarly ==
  ASSUME TInv, Fresh, NEW s \in Shells,
         Given(s) \/ Probe(s) \/ Confirm(s) \/ Abort(s) \/ \E b \in BOOLEAN : Pull(s, b) \/ Delete(s, b)
  PROVE  Fresh'
<1>0. cmd \in [Shells -> Command] /\ cmd[s] \in Command /\ Placed(cmd[s])
  BY DEF TInv, TypeOK
<1>1. UNCHANGED disk /\ mishaps \subseteq mishaps' /\ \A u \in Shells \ {s} : cmd'[u] = cmd[u]
  BY Early
<1>2. Loaded' = Loaded
  BY <1>1 DEF Loaded, disk
<1>3. SUFFICES ASSUME Untouched, cmd'[s].pc # "idle", ~cmd'[s].stale
               PROVE  cmd'[s].cfg = Loaded
  BY <1>1, <1>2, RElsewhere
<1>4. CASE Given(s)
  <2>1. PICK op \in Ops, to \in Subjects, pc \in {"probe", "confirm", "open"} :
          Begin(s, op, to, pc)
    BY <1>4, Begins
  <2>2. cmd'[s] = [Idle EXCEPT !.op = op, !.to = to, !.pc = pc, !.cfg = Loaded]
    BY <2>1, <1>0 DEF Begin
  <2> QED BY <2>2 DEF Idle
<1>5. CASE Probe(s) \/ Confirm(s) \/ \E b \in BOOLEAN : Pull(s, b) \/ Delete(s, b)
  <2>1. /\ cmd'[s].op = cmd[s].op /\ cmd'[s].to = cmd[s].to /\ cmd'[s].cfg = cmd[s].cfg
        /\ cmd'[s].stale = cmd[s].stale /\ cmd'[s].pc \in {"confirm", "delete", "pull", "open"}
        /\ cmd[s].pc \in {"probe", "confirm", "pull", "delete"}
    <3>1. CASE Probe(s)
      BY <3>1, <1>0 DEF Probe, Command
    <3>2. CASE Confirm(s)
      BY <3>2, <1>0 DEF Confirm, Goto, Command
    <3>3. CASE \E b \in BOOLEAN : Pull(s, b) \/ Delete(s, b)
      BY <3>3, <1>0 DEF Pull, Delete, Goto, Command
    <3> QED BY <1>5, <3>1, <3>2, <3>3
  <2>2. cmd[s].cfg = Loaded
    BY <1>3, <2>1 DEF Fresh
  <2> QED BY <2>1, <2>2
<1>6. CASE Abort(s)
  BY <1>0, <1>3, <1>6 DEF Abort, Idle
<1> QED BY <1>4, <1>5, <1>6

LEMMA ROpen == ASSUME TInv, Fresh, NEW s \in Shells, Open(s) PROVE Fresh'
<1>0. cmd \in [Shells -> Command] /\ cmd[s] \in Command /\ cmd[s].pc = "open"
  BY DEF TInv, TypeOK, Open
<1>1. PICK f \in Files : cmd' = [cmd EXCEPT ![s].pc = "write", ![s].fd = f]
  BY DEF Open
<1>2. /\ cmd'[s].pc = "write" /\ cmd'[s].cfg = cmd[s].cfg /\ cmd'[s].stale = cmd[s].stale
      /\ \A u \in Shells \ {s} : cmd'[u] = cmd[u]
  BY <1>0, <1>1 DEF Command
<1>3. ASSUME Untouched, ~cmd'[s].stale PROVE cmd'[s].cfg = Loaded
  <2>1. cmd[s].cfg = Loaded
    BY <1>0, <1>2, <1>3 DEF Fresh
  <2> QED BY <2>1, <1>0, <1>2
<1>4. mishaps \subseteq mishaps'
  BY DEF Open, Happens
<1> QED BY <1>2, <1>3, <1>4, OpenKeeps, RElsewhere

LEMMA RWrite == ASSUME TInv, FInv, Fresh, NEW s \in Shells, Write(s) PROVE Fresh'
<1>0. cmd \in [Shells -> Command] /\ cmd[s] \in Command /\ cmd[s].pc = "write"
  BY DEF TInv, TypeOK, Write
<1>1. /\ cmd'[s].pc = "rename" /\ cmd'[s].cfg = cmd[s].cfg /\ cmd'[s].op = cmd[s].op
      /\ cmd'[s].to = cmd[s].to /\ cmd'[s].stale = cmd[s].stale
      /\ \A u \in Shells \ {s} : cmd'[u] = cmd[u]
  BY <1>0 DEF Write, Goto, Command
<1>2. ASSUME Untouched, ~cmd'[s].stale PROVE cmd'[s].cfg = Loaded
  <2>1. cmd[s].cfg = Loaded
    BY <1>0, <1>1, <1>2 DEF Fresh
  <2> QED BY <2>1, <1>0, <1>1
<1>3. mishaps' = mishaps /\ (Untouched' => Loaded' = Loaded)
  BY WriteKeeps DEF Write, Untouched
<1> QED BY <1>1, <1>2, <1>3, RElsewhere

\* A rename overtakes every other command in progress.
LEMMA RRename == ASSUME TInv, NEW s \in Shells, Rename(s) PROVE Fresh'
<1> SUFFICES ASSUME NEW u \in Shells, cmd'[u].pc # "idle" PROVE cmd'[u].stale
  BY DEF Fresh
<1>1. cmd[u] \in Command
  BY DEF TInv, TypeOK
<1>2. u # s /\ cmd'[u] = [cmd[u] EXCEPT !.stale = cmd[u].pc # "idle"]
  BY DEF Rename, Staled, Idle
<1> QED BY <1>1, <1>2 DEF Command

LEMMA RFails ==
  ASSUME TInv, FInv, Fresh, NEW s \in Shells, RenameFails(s) \/ SaveDies(s)
  PROVE  Fresh'
<1>1. cmd' = [cmd EXCEPT ![s] = Idle] /\ mishaps \subseteq mishaps'
  BY DEF RenameFails, SaveDies, Happens
<1>2. cmd'[s].pc = "idle" /\ \A u \in Shells \ {s} : cmd'[u] = cmd[u]
  BY <1>1 DEF TInv, TypeOK, Idle
<1>3. Untouched' => Loaded' = Loaded
  BY <1>1, FailsKeep DEF Untouched
<1> QED BY <1>1, <1>2, <1>3, RElsewhere

LEMMA RStep == TInv /\ FInv /\ Fresh /\ [Next]_vars => Fresh'
<1> SUFFICES ASSUME TInv, FInv, Fresh, [Next]_vars PROVE Fresh'
  OBVIOUS
<1>1. CASE UNCHANGED vars \/ StartServer
  BY <1>1 DEF vars, disk, StartServer, Fresh, Untouched, Loaded
<1>2. ASSUME NEW s \in Shells, Given(s) PROVE Fresh'
  BY <1>2, REarly
<1>3. ASSUME NEW s \in Shells,
             Probe(s) \/ Confirm(s) \/ Abort(s) \/ \E b \in BOOLEAN : Pull(s, b) \/ Delete(s, b)
      PROVE  Fresh'
  BY <1>3, REarly
<1>4. ASSUME NEW s \in Shells, Proceeds(s) PROVE Fresh'
  BY <1>3, <1>4, ROpen, RWrite, RRename, RFails DEF Proceeds
<1> QED BY <1>1, <1>2, <1>4 DEF Next

Calm == mishaps \subseteq {"trouble"}

Removing(c, m) == c.op = "remove" /\ c.to = m /\ c.pc \in {"open", "write", "rename"}

Held(m) == m \in installed \/ \E s \in Shells : Removing(cmd[s], m)

\* A setup that nobody has overtaken and that will not pull.
Ready(c) ==
    /\ c.op = "setup" /\ ~c.stale
    /\ c.pc \notin {"idle", "probe", "pull"}
    /\ c.pc = "confirm" => c.have

Wanted(m) == Loaded.name = m \/ \E s \in Shells : Ready(cmd[s]) /\ cmd[s].to = m

Kept == Calm => \A m \in Models : Wanted(m) => Held(m)

LEMMA KInit == Init => Kept
<1> SUFFICES ASSUME Init PROVE Kept
  OBVIOUS
<1>1. Loaded.name = None /\ None \notin Models
  BY ConfigAssumption DEF Init, Loaded, Defaults
<1>2. \A s \in Shells : ~Ready(cmd[s])
  BY DEF Init, Ready, Idle
<1> QED BY <1>1, <1>2 DEF Kept, Wanted

\* What a step has to do: it gives nobody a new model but an installed one, and does
\* not take away what is wanted.
LEMMA KSame ==
  ASSUME Kept, Calm' => Calm,
         ASSUME Calm', NEW m \in Models PROVE Held(m) => Held(m)',
         ASSUME Calm', NEW m \in Models PROVE Wanted(m)' => Wanted(m) \/ Held(m)'
  PROVE  Kept'
<1> SUFFICES ASSUME Calm', NEW m \in Models, Wanted(m)' PROVE Held(m)'
  BY DEF Kept
<1>1. Held(m) => Held(m)'
  OBVIOUS
<1>2. Wanted(m) \/ Held(m)'
  OBVIOUS
<1>3. Wanted(m) => Held(m)
  BY DEF Kept
<1> QED BY <1>1, <1>2, <1>3

\* A step of one command that does not change the configuration.
LEMMA KElsewhere ==
  ASSUME Kept, mishaps \subseteq mishaps', Calm' => Loaded' = Loaded,
         NEW s \in Shells, \A u \in Shells \ {s} : cmd'[u] = cmd[u],
         Calm' => \A m : Removing(cmd[s], m) => Removing(cmd'[s], m),
         Calm' => \A m \in installed : m \in installed' \/ Removing(cmd'[s], m),
         Calm' /\ Ready(cmd'[s]) => \/ Ready(cmd[s]) /\ cmd'[s].to = cmd[s].to
                                    \/ cmd'[s].to \in installed'
  PROVE  Kept'
<1>1. Calm' => Calm
  BY DEF Calm
<1>2. ASSUME Calm', NEW m \in Models PROVE Held(m) => Held(m)'
  <2>1. CASE m \in installed
    BY <1>2, <2>1 DEF Held, Removing
  <2>2. ASSUME NEW u \in Shells, Removing(cmd[u], m) PROVE Held(m)'
    <3>1. Removing(cmd'[u], m)
      BY <1>2, <2>2
    <3> QED BY <3>1 DEF Held, Removing
  <2> QED BY <2>1, <2>2 DEF Held
<1>3. ASSUME Calm', NEW m \in Models, Wanted(m)' PROVE Wanted(m) \/ Held(m)'
  <2>1. CASE Loaded'.name = m
    BY <1>3, <2>1 DEF Wanted
  <2>2. ASSUME NEW u \in Shells, Ready(cmd'[u]), cmd'[u].to = m PROVE Wanted(m) \/ Held(m)'
    <3>1. CASE m \in installed'
      BY <3>1 DEF Held
    <3>2. CASE m \notin installed'
      <4>1. Ready(cmd[u]) /\ cmd[u].to = m
        BY <1>3, <2>2, <3>2
      <4> QED BY <4>1 DEF Wanted
    <3> QED BY <3>1, <3>2
  <2>3. Loaded'.name = m \/ \E u \in Shells : Ready(cmd'[u]) /\ cmd'[u].to = m
    BY <1>3 DEF Wanted, Ready
  <2> QED BY <2>1, <2>2, <2>3
<1> QED BY <1>1, <1>2, <1>3, KSame

LEMMA KEarly ==
  ASSUME TInv, Kept, NEW s \in Shells,
         Given(s) \/ Probe(s) \/ Confirm(s) \/ Abort(s) \/ \E b \in BOOLEAN : Pull(s, b) \/ Delete(s, b)
  PROVE  Kept'
<1>0. cmd \in [Shells -> Command] /\ cmd[s] \in Command /\ Placed(cmd[s])
  BY DEF TInv, TypeOK
<1>1. UNCHANGED disk /\ mishaps \subseteq mishaps' /\ \A u \in Shells \ {s} : cmd'[u] = cmd[u]
  BY Early
<1>2. Loaded' = Loaded
  BY <1>1 DEF Loaded, disk
<1>3. CASE Given(s)
  <2>1. PICK op \in Ops, to \in Subjects, pc \in {"probe", "confirm", "open"} :
          Begin(s, op, to, pc) /\ (pc = "open" => op \notin {"setup", "remove", "selfEnable"})
    BY <1>3, Begins
  <2> DEFINE c == [Idle EXCEPT !.op = op, !.to = to, !.pc = pc, !.cfg = Loaded]
  <2>2. c.op = op /\ c.pc = pc /\ ~c.have
    BY DEF Idle
  <2>3. cmd'[s] = c /\ cmd[s] = Idle /\ installed' = installed
    BY <2>1, <1>0 DEF Begin
  <2> HIDE DEF c
  <2>4. ~Ready(cmd'[s]) /\ \A m : ~Removing(cmd[s], m)
    BY <2>1, <2>2, <2>3 DEF Ready, Removing, Idle
  <2> QED BY <1>1, <1>2, <2>3, <2>4, KElsewhere
<1>4. CASE Probe(s)
  <2>1. /\ cmd'[s].op = cmd[s].op /\ cmd'[s].to = cmd[s].to /\ cmd'[s].pc = "confirm"
        /\ cmd'[s].have = (cmd[s].to \in installed) /\ installed' = installed
        /\ cmd[s].pc = "probe"
    BY <1>0, <1>4 DEF Probe, Command
  <2>2. /\ \A m : ~Removing(cmd[s], m)
        /\ Ready(cmd'[s]) => cmd'[s].to \in installed'
    BY <2>1 DEF Ready, Removing
  <2> QED BY <1>1, <1>2, <2>1, <2>2, KElsewhere
<1>5. CASE Confirm(s)
  <2>1. /\ cmd'[s].op = cmd[s].op /\ cmd'[s].to = cmd[s].to /\ cmd'[s].stale = cmd[s].stale
        /\ cmd'[s].pc = IF cmd[s].op = "remove" THEN "delete"
                        ELSE IF cmd[s].op = "setup" /\ ~cmd[s].have THEN "pull" ELSE "open"
        /\ installed' = installed /\ cmd[s].pc = "confirm"
    BY <1>0, <1>5 DEF Confirm, Goto, Command
  <2>2. \A m : ~Removing(cmd[s], m)
    BY <2>1 DEF Removing
  <2>3. Ready(cmd'[s]) => Ready(cmd[s])
    BY <2>1 DEF Ready
  <2> QED BY <1>1, <1>2, <2>1, <2>2, <2>3, KElsewhere
<1>6. ASSUME NEW b \in BOOLEAN, Pull(s, b) PROVE Kept'
  <2>1. /\ cmd'[s].op = cmd[s].op /\ cmd'[s].to = cmd[s].to /\ cmd[s].pc = "pull"
        /\ cmd'[s].pc = "open" /\ installed \subseteq installed'
        /\ Calm' => cmd[s].to \in installed'
    BY <1>0, <1>6 DEF Pull, Goto, Command, Happens, Calm
  <2>2. \A m : ~Removing(cmd[s], m)
    BY <2>1 DEF Removing
  <2> QED BY <1>1, <1>2, <2>1, <2>2, KElsewhere
<1>7. ASSUME NEW b \in BOOLEAN, Delete(s, b) PROVE Kept'
  <2>1. /\ cmd'[s].op = "remove" /\ cmd'[s].to = cmd[s].to /\ cmd[s].pc = "delete"
        /\ cmd'[s].pc = "open" /\ installed \ {cmd[s].to} \subseteq installed'
    BY <1>0, <1>7 DEF Delete, Goto, Command, Placed
  <2>2. /\ \A m : ~Removing(cmd[s], m)
        /\ Removing(cmd'[s], cmd[s].to) /\ ~Ready(cmd'[s])
    BY <2>1 DEF Removing, Ready
  <2>3. \A m \in installed : m \in installed' \/ Removing(cmd'[s], m)
    BY <2>1, <2>2
  <2> QED BY <1>1, <1>2, <2>2, <2>3, KElsewhere
<1>8. CASE Abort(s)
  <2>1. cmd'[s] = Idle /\ installed' = installed /\ cmd[s].pc \notin {"write", "rename"}
    BY <1>0, <1>8 DEF Abort
  <2>2. ~Ready(cmd'[s])
    BY <2>1 DEF Ready, Idle
  <2>3. Calm' => \A m : ~Removing(cmd[s], m)
    BY <1>8, <2>1 DEF Removing, Abort, Happens, Calm
  <2> QED BY <1>1, <1>2, <2>1, <2>2, <2>3, KElsewhere
<1> QED BY <1>3, <1>4, <1>5, <1>6, <1>7, <1>8

LEMMA KSaves ==
  ASSUME TInv, FInv, Kept, NEW s \in Shells, Open(s) \/ Write(s)
  PROVE  Kept'
<1>0. cmd \in [Shells -> Command] /\ cmd[s] \in Command
  BY DEF TInv, TypeOK
<1>1. /\ cmd'[s].op = cmd[s].op /\ cmd'[s].to = cmd[s].to /\ cmd'[s].stale = cmd[s].stale
      /\ cmd'[s].pc \in {"write", "rename"} /\ cmd[s].pc \in {"open", "write"}
      /\ installed' = installed /\ mishaps \subseteq mishaps'
      /\ \A u \in Shells \ {s} : cmd'[u] = cmd[u]
  <2>1. CASE Open(s)
    <3>1. PICK f \in Files : cmd' = [cmd EXCEPT ![s].pc = "write", ![s].fd = f]
      BY <2>1 DEF Open
    <3>2. cmd[s].pc = "open" /\ installed' = installed /\ mishaps \subseteq mishaps'
      BY <2>1 DEF Open, Happens
    <3> QED BY <1>0, <3>1, <3>2 DEF Command
  <2>2. CASE Write(s)
    BY <1>0, <2>2 DEF Write, Goto, Command
  <2> QED BY <2>1, <2>2
<1>2. Calm' => Loaded' = Loaded
  BY <1>1, OpenKeeps, WriteKeeps DEF Calm
<1>3. \A m : Removing(cmd[s], m) => Removing(cmd'[s], m)
  BY <1>1 DEF Removing
<1>4. Ready(cmd'[s]) => Ready(cmd[s])
  BY <1>1 DEF Ready
<1> QED BY <1>1, <1>2, <1>3, <1>4, KElsewhere

LEMMA KFails ==
  ASSUME TInv, FInv, Kept, NEW s \in Shells, RenameFails(s) \/ SaveDies(s)
  PROVE  Kept'
<1>1. /\ cmd' = [cmd EXCEPT ![s] = Idle] /\ mishaps' = mishaps \cup Trouble(s)
      /\ installed' = installed
  BY DEF RenameFails, SaveDies, Happens
<1>2. cmd'[s] = Idle /\ \A u \in Shells \ {s} : cmd'[u] = cmd[u]
  BY <1>1 DEF TInv, TypeOK
<1>3. Calm' => Loaded' = Loaded
  BY <1>1, FailsKeep DEF Calm
<1>4. Calm' => \A m : ~Removing(cmd[s], m)
  BY <1>1 DEF Calm, Trouble, Removing
<1>5. ~Ready(cmd'[s])
  BY <1>2 DEF Ready, Idle
<1> QED BY <1>1, <1>2, <1>3, <1>4, <1>5, KElsewhere

LEMMA KRename ==
  ASSUME TInv, FInv, Fresh, Kept, NEW s \in Shells, Rename(s)
  PROVE  Kept'
<1>0. /\ cmd \in [Shells -> Command] /\ cmd[s] \in Command /\ cmd[s].pc = "rename"
      /\ Placed(cmd[s]) /\ tmp \in Files
      /\ path' = tmp /\ installed' = installed /\ mishaps \subseteq mishaps'
  BY DEF TInv, TypeOK, Rename, Happens
<1>1. ASSUME Calm' PROVE Untouched /\ ~cmd[s].stale
  BY <1>1 DEF Rename, Happens, Calm, Untouched
<1>2. ASSUME Calm'
      PROVE  Loaded'.name = IF cmd[s].op = "setup" THEN cmd[s].to
                            ELSE IF cmd[s].op = "remove" THEN None ELSE Loaded.name
  <2>1. cmd[s].cfg = Loaded
    BY <1>0, <1>1, <1>2 DEF Fresh
  <2>2. Parses
    BY <1>1, <1>2 DEF FInv, Lone, Untouched
  <2>4. Loaded' = Edit(cmd[s].op, cmd[s].to, Loaded)
    BY <2>1, <1>1, <1>2, Renamed DEF Changed
  <2>5. Loaded \in Configs /\ cmd[s].op \in Ops
    BY <1>0, <2>2 DEF Parses, Command
  <2> QED BY <2>4, <2>5 DEF Edit, Configs, Ops
<1>3. ASSUME NEW u \in Shells
      PROVE  /\ ~Ready(cmd'[u])
             /\ u # s => \A m : Removing(cmd[u], m) => Removing(cmd'[u], m)
  <2>1. cmd[u] \in Command
    BY <1>0
  <2>2. CASE u = s
    <3>1. cmd'[u] = Idle
      BY <2>2 DEF Rename, Staled
    <3> QED BY <2>2, <3>1 DEF Ready, Idle
  <2>3. CASE u # s
    <3> DEFINE b == cmd[u].pc # "idle"
    <3>1. cmd'[u] = [cmd[u] EXCEPT !.stale = b] /\ b \in BOOLEAN
      BY <2>3 DEF Rename, Staled
    <3> HIDE DEF b
    <3>2. /\ cmd'[u].op = cmd[u].op /\ cmd'[u].to = cmd[u].to /\ cmd'[u].pc = cmd[u].pc
          /\ cmd'[u].stale = b
      BY <2>1, <3>1 DEF Command
    <3> QED BY <3>2 DEF b, Ready, Removing
  <2> QED BY <2>2, <2>3
<1>4. ASSUME NEW m \in Models, Held(m), ~Removing(cmd[s], m) PROVE Held(m)'
  <2>1. CASE m \in installed
    BY <2>1, <1>0 DEF Held
  <2>2. ASSUME NEW u \in Shells, Removing(cmd[u], m) PROVE Held(m)'
    <3>1. Removing(cmd'[u], m)
      BY <1>3, <1>4, <2>2
    <3> QED BY <3>1 DEF Held, Removing
  <2> QED BY <1>4, <2>1, <2>2 DEF Held
<1> SUFFICES ASSUME Calm', NEW m \in Models, Wanted(m)' PROVE Held(m)'
  BY DEF Kept
<1>5. Calm
  BY <1>0 DEF Calm
<1>6. Loaded'.name = m
  BY <1>3 DEF Wanted, Ready
<1>7. cmd[s].op # "remove" /\ ~Removing(cmd[s], m)
  BY <1>2, <1>6, ConfigAssumption DEF Removing
<1>8. Held(m)
  <2>1. CASE cmd[s].op = "setup"
    <3>1. Ready(cmd[s]) /\ cmd[s].to = m
      BY <1>0, <1>1, <1>2, <1>6, <2>1 DEF Ready
    <3> QED BY <1>5, <3>1 DEF Kept, Wanted
  <2>2. CASE cmd[s].op # "setup"
    <3>1. Loaded.name = m
      BY <1>2, <1>6, <1>7, <2>2
    <3> QED BY <1>5, <3>1 DEF Kept, Wanted
  <2> QED BY <2>1, <2>2
<1> QED BY <1>4, <1>7, <1>8

LEMMA KStep == TInv /\ FInv /\ Fresh /\ Kept /\ [Next]_vars => Kept'
<1> SUFFICES ASSUME TInv, FInv, Fresh, Kept, [Next]_vars PROVE Kept'
  OBVIOUS
<1>1. CASE UNCHANGED vars \/ StartServer
  <2>1. UNCHANGED <<disk, cmd, installed, mishaps>>
    BY <1>1 DEF vars, disk, StartServer
  <2>2. Loaded' = Loaded /\ (Calm' => Calm)
    BY <2>1 DEF Loaded, Calm, disk
  <2>3. ASSUME NEW m PROVE (Held(m) => Held(m)') /\ (Wanted(m)' => Wanted(m))
    BY <2>1, <2>2 DEF Held, Wanted, Ready, Removing
  <2> QED BY <2>2, <2>3, KSame
<1>2. ASSUME NEW s \in Shells, Given(s) PROVE Kept'
  BY <1>2, KEarly
<1>3. ASSUME NEW s \in Shells,
             Probe(s) \/ Confirm(s) \/ Abort(s) \/ \E b \in BOOLEAN : Pull(s, b) \/ Delete(s, b)
      PROVE  Kept'
  BY <1>3, KEarly
<1>4. ASSUME NEW s \in Shells, Proceeds(s) PROVE Kept'
  BY <1>3, <1>4, KSaves, KRename, KFails DEF Proceeds
<1> QED BY <1>1, <1>2, <1>4 DEF Next

\* However many commands are in progress, the model the configuration enables is one the
\* daemon has, or a remove that deleted it is about to save: a setup that found its model
\* installed, before its prompt, cannot enable it after another command took it away,
\* unless commands were cut short, got in each other's way, or a pull ended early
\* (llm_setup.go runModelsSetup, runModelsRemove).
THEOREM UsesWhatIsThere == Spec => []EnabledIsInstalled
<1>1. TInv /\ Consent /\ Kept => EnabledIsInstalled
  <2> SUFFICES ASSUME TInv, Consent, Kept, Calm, Parses, Loaded.enabled
               PROVE  Held(Loaded.name)
    BY DEF EnabledIsInstalled, Held, Removing, Calm
  <2>1. Loaded.name \in Models
    BY CLoaded DEF Parses, Configs, AgreedTo
  <2> QED BY <2>1 DEF Kept, Wanted
<1> QED BY TInit, TStep, FInit, FStep, RInit, RStep, CInit, CStep, KInit, KStep, <1>1, PTL DEF Spec
=============================================================================
