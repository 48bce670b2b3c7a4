------------------------------- MODULE Memory -------------------------------
(***************************************************************************)
(* The memory module as the server uses it: a session map in front of       *)
(* long-term memory for the outcomes of goals, and directives and the       *)
(* health probe directly in long-term memory.  The two tiers have a lock    *)
(* each, so a store or a recall is a step per tier, and the run loop,       *)
(* requests and analyses run between them.                                  *)
(***************************************************************************)
EXTENDS LongTermMemory

CONSTANTS
    Outcomes, Directives, Probe,    \* the keys of Stored, by use
    Healthy,                        \* the value of the probe
    Requests                        \* requests in progress at once

Actors == {"runner"} \cup Requests

\* The uses are told apart by the prefix of the key.
ASSUME UseAssumption ==
    /\ Stored = Outcomes \cup Directives \cup {Probe}
    /\ Outcomes \cap Directives = {} /\ Probe \notin Outcomes \cup Directives
    /\ Healthy \in Values /\ "runner" \notin Requests

VARIABLES
    session,    \* SessionMemory: per key, a value
    op,         \* per actor, the operation it is in the middle of
    apart       \* history: keys of which a write has failed, or that were
                \* recalled and stored at the same time, in this process

vars == <<files, loaded, entries, idx, session, op, apart>>

Op == [pc : {"idle", "store", "recall", "warm", "probe"},
       key : Keys \cup {Nothing}, value : Values \cup {Nothing}]
NoOp == [pc |-> "idle", key |-> Nothing, value |-> Nothing]

Begin(a, pc, k, v) == op' = [op EXCEPT ![a] = [pc |-> pc, key |-> k, value |-> v]]
End(a) == op' = [op EXCEPT ![a] = NoOp]

Using(k) == {a \in Actors : op[a].key = k}
Apart(k, is) == apart' = IF is THEN apart \cup {k} ELSE apart

Init == LongTermInit /\ session = [k \in Keys |-> Nothing] /\ op = [a \in Actors |-> NoOp] /\ apart = {}

-----------------------------------------------------------------------------
(* StoreContextTagged, called by recordResult: the session first.           *)

\* A store that leaves the session as it is.
MutStoreSession(k, v) ==
    /\ op["runner"] = NoOp
    /\ Begin("runner", "store", k, v)
    /\ Apart(k, Using(k) # {})
    /\ UNCHANGED <<longTermVars, session>>

StoreSession(k, v) ==
    /\ op["runner"] = NoOp
    /\ session' = [session EXCEPT ![k] = v]
    /\ Begin("runner", "store", k, v)
    /\ Apart(k, Using(k) # {})
    /\ UNCHANGED longTermVars

StoreLongTerm(written) ==
    /\ op["runner"].pc = "store"
    /\ Store(op["runner"].key, op["runner"].value, written)
    /\ End("runner")
    /\ Apart(op["runner"].key, ~written)
    /\ UNCHANGED session

(* RecallContext, called by the refiner with the goal's description: a miss *)
(* in the session goes to the file, and what is found warms the session.    *)

RecallMisses(a, k) ==
    /\ op[a] = NoOp /\ session[k] = Nothing
    /\ Begin(a, "recall", k, Nothing)
    /\ UNCHANGED <<longTermVars, session, apart>>

RecallLongTerm(a) ==
    LET k == op[a].key
    IN  /\ op[a].pc = "recall"
        /\ IF CanRecall(k) THEN Recall(k) /\ Begin(a, "warm", k, Recalled(k))
                           ELSE End(a) /\ UNCHANGED longTermVars
        /\ UNCHANGED <<session, apart>>

Warm(a) ==
    /\ op[a].pc = "warm"
    /\ session' = [session EXCEPT ![op[a].key] = op[a].value]
    /\ End(a)
    /\ UNCHANGED <<longTermVars, apart>>

(* Directives, by the API or by an analysis, bypass the session.            *)

AddDirective(d, v, written) ==
    /\ Store(d, v, written)
    /\ UNCHANGED <<session, op, apart>>

RemoveDirective(d, removed) ==
    /\ Forget(d, removed)
    /\ UNCHANGED <<session, op, apart>>

HandleDirective(done) ==
    \E d \in Directives : RemoveDirective(d, done) \/ \E v \in Values : AddDirective(d, v, done)

(* Health: a probe is stored and, if that went well, forgotten again.       *)

StoreProbe(a, written) ==
    /\ op[a] = NoOp
    /\ Store(Probe, Healthy, written)
    /\ IF written THEN Begin(a, "probe", Probe, Nothing) ELSE UNCHANGED op
    /\ UNCHANGED <<session, apart>>

\* A health check that leaves its probe behind.
MutForgetProbe(a, removed) ==
    /\ op[a].pc = "probe"
    /\ End(a)
    /\ UNCHANGED <<longTermVars, session, apart>>

ForgetProbe(a, removed) ==
    /\ op[a].pc = "probe"
    /\ Forget(Probe, removed)
    /\ End(a)
    /\ UNCHANGED session
    /\ Apart(Probe, ~removed)

(* SearchContext and ListDirectives, by the run loop and by requests.       *)

SearchContext == Search /\ UNCHANGED <<session, op, apart>>

(* The process dies and is started again; the files stay.                   *)

Restart ==
    /\ NewProcess
    /\ session' = [k \in Keys |-> Nothing]
    /\ op' = [a \in Actors |-> NoOp]
    /\ apart' = IF \E a \in Actors : op[a].pc = "probe" THEN {Probe} ELSE apart \cap {Probe}
    /\ UNCHANGED files

Next ==
    \/ \E k \in Outcomes, v \in Values : StoreSession(k, v)
    \/ \E a \in Requests, k \in Keys : RecallMisses(a, k)
    \/ \E a \in Requests : RecallLongTerm(a) \/ Warm(a)
    \/ \E w \in BOOLEAN :
         \/ StoreLongTerm(w)
         \/ HandleDirective(w)
         \/ \E a \in Requests : StoreProbe(a, w) \/ ForgetProbe(a, w)
    \/ SearchContext
    \/ Restart

Spec == Init /\ [][Next]_vars

-----------------------------------------------------------------------------
TypeOK ==
    /\ LongTermTypeOK
    /\ session \in [Keys -> Values \cup {Nothing}]
    /\ op \in [Actors -> Op] /\ apart \subseteq Keys

\* The two tiers agree: between operations, an outcome the session holds is the
\* one in its file, whatever requests recall it meanwhile, unless a long-term
\* write failed after the session was set or a recall overlapped the store.
SessionIsCurrent ==
    \A k \in Outcomes \ apart :
        (session[k] # Nothing /\ Using(k) = {}) => FromFiles[k] = MemoryEntry(k, session[k])

\* Health checks leave nothing behind: when none is in progress there is no
\* probe for a search to find, however many of them overlapped, unless one
\* could not remove it or was cut short.
ProbeIsGone ==
    (Probe \notin apart /\ ~ \E a \in Actors : op[a].pc = "probe") => FromFiles[Probe] = Nothing
=============================================================================
