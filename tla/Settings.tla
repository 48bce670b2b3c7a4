------------------------------ MODULE Settings ------------------------------
(***************************************************************************)
(* What a user of the commands that change the configuration can count on:  *)
(* each takes effect as a whole or not at all, on the settings there were   *)
(* when it was given.  Commands given one at a time build on each other;    *)
(* one that is given while another is waiting is undone by it, wholly.      *)
(* There are no files here, no prompts and no half-done commands.           *)
(***************************************************************************)
CONSTANTS Shells, Models, Values, Default, Sizes, AutoSize, Recommended, None

VARIABLES
    settings,   \* what is in force
    orders,     \* per shell, the command given there and the settings it was given under
    last,       \* the command that took effect last
    settled     \* FALSE once two commands have saved at the same time

settingsVars == <<settings, orders, last, settled>>

Fresh == [model |-> None, local |-> FALSE, numCtx |-> AutoSize, value |-> Default, tool |-> "default"]
Nothing == <<"nothing", None>>
NoOrder == [what |-> Nothing, on |-> Fresh]

SettingsInit ==
    /\ settings = Fresh /\ orders = [s \in Shells |-> NoOrder]
    /\ last = Nothing /\ settled = TRUE

\* Only a model that is set up is enabled or removed.
Possible(what) ==
    /\ what[1] = "enable" => settings.model # None
    /\ what[1] = "remove" => settings.model # None /\ what[2] = settings.model

Give(s, what) ==
    /\ settled /\ settled' /\ orders[s] = NoOrder /\ Possible(what)
    /\ orders' = [orders EXCEPT ![s] = [what |-> what, on |-> settings]]
    /\ UNCHANGED <<settings, last>>

\* The user says no, or something fails.
Drop(s) ==
    /\ settled /\ settled' /\ orders' = [orders EXCEPT ![s] = NoOrder]
    /\ UNCHANGED <<settings, last>>

TakesEffect(s, what, new) ==
    /\ settled /\ settled' /\ orders[s].what = what
    /\ settings' = new /\ last' = what
    /\ orders' = [orders EXCEPT ![s] = NoOrder]

Set(s, v) == TakesEffect(s, <<"set", v>>, [orders[s].on EXCEPT !.value = v])

SetNumCtx(s, n) == TakesEffect(s, <<"setNumCtx", n>>, [orders[s].on EXCEPT !.numCtx = n])

\* A setup sizes the context for its model.
Setup(s, m) ==
    TakesEffect(s, <<"setup", m>>, [orders[s].on EXCEPT !.model = m, !.local = TRUE, !.numCtx = Recommended[m]])

Enable(s) == TakesEffect(s, <<"enable", None>>, [orders[s].on EXCEPT !.local = TRUE])

Disable(s) == TakesEffect(s, <<"disable", None>>, [orders[s].on EXCEPT !.local = FALSE])

\* The user removes the model that was set up, and no other; its size stays.
Remove(s, m) == TakesEffect(s, <<"remove", m>>, [orders[s].on EXCEPT !.model = None, !.local = FALSE])

SelfEnable(s) == TakesEffect(s, <<"selfEnable", None>>, [orders[s].on EXCEPT !.tool = "on"])

SelfDisable(s) == TakesEffect(s, <<"selfDisable", None>>, [orders[s].on EXCEPT !.tool = "off"])

\* Two commands save at the same time, and from then on nothing is said.
Interfere == ~settled'

Whats ==
    ({"set"} \X Values) \cup ({"setNumCtx"} \X Sizes) \cup ({"setup", "remove"} \X Models)
        \cup ({"enable", "disable", "selfEnable", "selfDisable"} \X {None})

SettingsNext ==
    \/ Interfere
    \/ \E s \in Shells :
         \/ \E what \in Whats : Give(s, what)
         \/ Drop(s)
         \/ \E v \in Values : Set(s, v)
         \/ \E n \in Sizes : SetNumCtx(s, n)
         \/ \E m \in Models : Setup(s, m) \/ Remove(s, m)
         \/ Enable(s) \/ Disable(s) \/ SelfEnable(s) \/ SelfDisable(s)

SettingsSpec == SettingsInit /\ [][SettingsNext]_settingsVars
=============================================================================
