----------------------------- MODULE ModuleList -----------------------------
(***************************************************************************)
(* The registry of modules in p11-kit/modules.c: loading what is           *)
(* configured, the lists that callers get of it, initializing, finalizing  *)
(* and releasing them, single modules, and the deprecated "registered"     *)
(* calls.  The call into one module is one step; ModuleInit takes it apart.*)
(***************************************************************************)
EXTENDS Integers, FiniteSets

CONSTANTS
    Settings,     \* the configurations and environments to look at
    Callers,
    MaxClosures,  \* P11_VIRTUAL_MAX_FIXED
    MaxCount      \* bound on the counts, which a failure may leave too high

ProxyName == "p11-kit-proxy"
Options == [critical : BOOLEAN, managed : BOOLEAN, trusted : BOOLEAN,
            remote : BOOLEAN, priority : {0, 1},
            which : {"any", "enable-in", "disable-in"},
            programs : SUBSET {"ssh", "firefox", ProxyName}]

VARIABLES
    setting,   \* what stays the same in a behaviour: see below
    gl,        \* the registry, with the state of the modules themselves
    progname,  \* p11_my_progname
    list,      \* per caller: its modules, with managed and "initialized"
    kind,      \* per caller: how it loaded them
    pc, todo,  \* per caller: what it does, and the modules left to do it with
    rv,        \* per caller: did no critical module fail?
    wanted     \* per caller: the modules that the documentation promises it

vars == <<setting, gl, progname, list, kind, pc, todo, rv, wanted>>

Cfg == setting.cfg             \* the options of the configured modules, a sequence
Mods == DOMAIN Cfg             \* the modules, numbered in the order of their names
Programs == setting.programs   \* the names the program may give itself
FlagSets == setting.flags      \* the flags callers pass
Kinds == setting.kinds         \* the ways in which callers load
BadLoad == setting.bad_load    \* modules that may fail to load
BadInit == setting.bad_init    \* modules whose C_Initialize may fail

TypeOK ==
    /\ setting \in Settings
    /\ \A m \in Mods : Cfg[m] \in Options
    /\ gl.config \in BOOLEAN
    /\ gl.named \subseteq gl.loaded /\ gl.loaded \subseteq Mods
    /\ gl.refs \in [Mods -> Nat]
    /\ gl.inits \in [Mods -> Int]
    /\ gl.called \in [Mods -> BOOLEAN]
    /\ gl.up \in [Mods -> BOOLEAN]
    /\ progname \in Programs
    /\ \A c \in Callers :
         /\ DOMAIN list[c] \subseteq gl.loaded
         /\ \A m \in DOMAIN list[c] : list[c][m] \in [managed : BOOLEAN, on : BOOLEAN]
    /\ kind \in [Callers -> Kinds \cup {"none"}]
    /\ pc \in [Callers -> {"idle", "loaded", "init", "ready", "final", "held"}]
    /\ todo \in [Callers -> SUBSET Mods]
    /\ rv \in [Callers -> BOOLEAN]

Zeros == [m \in Mods |-> 0]
Empty == [m \in {} |-> m]

Init ==
    /\ setting \in Settings
    /\ gl = [config |-> FALSE, loaded |-> {}, named |-> {}, refs |-> Zeros,
             inits |-> Zeros, called |-> [m \in Mods |-> FALSE],
             up |-> [m \in Mods |-> FALSE]]
    /\ progname \in Programs
    /\ list = [c \in Callers |-> Empty]
    /\ kind = [c \in Callers |-> "none"]
    /\ pc = [c \in Callers |-> "idle"]
    /\ todo = [c \in Callers |-> {}]
    /\ rv = [c \in Callers |-> TRUE]
    /\ wanted = [c \in Callers |-> {}]
-----------------------------------------------------------------------------
\* is_module_enabled_unlocked
Named(m, flags) ==
    \/ progname \in Cfg[m].programs
    \/ "proxy" \in flags /\ ProxyName \in Cfg[m].programs
Enabled(m, flags) ==
    CASE Cfg[m].which = "any" -> TRUE
      [] Cfg[m].which = "enable-in" -> Named(m, flags)
      [] Cfg[m].which = "disable-in" -> ~Named(m, flags)

\* load_registered_modules_unlocked: the configured modules are loaded in some
\* order, up to a critical one that fails.  bad are the modules that fail,
\* done the ones that have their turn.
Configured(m) == Enabled(m, {})
CriticalFailures(bad) == {m \in bad : Cfg[m].critical /\ Configured(m)}
Turns(bad) ==
    IF CriticalFailures(bad) = {} THEN {Mods}
    ELSE SUBSET (Mods \ CriticalFailures(bad))
LoadRegistered(g, bad, done) ==
    IF g.config THEN g
    ELSE LET new == {m \in done \ bad : Configured(m)}
         IN [g EXCEPT !.config = TRUE, !.loaded = @ \cup new, !.named = @ \cup new]
LoadFails(g, bad) == ~g.config /\ CriticalFailures(bad) # {}

\* free_modules_when_no_refs_unlocked
NoRefsMutant(g) == \A m \in g.named : g.refs[m] = 0
NoRefs(g) == \A m \in g.loaded : g.refs[m] = 0
FreeWhenNoRefs(g) ==
    IF NoRefs(g)
    THEN [g EXCEPT !.config = FALSE, !.loaded = {}, !.named = {}, !.inits = Zeros,
                   !.called = [m \in Mods |-> FALSE]]
    ELSE g

\* initialize_module_inlock_reentrant for the modules in mods, of which those
\* in bad fail.  A module that somebody else has initialized counts as
\* initialized, but not as ours to finalize.
InitFails(g, m, bad) == ~g.called[m] /\ ~g.up[m] /\ m \in bad
InitModules(g, mods, bad) ==
    LET ok == {m \in mods : ~InitFails(g, m, bad)}
        before(m) == IF g.called[m] THEN g.inits[m] ELSE 0
    IN [g EXCEPT
          !.called = [m \in Mods |-> IF m \in ok /\ ~g.called[m] THEN ~g.up[m] ELSE @[m]],
          !.up = [m \in Mods |-> m \in ok \/ @[m]],
          !.inits = [m \in Mods |-> IF m \in ok THEN before(m) + 1 ELSE @[m]],
          !.refs = [m \in Mods |-> IF m \in ok /\ before(m) = 0 THEN @[m] + 1 ELSE @[m]]]

\* finalize_module_inlock_reentrant for the modules in mods
LastInitMutant(g, m) == TRUE
LastInit(g, m) == g.inits[m] <= 1
FinalizeModules(g, mods) ==
    LET live == {m \in mods : g.refs[m] # 0}
        last == {m \in live : LastInit(g, m)}
        down == {m \in last : g.called[m]}
        h == [g EXCEPT
                !.inits = [m \in Mods |-> IF m \in live THEN @[m] - 1 ELSE @[m]],
                !.called = [m \in Mods |-> @[m] /\ m \notin down],
                !.up = [m \in Mods |-> @[m] /\ m \notin down],
                !.refs = [m \in Mods |-> IF m \in last THEN @[m] - 1 ELSE @[m]]]
    IN IF last = {} THEN h ELSE FreeWhenNoRefs(h)

\* release_module_inlock_rentrant for the modules of a list: one reference of
\* the list, one of the closure
RefsOfMutant(entry) == 1
RefsOf(entry) == IF entry.managed THEN 2 ELSE 1
ReleaseModules(g, l) ==
    [g EXCEPT !.refs = [m \in Mods |->
        IF m \in DOMAIN l THEN @[m] - RefsOf(l[m]) ELSE @[m]]]
-----------------------------------------------------------------------------
\* prepare_module_inlock_reentrant: which modules a caller gets, and how
Managed(m, flags) == "unmanaged" \notin flags /\ Cfg[m].managed
Suitable(m, flags) ==
    /\ "trusted" \in flags => Cfg[m].trusted
    /\ Managed(m, flags) \/ ~Cfg[m].remote
Prepared(mods, flags) ==
    [m \in mods |-> [managed |-> Managed(m, flags), on |-> FALSE]]
AddRefs(g, l) ==
    [g EXCEPT !.refs = [m \in Mods |-> @[m] + (IF m \notin DOMAIN l THEN 0
                                               ELSE IF l[m].managed THEN 2 ELSE 1)]]

ManagedIn(l) == {m \in DOMAIN l : l[m].managed}
ClosuresInUse == UNION {{<<c, m>> : m \in ManagedIn(list[c])} : c \in Callers}
Fits(l) == Cardinality(ClosuresInUse) + Cardinality(ManagedIn(l)) <= MaxClosures

\* A closure that cannot be had fails the call; what was prepared is released
\* again, but not the reference of the managed module that has no closure.
WrapFails(g, m) == FreeWhenNoRefs([g EXCEPT !.refs[m] = @ + 1])

Idle(c) == pc[c] = "idle"
MayLoad(c) == Idle(c) /\ \A m \in Mods : gl.inits[m] < MaxCount /\ gl.refs[m] < MaxCount
Got(c, k, l, promised) ==
    /\ list' = [list EXCEPT ![c] = l]
    /\ kind' = [kind EXCEPT ![c] = k]
    /\ pc' = [pc EXCEPT ![c] = IF k = "both" THEN "init" ELSE "loaded"]
    /\ todo' = [todo EXCEPT ![c] = DOMAIN l]
    /\ rv' = [rv EXCEPT ![c] = TRUE]
    /\ wanted' = [wanted EXCEPT ![c] = promised]
GotNothing == UNCHANGED <<list, kind, pc, todo, rv, wanted>>

\* p11_modules_load_inlock_reentrant, for p11_kit_modules_load and
\* p11_kit_modules_load_and_initialize
StillEnabledMutant(m, flags) == TRUE
StillEnabled(m, flags) == Enabled(m, flags)
Load(c, k, flags, bad, done) ==
    LET g == LoadRegistered(gl, bad, done)
        mods == {m \in g.named : StillEnabled(m, flags) /\ Suitable(m, flags)}
        l == Prepared(mods, flags)
    IN /\ MayLoad(c)
       /\ IF LoadFails(gl, bad)
          THEN gl' = g /\ GotNothing
          ELSE IF Fits(l)
          THEN /\ gl' = AddRefs(g, l)
               /\ Got(c, k, l, {m \in Mods : Enabled(m, flags) /\ Suitable(m, flags)})
          ELSE \E m \in mods : gl' = WrapFails(g, m) /\ GotNothing
       /\ UNCHANGED progname

LoadModules(c) ==
    \E k \in Kinds \cap {"list", "both"}, flags \in FlagSets, bad \in SUBSET BadLoad :
       \E done \in Turns(bad) : Load(c, k, flags, bad, done)

\* p11_kit_module_load, by the path of the module; a remote one has none.
LoadModule(c) ==
    \E k \in Kinds \cap {"single"}, flags \in FlagSets, m \in Mods :
       LET l == Prepared({m}, flags)
           g == [gl EXCEPT !.loaded = @ \cup {m}]
       IN /\ MayLoad(c) /\ ~Cfg[m].remote
          /\ \/ /\ m \in BadLoad
                /\ gl' = FreeWhenNoRefs(gl) /\ GotNothing
             \/ IF "trusted" \in flags /\ ~(m \in g.named /\ Cfg[m].trusted)
                THEN gl' = FreeWhenNoRefs(g) /\ GotNothing
                ELSE IF Fits(l)
                THEN gl' = AddRefs(g, l) /\ Got(c, k, l, {})
                ELSE gl' = WrapFails(g, m) /\ GotNothing
          /\ UNCHANGED progname
-----------------------------------------------------------------------------
\* compar_priority: callers go through a list in this order
Before(m, n) ==
    \/ Cfg[m].priority > Cfg[n].priority
    \/ Cfg[m].priority = Cfg[n].priority /\ m < n
First(mods) == CHOOSE m \in mods : \A n \in mods \ {m} : Before(m, n)

Keep(c) == UNCHANGED <<progname, kind, wanted>>
TurnOf(c, step, m) == pc[c] = step /\ todo[c] # {} /\ m = First(todo[c])
TurnOver(c) == todo' = [todo EXCEPT ![c] = @ \ {First(@)}] /\ UNCHANGED pc
SetOn(c, m, on) == list' = [list EXCEPT ![c][m].on = on]

\* The caller goes on to p11_kit_modules_initialize, or to _finalize.
Start(c, from, step) ==
    /\ pc[c] = from
    /\ pc' = [pc EXCEPT ![c] = step]
    /\ todo' = [todo EXCEPT ![c] = DOMAIN list[c]]
    /\ UNCHANGED <<gl, list, rv>> /\ Keep(c)
StartInitialize(c) == Start(c, "loaded", "init")
StartFinalize(c) == Start(c, "ready", "final")

\* C_Initialize of a module in the list: that of the managed closure, or the
\* module's own
ModuleInitialized(c, m) ==
    /\ gl' = IF list[c][m].managed THEN InitModules(gl, {m}, {})
             ELSE [gl EXCEPT !.up[m] = TRUE]
    /\ SetOn(c, m, TRUE)
    /\ UNCHANGED rv

\* p11_kit_modules_initialize: a module that fails is released and dropped.
\* p11_kit_module_initialize only returns the error.
RecordFailure(c, m) == rv' = [rv EXCEPT ![c] = @ /\ ~Cfg[m].critical]
Without(l, m) == [n \in DOMAIN l \ {m} |-> l[n]]
ModuleFailed(c, m) ==
    /\ m \in BadInit /\ ~gl.called[m] /\ ~gl.up[m]
    /\ IF kind[c] = "single" THEN UNCHANGED <<gl, list, rv>>
       ELSE /\ gl' = ReleaseModules(gl, [n \in {m} |-> list[c][m]])
            /\ list' = [list EXCEPT ![c] = Without(@, m)]
            /\ RecordFailure(c, m)

InitializeModule(c) ==
    \E m \in Mods :
       /\ TurnOf(c, "init", m)
       /\ \/ ~list[c][m].on /\ ModuleInitialized(c, m)
          \/ ~list[c][m].on /\ ModuleFailed(c, m)
          \/ list[c][m].on /\ UNCHANGED <<gl, list, rv>>
       /\ TurnOver(c) /\ Keep(c)

\* p11_modules_release_inlock_reentrant; p11_kit_module_release does not look
\* whether the modules can be freed.
Released(c) ==
    LET g == ReleaseModules(gl, list[c])
    IN /\ gl' = IF kind[c] = "single" THEN g ELSE FreeWhenNoRefs(g)
       /\ list' = [list EXCEPT ![c] = Empty]
       /\ kind' = [kind EXCEPT ![c] = "none"]
       /\ pc' = [pc EXCEPT ![c] = "idle"]
       /\ todo' = [todo EXCEPT ![c] = {}]
       /\ rv' = [rv EXCEPT ![c] = TRUE]
       /\ wanted' = [wanted EXCEPT ![c] = {}]
       /\ UNCHANGED progname

\* The end of p11_kit_modules_initialize; p11_kit_modules_load_and_initialize
\* releases the list on failure.
GivesUpMutant(c) == FALSE
GivesUp(c) == kind[c] = "both" /\ ~rv[c]
InitializeEnds(c) ==
    /\ pc[c] = "init" /\ todo[c] = {}
    /\ IF GivesUp(c) THEN Released(c)
       ELSE pc' = [pc EXCEPT ![c] = "ready"] /\ UNCHANGED <<gl, list, todo, rv>> /\ Keep(c)

\* p11_kit_modules_finalize
FinalizeModule(c) ==
    \E m \in Mods :
       /\ TurnOf(c, "final", m)
       /\ IF list[c][m].on
          THEN /\ SetOn(c, m, FALSE)
               /\ gl' = IF list[c][m].managed THEN FinalizeModules(gl, {m})
                        ELSE [gl EXCEPT !.up[m] = FALSE]
          ELSE UNCHANGED <<gl, list>>
       /\ TurnOver(c) /\ UNCHANGED rv /\ Keep(c)
FinalizeEnds(c) ==
    /\ pc[c] = "final" /\ todo[c] = {}
    /\ pc' = [pc EXCEPT ![c] = "loaded"]
    /\ UNCHANGED <<gl, list, todo, rv>> /\ Keep(c)

\* p11_kit_modules_release and p11_kit_module_release, by a caller that has
\* finalized, as it should
Release(c) ==
    /\ pc[c] = "loaded"
    /\ Released(c)
-----------------------------------------------------------------------------
\* p11_kit_finalize_registered: the modules that have a function list of their
\* own and a name, and that anybody has initialized
Registered(g) == {m \in g.named : ~Cfg[m].remote}
FinalizeAll(g) ==
    LET mods == {m \in Registered(g) : g.inits[m] # 0}
    IN IF mods = {} THEN FreeWhenNoRefs(g) ELSE FinalizeModules(g, mods)

\* p11_kit_initialize_registered: the modules in turn, up to a critical one
\* that fails; what was done is undone on failure.
InitializeRegistered(c) ==
    \E bad \in SUBSET BadLoad, badInit \in SUBSET BadInit :
    \E done \in Turns(bad) :
       LET g == LoadRegistered(gl, bad, done)
           mods == {m \in Registered(g) : Enabled(m, {})}
           critical == {m \in mods : Cfg[m].critical /\ InitFails(g, m, badInit)}
       IN /\ "registered" \in Kinds /\ MayLoad(c)
          /\ IF LoadFails(gl, bad)
             THEN gl' = FinalizeAll(g) /\ UNCHANGED pc
             ELSE IF critical = {}
             THEN gl' = InitModules(g, mods, badInit) /\ pc' = [pc EXCEPT ![c] = "held"]
             ELSE /\ \E turns \in SUBSET (mods \ critical) :
                       gl' = FinalizeAll(InitModules(g, turns, badInit))
                  /\ UNCHANGED pc
          /\ UNCHANGED <<progname, list, kind, todo, rv, wanted>>

FinalizeRegistered(c) ==
    /\ pc[c] = "held"
    /\ gl' = FinalizeAll(gl)
    /\ pc' = [pc EXCEPT ![c] = "idle"]
    /\ UNCHANGED <<progname, list, kind, todo, rv, wanted>>

\* p11_kit_set_progname
SetProgname ==
    /\ progname' \in Programs \ {progname}
    /\ UNCHANGED <<gl, list, kind, pc, todo, rv, wanted>>

Next ==
    /\ \/ SetProgname
       \/ \E c \in Callers :
            \/ LoadModules(c) \/ LoadModule(c)
            \/ StartInitialize(c) \/ InitializeModule(c) \/ InitializeEnds(c)
            \/ StartFinalize(c) \/ FinalizeModule(c) \/ FinalizeEnds(c)
            \/ Release(c)
            \/ InitializeRegistered(c) \/ FinalizeRegistered(c)
    /\ UNCHANGED setting

Spec == Init /\ [][Next]_vars
-----------------------------------------------------------------------------
HeldBy(c, m) == m \in DOMAIN list[c]
InitializedBy(c, m) ==
    \/ HeldBy(c, m) /\ list[c][m].managed /\ list[c][m].on
    \/ pc[c] = "held" /\ m \in Registered(gl)

\* Where what the callers do can be undone: no critical module fails to
\* initialize half way, and nobody initializes a module behind the back of
\* the managed callers.
Orderly ==
    /\ \A m \in BadInit : ~Cfg[m].critical
    /\ \A flags \in FlagSets : "unmanaged" \notin flags

(* A module's init_count is the number of callers that have initialized it   *)
(* and not finalized it: nobody's call undoes that of another, and a module  *)
(* that fails leaves nothing behind (initialize_module_inlock_reentrant and  *)
(* finalize_module_inlock_reentrant).                                        *)
InitsMatch == Orderly =>
    \A m \in Mods : gl.inits[m] = Cardinality({c \in Callers : InitializedBy(c, m)})

(* A module's ref_count is two for each managed and one for each unmanaged   *)
(* entry in a list, and one while it is initialized: every reference taken   *)
(* in prepare_module_inlock_reentrant and managed_create_inlock is given     *)
(* back on every path.                                                       *)
RefsMatch == Orderly =>
    \A m \in Mods :
       gl.refs[m] = Cardinality({c \in Callers : HeldBy(c, m)})
                    + Cardinality({c \in Callers : m \in ManagedIn(list[c])})
                    + (IF gl.inits[m] > 0 THEN 1 ELSE 0)

(* When all callers have released the lists they had, the configuration and  *)
(* the modules are freed, so that the next load reads the configuration      *)
(* again (free_modules_when_no_refs_unlocked).                               *)
NothingLeft ==
    Orderly /\ "single" \notin Kinds /\ (\A c \in Callers : Idle(c))
        => ~gl.config /\ gl.loaded = {}

(* A module that a caller has initialized through its managed list stays     *)
(* initialized until that caller finalizes it, whatever the others do.       *)
InitializedIsUp == Orderly =>
    \A c \in Callers : \A m \in ManagedIn(list[c]) :
       list[c][m].on => gl.up[m]

(* p11_kit_modules_load_and_initialize returns a list only if no critical    *)
(* module failed to load or to initialize: such a list has all the critical  *)
(* modules that the configuration enables for the caller.                    *)
CriticalEnforced ==
    \A c \in Callers : kind[c] = "both" /\ pc[c] = "ready" =>
       \A m \in wanted[c] : Cfg[m].critical => HeldBy(c, m) /\ list[c][m].on

(* The same where critical modules load, and may only fail to initialize.    *)
CriticalInitEnforced == (\A m \in BadLoad : ~Cfg[m].critical) => CriticalEnforced

(* A list never has a module that enable-in or disable-in keeps from the     *)
(* program or the proxy, though the program renamed itself since the modules *)
(* were loaded (the check made again in p11_modules_load_inlock_reentrant).  *)
OnlyEnabled == \A c \in Callers : kind[c] \in {"list", "both"} => DOMAIN list[c] \subseteq wanted[c]
=============================================================================
