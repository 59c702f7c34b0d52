------------------------------ MODULE MCManaged ------------------------------
(* What stands between callers that share modules, side by side: the managed *)
(* sessions of one module, the slots and the life of the proxy, the lists of *)
(* modules and the tables behind them.  A behaviour is one of the part       *)
(* chosen at the start:                                                      *)
(* the variables of the managed sessions are as in ManagedSessions, and keep *)
(* their first values in the other parts, whose variables share v1 to v13.   *)
EXTENDS ManagedSessions, TLC

CONSTANTS
    Parts,              \* the parts to look at
    c1, c2, t1, t2, t3, m1, m2,
    Worlds, MaxFork,    \* see ProxySlots
    Callers, Settings,  \* see ModuleList
    Pair                \* the callers of the registry

VARIABLES part, v1, v2, v3, v4, v5, v6, v7, v8, v9, v10, v11, v12, v13

others == <<part, v1, v2, v3, v4, v5, v6, v7, v8, v9, v10, v11, v12, v13>>
Unused == "unused"
From10 == v10 = Unused /\ v11 = Unused /\ v12 = Unused /\ v13 = Unused
From4 == /\ v4 = Unused /\ v5 = Unused /\ v6 = Unused /\ v7 = Unused
         /\ v8 = Unused /\ v9 = Unused /\ From10
From11 == v11 = Unused /\ v12 = Unused /\ v13 = Unused
AllUnused == v1 = Unused /\ v2 = Unused /\ v3 = Unused /\ From4

\* Two closures; the first is used by two threads.
SharedClosure == t1 :> c1 @@ t2 :> c1 @@ t3 :> c2

\* Slots that come and go and modules that fail, or a process that forks; not both
PlugOrFork == {{"plug", "fail"}, {"token", "fail"}, {"token", "fork"}}
PlugAndFork == {{"plug", "fork"}}
Proxy == INSTANCE ProxySlots WITH
    Modules <- <<m1, m2>>, RealSlots <- {1, 2}, MaxId <- 4,
    px <- v1, inited <- v2, mappings <- v3, last_id <- v4, forks <- v5, plugged <- v6,
    events <- v7, given <- v8, unreported <- v9, may <- v10

Life == INSTANCE ProxyLife WITH
    Threads <- Callers, Slots <- {1, 2}, Overlap <- FALSE, MaxProxies <- 2, MaxHandle <- 2,
    px <- v1, refs <- v2, sessions <- v3, last_handle <- v4, proxies <- v5, freed <- v6,
    up <- v7, open <- v8, real <- v9, pc <- v10, py <- v11, arg <- v12, holds <- v13

ASSUME LifeConstants == Life!ConstantsOK

Lists == INSTANCE ModuleList WITH
    MaxClosures <- 9, MaxCount <- 7,
    setting <- v1, gl <- v2, progname <- v3, list <- v4, kind <- v5, pc <- v6, todo <- v7,
    rv <- v8, wanted <- v9

\* A library by two paths and by a relative name, another without C_GetInterface,
\* one whose entry point fails, p11-kit's own proxy, and none at all
Lib(opens, interface, functions, funcs) ==
    [opens |-> opens, interface |-> interface, functions |-> functions, funcs |-> funcs]
Libraries ==
    [one |-> Lib(TRUE, "works", "works", 1), alias |-> Lib(TRUE, "missing", "works", 1),
     two |-> Lib(TRUE, "unsupported", "works", 2), bad |-> Lib(TRUE, "fails", "works", 3),
     px |-> Lib(TRUE, "works", "works", 9), none |-> Lib(FALSE, "missing", "missing", 4)]

\* Three configurations of which two lead to one library, or one that is critical
\* and fails
Conf(module) == [remote |-> "none", module |-> module, critical |-> FALSE, trust |-> {},
                 managed |-> {}, reserved |-> {}]
Configured ==
    {[global |-> [managed |-> {"yes"}],
      modules |-> [a |-> [Conf("rel") EXCEPT !.critical = TRUE, !.reserved = {"x"}],
                   b |-> [Conf("alias") EXCEPT !.trust = {"yes"}, !.managed = {"no"}],
                   c |-> [Conf("none") EXCEPT !.remote = "good"]]],
     [global |-> [managed |-> {}],
      modules |-> [b |-> [Conf("two") EXCEPT !.managed = {"no"}],
                   d |-> [Conf("bad") EXCEPT !.critical = TRUE],
                   e |-> [Conf("px") EXCEPT !.remote = "bad"]]]}

Tables == INSTANCE Registry WITH
    Callers <- Pair, Library <- Libraries, ModulePath <- [rel |-> "one"], Proxies <- {9},
    Confs <- Configured, Flags <- {{}, {"unmanaged", "trusted"}}, MaxClosures <- 2,
    MaxLeft <- 1, conf <- v1, gl <- v2, held <- v3
-----------------------------------------------------------------------------
Plain == [critical |-> FALSE, managed |-> TRUE, trusted |-> FALSE, remote |-> FALSE,
          priority |-> 0, which |-> "any", programs |-> {}]
Critical == [Plain EXCEPT !.critical = TRUE, !.trusted = TRUE]
Remote == [Plain EXCEPT !.remote = TRUE, !.priority = 1]
NotInProxy == [Plain EXCEPT !.which = "disable-in", !.programs = {"p11-kit-proxy"}]
NotInFirefox == [Critical EXCEPT !.which = "disable-in", !.programs = {"firefox"}]

NoFlags == {{}}
AnyFlags == {{}, {"trusted"}, {"unmanaged"}, {"proxy"}}
ManagedFlags == {{}, {"trusted"}, {"proxy"}}

Setting(cfg, programs, flags, kinds, bad_load, bad_init) ==
    [cfg |-> cfg, programs |-> programs, flags |-> flags, kinds |-> kinds,
     bad_load |-> bad_load, bad_init |-> bad_init]

\* Lists of a critical, a remote and a plain module; the last two may fail.
InLists == Setting(<<Critical, Remote, Plain>>, {"ssh"}, NoFlags, {"list", "both"},
                   {2, 3}, {2, 3})
\* The registered calls and lists side by side
WithRegistered == Setting(<<Critical, Remote, Plain>>, {"ssh"}, NoFlags,
                          {"list", "registered"}, {2}, {})
\* A critical module may fail to initialize, and callers use every flag.
CriticalFails == Setting(<<Critical, Remote>>, {"ssh"}, AnyFlags, {"both"},
                         {2}, {1, 2})
\* The program renames itself; modules are loaded singly and in lists.
Renamed == Setting(<<NotInProxy, NotInFirefox>>, {"ssh", "firefox"}, ManagedFlags,
                   {"list", "single"}, {}, {})
AllSettings == {InLists, WithRegistered, CriticalFails, Renamed}

\* A critical module may fail to load.
CriticalMissing == {Setting(<<Critical, Remote>>, {"ssh"}, NoFlags, {"both"}, {1}, {})}

CallerSymmetry == Permutations(Callers) \cup Permutations(Pair)
-----------------------------------------------------------------------------
MCInit ==
    /\ part \in Parts
    /\ Init
    /\ \/ part = "sessions" /\ AllUnused
       \/ part = "slots" /\ Proxy!Init /\ From11
       \/ part = "life" /\ Life!Init
       \/ part = "lists" /\ Lists!Init /\ From10
       \/ part = "registry" /\ Tables!Init /\ From4

\* Callers of the proxy and of lists may have done all they wanted.
Done == part \in {"life", "lists"} /\ UNCHANGED <<vars, others>>

MCNext ==
    \/ part = "sessions" /\ Next /\ UNCHANGED others
    \/ part = "slots" /\ Proxy!Next /\ UNCHANGED <<vars, part, v11, v12, v13>>
    \/ part = "life" /\ Life!Next /\ UNCHANGED <<vars, part>>
    \/ part = "lists" /\ Lists!Next /\ UNCHANGED <<vars, part, v10, v11, v12, v13>>
    \/ /\ part = "registry" /\ Tables!Next
       /\ UNCHANGED <<vars, part, v4, v5, v6, v7, v8, v9, v10, v11, v12, v13>>
    \/ Done

MCSpec == MCInit /\ [][MCNext]_<<vars, others>>
-----------------------------------------------------------------------------
(* The types of the parts.                                                   *)
TypesOK ==
    /\ TypeOK
    /\ part = "slots" => Proxy!TypeOK
    /\ part = "life" => Life!TypeOK
    /\ part = "lists" => Lists!TypeOK

(* No two slots of the modules have the same slot id in the proxy, see       *)
(* ProxySlots.                                                               *)
SlotIdsUnique == part = "slots" => Proxy!SlotIdsUnique

(* Nor does a slot id that the application knows ever come to mean another   *)
(* slot.                                                                     *)
SlotIdsStable == part = "slots" => Proxy!SlotIdsUnique /\ Proxy!SlotIdsStable


(* The proxy of a caller that has initialized it stays there, its modules    *)
(* are initialized exactly as long, no freed proxy is looked into, and       *)
(* between calls it knows exactly the sessions that are open: see ProxyLife. *)
ProxyStaysUp == part = "life" => Life!ProxyStaysUp

(* A session handle of the proxy never comes to mean another session, and is *)
(* not given out again, see ProxyLife.                                       *)
HandlesKeepMeaning == [][part = "life" => Life!HandlesKept]_<<vars, others>>

(* A module is initialized and referenced exactly as often as callers have   *)
(* it, stays initialized as long as one of them has it initialized, and is   *)
(* freed when nobody has it: InitsMatch, RefsMatch, InitializedIsUp and      *)
(* NothingLeft of ModuleList.  What a caller holds stays in the tables and   *)
(* its library open: HeldIsKnown and OneModulePerLibrary of Registry.        *)
CountsMatch ==
    /\ part = "lists" => /\ Lists!InitsMatch /\ Lists!RefsMatch
                         /\ Lists!InitializedIsUp /\ Lists!NothingLeft
    /\ part = "registry" => Tables!HeldIsKnown /\ Tables!OneModulePerLibrary

(* A list has the critical modules, if these load, and none that the program *)
(* is not to have: CriticalInitEnforced and OnlyEnabled of ModuleList.  The  *)
(* name, the flags and the options that a module answers with are those of a *)
(* configuration that leads to it: NamesAnswer of Registry.                  *)
ListsAreRight ==
    /\ part = "lists" => Lists!CriticalInitEnforced /\ Lists!OnlyEnabled
    /\ part = "registry" => Tables!NamesAnswer

(* p11_kit_modules_load_and_initialize returns a list only if no critical    *)
(* module failed to load or to initialize, see ModuleList.                   *)
CriticalEnforced == part = "lists" => Lists!CriticalEnforced
=============================================================================
