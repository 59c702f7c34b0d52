------------------------------- MODULE Registry -------------------------------
(***************************************************************************)
(* The tables of p11-kit/modules.c: the Module structures, the function    *)
(* lists and closures that lead to them, the libraries that they keep      *)
(* open, and what can be asked of a function list: name, file, flags and   *)
(* options.  Several configurations and callers may name one library, by   *)
(* one path or by two.  ModuleList has the initialization of the modules   *)
(* and the choice among them by enable-in, trust and priority.             *)
(***************************************************************************)
EXTENDS Naturals, Sequences, FiniteSets
LOCAL INSTANCE SequencesExt

CONSTANTS
    Callers,
    Library,      \* what is at each path: [opens, interface, functions, funcs]
    ModulePath,   \* the paths of relative names, in P11_MODULE_PATH
    Proxies,      \* the function lists that p11_proxy_module_check knows
    Confs,        \* the configurations that may be in the files
    Flags,        \* the sets of flags that callers pass
    MaxClosures,  \* P11_VIRTUAL_MAX_FIXED
    MaxLeft       \* bound on the Modules with references that nobody gives back

VARIABLES
    conf,    \* the configuration that is in the files
    gl,      \* the shared data, with the libraries that are open
    held     \* per caller: what it got, if anything

vars == <<conf, gl, held>>

OK == "OK"
Empty == [x \in {} |-> x]
Paths == DOMAIN Library
With(f, x, y) == [z \in DOMAIN f \cup {x} |-> IF z = x THEN y ELSE f[z]]
Without(f, x) == [z \in DOMAIN f \ {x} |-> f[z]]
Unused(S) == CHOOSE n \in 1..(Cardinality(S) + 1) : n \notin S

\* gl is empty when gl.modules is NULL; no dictionary is there without the others.
Nothing(opened) == [modules |-> Empty, unmanaged |-> Empty, closures |-> Empty,
                    config |-> {}, opened |-> opened]

Init ==
    /\ conf \in Confs
    /\ gl = Nothing([p \in Paths |-> 0])
    /\ held = [c \in Callers |-> {}]
-----------------------------------------------------------------------------
\* A Module that was not configured is critical.
alloc_module_unlocked ==
    [funcs |-> 0, filename |-> {}, loaded |-> {}, name |-> {}, config |-> {},
     reserved |-> {}, critical |-> TRUE, refs |-> 0, inits |-> 0]

\* What a module has loaded is closed when it is freed.
free_module_unlocked(g, mods) ==
    [g EXCEPT !.opened = [p \in Paths |->
        @[p] - Cardinality({i \in DOMAIN mods : p \in mods[i].loaded})]]

\* C_GetInterface, or C_GetFunctionList where the first is missing or says that it
\* is not supported
dlopen_and_get_function_list(path) ==
    LET lib == Library[path]
        fallback == lib.interface \in {"missing", "unsupported"}
        entry == IF fallback THEN lib.functions ELSE lib.interface
    IN  CASE ~lib.opens -> "GENERAL_ERROR"
          [] lib.opens /\ entry = "missing" -> "GENERAL_ERROR"
          [] lib.opens /\ entry = "fails" -> "DEVICE_ERROR"
          [] lib.opens /\ entry = "works" ->
                IF lib.funcs \in Proxies THEN "FUNCTION_FAILED" ELSE OK

Absolute(path) == IF path \in DOMAIN ModulePath THEN ModulePath[path] ELSE path

\* If the function list is known the new Module is freed, and the old one used.
PreviousMutant(g, funcs) == {}
Previous(g, funcs) == IF funcs \in DOMAIN g.unmanaged THEN {g.unmanaged[funcs]} ELSE {}
load_module_from_file_inlock(g, name) ==
    LET path == Absolute(name)
        rv == dlopen_and_get_function_list(path)
        loaded == {p \in {path} : Library[path].opens}
        mod == [alloc_module_unlocked EXCEPT !.filename = {path}, !.loaded = loaded,
                                             !.funcs = Library[path].funcs]
        opened == [g EXCEPT !.opened = [p \in Paths |-> @[p] + (IF p \in loaded THEN 1 ELSE 0)]]
        id == Unused(DOMAIN g.modules)
    IN  IF rv # OK
        THEN [rv |-> rv, g |-> free_module_unlocked(opened, <<mod>>), mod |-> 0]
        ELSE IF Previous(g, mod.funcs) # {}
        THEN [rv |-> OK, g |-> free_module_unlocked(opened, <<mod>>),
              mod |-> CHOOSE i \in Previous(g, mod.funcs) : TRUE]
        ELSE [rv |-> OK, mod |-> id,
              g |-> [opened EXCEPT !.modules = With(@, id, mod),
                                   !.unmanaged = With(@, mod.funcs, id)]]

\* The lower module of a remote one is its own and in no table.
setup_module_for_remote_inlock(g, remote) ==
    LET id == Unused(DOMAIN g.modules)
    IN  IF remote = "bad" THEN [rv |-> "DEVICE_ERROR", g |-> g, mod |-> 0]
        ELSE [rv |-> OK, mod |-> id,
              g |-> [g EXCEPT !.modules = With(@, id, alloc_module_unlocked)]]

Configure(r, name, config, verbose) ==
    IF r.rv # OK THEN [rv |-> r.rv, g |-> r.g]
    ELSE [rv |-> OK,
          g |-> [r.g EXCEPT !.modules[r.mod] =
                    [@ EXCEPT !.reserved = {[value |-> v, verbose |-> verbose] : v \in config.reserved},
                              !.config = {config}, !.name = {name}, !.critical = config.critical]]]

\* The configuration of the last name that leads to a Module becomes its own.
take_config_and_load_module_inlock(g, name, verbose) ==
    LET config == conf.modules[name]
        r == IF config.remote # "none"
             THEN setup_module_for_remote_inlock(g, config.remote)
             ELSE load_module_from_file_inlock(g, config.module)
    IN  IF config.remote = "none" /\ config.module = "none" THEN [rv |-> OK, g |-> g]
        ELSE Configure(r, name, config, verbose)

Orders(S) == {s \in [1..Cardinality(S) -> S] : \A i, j \in DOMAIN s : s[i] = s[j] => i = j}

\* The configurations come in any order, and a critical one that fails ends it.
Judged(name, r) == [rv |-> IF conf.modules[name].critical THEN r.rv ELSE OK, g |-> r.g]
load_registered_modules_unlocked(g, order, verbose) ==
    IF g.config # {} THEN [rv |-> OK, g |-> g]
    ELSE FoldLeft(LAMBDA r, name : IF r.rv # OK THEN r
                      ELSE Judged(name, take_config_and_load_module_inlock(r.g, name, verbose)),
                  [rv |-> OK, g |-> [g EXCEPT !.config = {conf}]], order)

Freed(g) == Nothing(free_module_unlocked(g, g.modules).opened)
free_modules_when_no_refs_unlocked(g) ==
    IF \E i \in DOMAIN g.modules : g.modules[i].refs # 0 THEN g ELSE Freed(g)
-----------------------------------------------------------------------------
\* Function lists: those of modules are their own, a closure's are made for it.
p11_virtual_is_wrapper(module) == module.wrapper
Raw(funcs) == [wrapper |-> FALSE, at |-> funcs]

Table(g, module) == IF p11_virtual_is_wrapper(module) THEN g.closures ELSE g.unmanaged
module_for_functions_inlock(g, module) ==
    IF module.at \in DOMAIN Table(g, module) THEN {Table(g, module)[module.at]} ELSE {}

unmanaged_for_module_inlock(g, id) ==
    {Raw(f) : f \in {g.modules[id].funcs} \cap {h \in DOMAIN g.unmanaged : g.unmanaged[h] = id}}

\* An option of a module, or of the global configuration where mod is {}
module_get_option_inlock(g, mod, option) ==
    UNION {c[option] : c \in IF mod = {} THEN {k.global : k \in g.config}
                             ELSE UNION {g.modules[i].config : i \in mod}}

lookup_managed_option(g, id, option, default) ==
    LET global == module_get_option_inlock(g, {}, option)
        own == module_get_option_inlock(g, {id}, option)
        string == IF global # {} THEN global ELSE own
    IN  IF string = {} THEN default ELSE "yes" \in string

\* A closure that cannot be had leaves the reference of the managed module behind.
prepare_module_inlock_reentrant(g, id, flags) ==
    LET managed == "unmanaged" \notin flags /\ lookup_managed_option(g, id, "managed", TRUE)
        at == Unused(DOMAIN g.closures)
        fails(rv, h) == [rv |-> rv, g |-> h, module |-> Raw(0)]
    IN  IF "trusted" \in flags /\ "yes" \notin module_get_option_inlock(g, {id}, "trust")
        THEN fails("FUNCTION_NOT_SUPPORTED", g)
        ELSE IF managed /\ Cardinality(DOMAIN g.closures) = MaxClosures
        THEN fails("GENERAL_ERROR", [g EXCEPT !.modules[id].refs = @ + 1])
        ELSE IF managed
        THEN [rv |-> OK, module |-> [wrapper |-> TRUE, at |-> at],
              g |-> [g EXCEPT !.closures = With(@, at, id), !.modules[id].refs = @ + 2]]
        ELSE IF unmanaged_for_module_inlock(g, id) = {}
        THEN fails("FUNCTION_NOT_SUPPORTED", g)
        ELSE [rv |-> OK, module |-> Raw(g.modules[id].funcs),
              g |-> [g EXCEPT !.modules[id].refs = @ + 1]]

release_module_inlock_rentrant(g, module) ==
    LET id == CHOOSE i \in module_for_functions_inlock(g, module) : TRUE
    IN  IF module_for_functions_inlock(g, module) = {} THEN g
        ELSE IF p11_virtual_is_wrapper(module)
        THEN [g EXCEPT !.closures = Without(@, module.at), !.modules[id].refs = @ - 2]
        ELSE [g EXCEPT !.modules[id].refs = @ - 1]

ReleaseAll(g, modules) ==
    LET after[S \in SUBSET modules] ==
            IF S = {} THEN g
            ELSE LET m == CHOOSE m \in S : TRUE
                 IN  release_module_inlock_rentrant(after[S \ {m}], m)
    IN  after[modules]

p11_modules_release_inlock_reentrant(g, modules) ==
    free_modules_when_no_refs_unlocked(ReleaseAll(g, modules))

\* The named modules are prepared one after the other, until one fails for good.
Named(g) == {i \in DOMAIN g.modules : g.modules[i].name # {}}
AddPrepared(all, p) ==
    [rv |-> IF p.rv = "FUNCTION_NOT_SUPPORTED" THEN OK ELSE p.rv, g |-> p.g,
     modules |-> all.modules \cup {m \in {p.module} : p.rv = OK}]
LoadDone(all) ==
    IF all.rv = OK THEN all
    ELSE [all EXCEPT !.g = p11_modules_release_inlock_reentrant(all.g, all.modules)]
LoadNamed(r, flags) ==
    IF r.rv # OK THEN [rv |-> r.rv, g |-> r.g, modules |-> {}]
    ELSE LoadDone(FoldLeft(LAMBDA all, i : IF all.rv # OK \/ i \notin Named(r.g) THEN all
                               ELSE AddPrepared(all, prepare_module_inlock_reentrant(all.g, i, flags)),
                           [rv |-> OK, g |-> r.g, modules |-> {}],
                           [i \in 1..Cardinality(DOMAIN r.g.modules) |-> i]))
p11_modules_load_inlock_reentrant(g, flags, order) ==
    LoadNamed(load_registered_modules_unlocked(g, order, "verbose" \in flags), flags)
-----------------------------------------------------------------------------
Got(c, r, kind, of) ==
    /\ gl' = r.g
    /\ held' = IF r.rv # OK THEN held
               ELSE [held EXCEPT ![c] = {[kind |-> kind, of |-> of, modules |-> r.modules,
                                          on |-> FALSE]}]
    /\ UNCHANGED conf

\* The references of callers: two where the module is managed, and none where
\* p11_kit_load_initialize_module gave it; the count of initializations has one more.
Holders(i, test(_, _)) ==
    {c \in Callers : \E h \in held[c] : \E m \in h.modules :
        test(h, m) /\ i \in module_for_functions_inlock(gl, m)}
TakesRef(h, m) == h.kind # "path"
TakesTwo(h, m) == p11_virtual_is_wrapper(m)
Initialized(h, m) == h.on \/ h.kind \in {"pointer", "path"}
Owed(i) ==
    Cardinality(Holders(i, TakesRef)) + Cardinality(Holders(i, TakesTwo))
        + (IF gl.modules[i].inits > 0 THEN 1 ELSE 0)

\* The Modules that have references nobody gives back
Left == {i \in DOMAIN gl.modules : gl.modules[i].refs > Owed(i)}
MayTake(c) ==
    /\ held[c] = {}
    /\ Cardinality(Left) <= MaxLeft
    /\ \A i \in Left : gl.modules[i].refs <= Owed(i) + MaxLeft

p11_kit_modules_load(c) ==
    /\ MayTake(c)
    /\ \E flags \in Flags, order \in Orders(DOMAIN conf.modules) :
          Got(c, p11_modules_load_inlock_reentrant(gl, flags, order), "list", "none")

Prepared(r, flags) ==
    LET p == prepare_module_inlock_reentrant(r.g, r.mod, flags)
    IN  IF r.rv = OK /\ p.rv = OK THEN [rv |-> OK, g |-> p.g, modules |-> {p.module}]
        ELSE [rv |-> "failed", modules |-> {},
              g |-> free_modules_when_no_refs_unlocked(IF r.rv = OK THEN p.g ELSE r.g)]
p11_kit_module_load(c) ==
    /\ MayTake(c)
    /\ \E flags \in Flags, path \in Paths \cup DOMAIN ModulePath :
          Got(c, Prepared(load_module_from_file_inlock(gl, path), flags), "single", path)

\* p11_module_load_inlock_reentrant, for a function list the caller has already
p11_module_load_inlock_reentrant(g, funcs, flags) ==
    LET id == Unused(DOMAIN g.modules)
        r == IF funcs \in DOMAIN g.unmanaged
             THEN [rv |-> OK, g |-> g, mod |-> g.unmanaged[funcs]]
             ELSE [rv |-> OK, mod |-> id,
                   g |-> [g EXCEPT !.modules = With(@, id, [alloc_module_unlocked EXCEPT
                                                              !.funcs = funcs]),
                                   !.unmanaged = With(@, funcs, id)]]
    IN  Prepared(r, flags)

\* The first C_Initialize of a module may fail; the count has a reference of its own.
initialize_module_inlock_reentrant(g, id, fails) ==
    LET first == g.modules[id].inits = 0
    IN  IF first /\ fails THEN [rv |-> "DEVICE_ERROR", g |-> g]
        ELSE [rv |-> OK,
              g |-> [g EXCEPT !.modules[id] = [@ EXCEPT !.inits = @ + 1,
                                                        !.refs = IF first THEN @ + 1 ELSE @]]]
finalize_module_inlock_reentrant(g, id) ==
    LET h == [g EXCEPT !.modules[id].inits = @ - 1]
    IN  IF g.modules[id].refs = 0 THEN g
        ELSE IF h.modules[id].inits > 0 THEN h
        ELSE free_modules_when_no_refs_unlocked([h EXCEPT !.modules[id].refs = @ - 1])

\* A C_Initialize that fails does not give the reference of the load back.
GotPointer(c, path, i) ==
    Got(c, [rv |-> i.rv, g |-> i.g, modules |-> {Raw(Library[path].funcs)}], "pointer", path)
InitializeLoaded(c, path, fails, r) ==
    GotPointer(c, path, initialize_module_inlock_reentrant(
                            r.g, r.g.unmanaged[Library[path].funcs], fails))
p11_kit_initialize_module(c) ==
    /\ MayTake(c)
    /\ Cardinality(Left) < MaxLeft
    /\ \E path \in {p \in Paths : dlopen_and_get_function_list(p) = OK}, fails \in BOOLEAN :
         InitializeLoaded(c, path, fails, p11_module_load_inlock_reentrant(
                              gl, Library[path].funcs, {"critical", "unmanaged"}))

p11_kit_load_initialize_module(c) ==
    /\ MayTake(c)
    /\ \E path \in Paths \cup DOMAIN ModulePath, fails \in BOOLEAN :
         LET r == load_module_from_file_inlock(gl, path)
             i == initialize_module_inlock_reentrant(r.g, r.mod, fails)
             bad(g) == [rv |-> "failed", modules |-> {},
                        g |-> free_modules_when_no_refs_unlocked(g)]
         IN  Got(c, IF r.rv # OK THEN bad(r.g) ELSE IF i.rv # OK THEN bad(i.g)
                    ELSE [rv |-> OK, g |-> i.g,
                          modules |-> unmanaged_for_module_inlock(i.g, r.mod)],
                 "path", path)

ModuleOf(module) == CHOOSE i \in module_for_functions_inlock(gl, module) : TRUE
p11_kit_finalize_module(c) ==
    \E h \in held[c] : \E module \in h.modules :
        /\ h.kind \in {"pointer", "path"}
        /\ gl' = IF module_for_functions_inlock(gl, module) = {} THEN gl
                 ELSE finalize_module_inlock_reentrant(gl, ModuleOf(module))
        /\ held' = [held EXCEPT ![c] = {}]
        /\ UNCHANGED conf

\* C_Initialize and C_Finalize of a managed module that was loaded singly
p11_kit_module_initialize(c) ==
    \E h \in held[c], fails \in BOOLEAN : \E module \in h.modules :
        LET i == initialize_module_inlock_reentrant(gl, ModuleOf(module), fails)
        IN  /\ h.kind = "single" /\ ~h.on /\ p11_virtual_is_wrapper(module)
            /\ gl' = i.g
            /\ held' = [held EXCEPT ![c] = {[h EXCEPT !.on = (i.rv = OK)]}]
            /\ UNCHANGED conf
p11_kit_module_finalize(c) ==
    \E h \in held[c] : \E module \in h.modules :
        /\ h.kind = "single" /\ h.on
        /\ gl' = finalize_module_inlock_reentrant(gl, ModuleOf(module))
        /\ held' = [held EXCEPT ![c] = {[h EXCEPT !.on = FALSE]}]
        /\ UNCHANGED conf

p11_kit_modules_release(c) ==
    \E h \in held[c] :
        /\ h.kind = "list"
        /\ gl' = p11_modules_release_inlock_reentrant(gl, h.modules)
        /\ held' = [held EXCEPT ![c] = {}]
        /\ UNCHANGED conf

\* This one does not look whether the modules can be freed.
p11_kit_module_release(c) ==
    \E h \in held[c] :
        /\ h.kind = "single" /\ ~h.on
        /\ gl' = ReleaseAll(gl, h.modules)
        /\ held' = [held EXCEPT ![c] = {}]
        /\ UNCHANGED conf

\* p11_kit_override_system_files, or another hand on the files
p11_kit_override_system_files ==
    /\ conf' \in Confs \ {conf}
    /\ UNCHANGED <<gl, held>>

Next ==
    \/ p11_kit_override_system_files
    \/ \E c \in Callers :
        \/ p11_kit_modules_load(c) \/ p11_kit_modules_release(c)
        \/ p11_kit_module_load(c) \/ p11_kit_module_release(c)
        \/ p11_kit_module_initialize(c) \/ p11_kit_module_finalize(c)
        \/ p11_kit_initialize_module(c) \/ p11_kit_load_initialize_module(c)
        \/ p11_kit_finalize_module(c)

Spec == Init /\ [][Next]_vars
-----------------------------------------------------------------------------
\* What can be asked.  An answer is a set of at most one element.
Field(module, field) ==
    UNION {gl.modules[i][field] : i \in module_for_functions_inlock(gl, module)}
p11_kit_module_get_name(module) == Field(module, "name")
p11_kit_module_get_filename(module) == Field(module, "filename")

p11_kit_module_get_flags(module) ==
    LET mod == module_for_functions_inlock(gl, module)
    IN  {f \in {"unmanaged", "critical", "trusted"} :
           CASE f = "unmanaged" -> ~p11_virtual_is_wrapper(module)
             [] f = "critical" -> \A i \in mod : gl.modules[i].critical
             [] f = "trusted" -> mod # {} /\ "yes" \in module_get_option_inlock(gl, mod, "trust")}

p11_kit_module_for_name(modules, name) ==
    {m \in modules : name \in p11_kit_module_get_name(m)}

p11_kit_registered_name_to_module(name) ==
    {Raw(f) : f \in {f \in DOMAIN gl.unmanaged :
        LET mod == gl.modules[gl.unmanaged[f]] IN mod.refs # 0 /\ name \in mod.name}}

p11_kit_config_option(module, option) ==
    LET mod == module_for_functions_inlock(gl, module)
    IN  IF mod = {} THEN {} ELSE module_get_option_inlock(gl, mod, option)

list_registered_modules_inlock ==
    {Raw(f) : f \in {f \in DOMAIN gl.unmanaged :
        LET mod == gl.modules[gl.unmanaged[f]]
        IN  mod.refs # 0 /\ mod.name # {} /\ mod.inits # 0}}
-----------------------------------------------------------------------------
Holdings == UNION {held[c] : c \in Callers}
Leads(path, module) ==
    \A i \in module_for_functions_inlock(gl, module) :
        gl.modules[i].funcs = Library[Absolute(path)].funcs

(* What a caller holds leads to a Module that is referenced, is of the       *)
(* library that the caller asked for, and is still open: no other caller's   *)
(* release, failure or finalize frees it (free_modules_when_no_refs_unlocked *)
(* frees all Modules or none).  Its init_count is the number of callers that *)
(* have it initialized, and its references are at least those of callers and *)
(* of the count.                                                             *)
HeldIsKnown ==
    /\ \A i \in DOMAIN gl.modules :
          /\ gl.modules[i].inits = Cardinality(Holders(i, Initialized))
          /\ gl.modules[i].refs >= Owed(i)
    /\ \A h \in Holdings : \A m \in h.modules :
          /\ module_for_functions_inlock(gl, m) # {}
          /\ h.kind # "list" => Leads(h.of, m)
          /\ \A i \in module_for_functions_inlock(gl, m) :
                \A p \in gl.modules[i].loaded : gl.opened[p] > 0

(* A library has one Module, by whatever paths and configurations it is      *)
(* loaded, and is open once for it: a second load of it is closed again.     *)
OneModulePerLibrary ==
    /\ \A i \in DOMAIN gl.modules :
          LET f == gl.modules[i].funcs
          IN  f # 0 => f \in DOMAIN gl.unmanaged /\ gl.unmanaged[f] = i
    /\ \A p \in Paths :
          gl.opened[p] = Cardinality({i \in DOMAIN gl.modules : p \in gl.modules[i].loaded})

(* Names, flags and options are those of a configuration that was in the     *)
(* files when they were read and that leads to the library; a module of a    *)
(* list has a name, and its name finds it and no other.                      *)
NamesAnswer ==
    \A h \in Holdings : \A m \in h.modules :
        /\ h.kind = "list" =>
              \E n \in p11_kit_module_get_name(m) : p11_kit_module_for_name(h.modules, n) = {m}
        /\ \A n \in p11_kit_module_get_name(m) : \E k \in gl.config :
              LET config == k.modules[n]
                  flags == p11_kit_module_get_flags(m)
              IN  /\ n \in DOMAIN k.modules
                  /\ config.remote = "none" => Leads(config.module, m)
                  /\ ("critical" \in flags) = config.critical
                  /\ ("trusted" \in flags) = ("yes" \in config.trust)
                  /\ p11_kit_config_option(m, "managed") = config.managed
                  /\ p11_kit_registered_name_to_module(n) \subseteq
                        {Raw(gl.modules[i].funcs) : i \in module_for_functions_inlock(gl, m)}
        /\ \A p \in p11_kit_module_get_filename(m) : Leads(p, m)
        /\ m \in list_registered_modules_inlock => p11_kit_module_get_name(m) # {}
=============================================================================
