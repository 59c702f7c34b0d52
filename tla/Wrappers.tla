-------------------------------- MODULE Wrappers --------------------------------
(***************************************************************************)
(* Function lists made from virtual modules (p11-kit/virtual.c), and the   *)
(* function lists that the proxy module and the client module export       *)
(* (p11-kit/proxy.c, p11-kit/client.c).                                    *)
(*                                                                         *)
(* A stack of virtual modules is [layers, major]: each layer, from the     *)
(* top, is the set of functions it implements itself, and major is the     *)
(* version of the module at the bottom.  A function that no layer          *)
(* implements falls through to that module.                                *)
(***************************************************************************)
EXTENDS Integers, Sequences, FiniteSets

CONSTANTS
    Functions2, Functions3,  \* functions of PKCS#11 2.x, and of 3.0 only
    VirtualStacks,           \* the stacks that are wrapped
    ExportStack,             \* the stack of an exported function list
    P11_VIRTUAL_MAX_FIXED,   \* the compiled-in closures
    MaxWraps                 \* bound: wrappers made

VARIABLES
    ffi,              \* whether libffi closures are built in
    vm,               \* [wrappers, fixed_closures, fixed_interfaces, all_instances]:
                      \*   the wrappers, in order of creation: [stack, index,
                      \*   state, through, version]; index -> wrapper, 0 for
                      \*   NULL; index -> the wrapper its interface names;
                      \*   exporter -> the wrappers of its instances
    virtual_interface,\* the wrapper virtual_interfaces[0] names, 0 for NULL
    direct,           \* wrappers of callers of p11_virtual_wrap
    given,            \* the last interface given out: [of, place, list], if any
    aborted           \* what is no wrapper was unwrapped

vars == <<ffi, vm, virtual_interface, direct, given, aborted>>

AllFunctions == Functions2 \cup Functions3

Indices == 0..P11_VIRTUAL_MAX_FIXED - 1

(***************************************************************************)
(* What a call to a virtual module comes to: the first layer that          *)
(* implements the function, or the module at the bottom if it has it.      *)
(***************************************************************************)
Resolve(stack, f) ==
    LET own == {i \in DOMAIN stack.layers : f \in stack.layers[i]}
    IN  IF own # {} THEN <<stack, CHOOSE i \in own : \A j \in own : i <= j>>
        ELSE IF f \in Functions3 /\ stack.major < 3 THEN <<stack, "not supported">>
        ELSE <<stack, "module">>

\* Whether the function of the module can be used as it is.
lookup_fall_through(stack, f) ==
    /\ \A i \in DOMAIN stack.layers : f \notin stack.layers[i]
    /\ f \in Functions3 => stack.major > 3

init_wrapper_funcs_fixed(stack) == {f \in AllFunctions : lookup_fall_through(stack, f)}

init_wrapper_funcs(stack) == {f \in AllFunctions : lookup_fall_through(stack, f)}

create_fixed_wrapper(stack, index, version) ==
    [stack |-> stack, index |-> index, state |-> "bound",
     through |-> init_wrapper_funcs_fixed(stack), version |-> version]

FfiWrapper(stack, version) ==
    [stack |-> stack, index |-> -1, state |-> "bound",
     through |-> init_wrapper_funcs(stack), version |-> version]

FreeIndices(v) == {i \in Indices : v.fixed_closures[i] = 0}

Made(v) == Len(v.wrappers)

\* The first free index ...
p11_virtual_wrap_fixed(v, stack, version) ==
    LET i == CHOOSE i \in FreeIndices(v) : \A j \in FreeIndices(v) : i <= j
    IN  [v EXCEPT !.wrappers = Append(@, create_fixed_wrapper(stack, i, version)),
                  !.fixed_closures[i] = Made(v) + 1,
                  !.fixed_interfaces[i] = Made(v) + 1]

\* ... and without one a wrapper of libffi closures, if libffi gives them;
\* else no wrapper is made.
p11_virtual_wrap(v, stack, version, closures) ==
    IF FreeIndices(v) # {} THEN p11_virtual_wrap_fixed(v, stack, version)
    ELSE IF ffi /\ closures
    THEN [v EXCEPT !.wrappers = Append(@, FfiWrapper(stack, version))]
    ELSE v

Wrap(stack, closures) ==
    /\ ~aborted
    /\ Made(vm) < MaxWraps
    /\ vm' = p11_virtual_wrap(vm, stack, 3, closures)
    /\ direct' = direct \cup (Made(vm) + 1..Made(vm'))
    /\ UNCHANGED <<ffi, virtual_interface, given, aborted>>

(***************************************************************************)
(* p11_virtual_unwrap: the index is given up within the mutex; the virtual *)
(* module is destroyed after it.                                           *)
(***************************************************************************)
p11_virtual_is_wrapper(w) == w # 0 /\ vm.wrappers[w].state # "gone"

\* Mutant: the index is not given up.
UnwrapFixedMutant(closures, ws) == closures

p11_virtual_unwrap_fixed(closures, ws) ==
    [i \in Indices |-> IF closures[i] \in ws THEN 0 ELSE closures[i]]

UnwrapFixed(w) ==
    /\ ~aborted
    /\ w \in direct
    /\ vm.wrappers[w].state = "bound"
    /\ vm' = [vm EXCEPT !.wrappers[w].state = "unbound",
                        !.fixed_closures = p11_virtual_unwrap_fixed(@, {w})]
    /\ UNCHANGED <<ffi, virtual_interface, direct, given, aborted>>

UnwrapDestroy(w) ==
    /\ ~aborted
    /\ vm.wrappers[w].state = "unbound"
    /\ vm' = [vm EXCEPT !.wrappers[w].state = "gone"]
    /\ direct' = direct \ {w}
    /\ given' = {g \in given : g.of # w}
    /\ UNCHANGED <<ffi, virtual_interface, aborted>>

(***************************************************************************)
(* The interfaces of a wrapper.  Wrappers of libffi closures share one     *)
(* static interface; C_GetInterfaceList copies it before it is set.        *)
(***************************************************************************)
IsBound(w) == vm.wrappers[w].state = "bound"

Give(w, place, list) == given' = {[of |-> w, place |-> place, list |-> list]}

FixedInterface(w) ==
    /\ ~aborted /\ IsBound(w) /\ vm.wrappers[w].index >= 0
    /\ Give(w, "own", vm.fixed_interfaces[vm.wrappers[w].index])
    /\ UNCHANGED <<ffi, vm, virtual_interface, direct, aborted>>

binding_C_GetInterface(w) ==
    /\ ~aborted /\ IsBound(w) /\ vm.wrappers[w].index < 0
    /\ virtual_interface' = w
    /\ Give(w, "shared", w)
    /\ UNCHANGED <<ffi, vm, direct, aborted>>

binding_C_GetInterfaceList(w) ==
    /\ ~aborted /\ IsBound(w) /\ vm.wrappers[w].index < 0
    /\ Give(w, "copy", virtual_interface)
    /\ virtual_interface' = w
    /\ UNCHANGED <<ffi, vm, direct, aborted>>

(***************************************************************************)
(* The exported function lists: every call makes an instance of its own,   *)
(* which lives until the library is unloaded.  got tells what the instance *)
(* can get: "nothing" when there are no modules or there is no address,    *)
(* "state" when the client's transport cannot be made, "fixed" and         *)
(* "closures" when all can, the latter with closures of libffi.  Without   *)
(* its wrapper an instance is undone by unwrapping the NULL pointer it     *)
(* still has.                                                              *)
(***************************************************************************)
Exporters == {"proxy", "client"}

\* What making an instance comes to: [v, ok, aborted].
Instance(v, x, version, got) ==
    LET w == p11_virtual_wrap(v, ExportStack, version, got = "closures")
    IN  IF Made(w) = Made(v) THEN [v |-> v, ok |-> FALSE, aborted |-> TRUE]
        ELSE [v |-> [w EXCEPT !.all_instances[x] = <<Made(w)>> \o @], ok |-> TRUE, aborted |-> FALSE]

get_interface_inlock(v, version, got) ==
    IF version \notin {2, 3} \/ got = "nothing" THEN [v |-> v, ok |-> FALSE, aborted |-> FALSE]
    ELSE Instance(v, "proxy", version, got)

client_get_interface_inlock(v, version, got) ==
    IF version \notin {2, 3} \/ got = "nothing" THEN [v |-> v, ok |-> FALSE, aborted |-> FALSE]
    ELSE IF got = "state" THEN [v |-> v, ok |-> FALSE, aborted |-> TRUE]
    ELSE Instance(v, "client", version, got)

\* An address from the environment may name no transport; the one made from
\* the runtime directory always does.
get_server_address(inEnvironment) ==
    IF inEnvironment THEN {"state", "fixed", "closures"} ELSE {"nothing", "fixed", "closures"}

Exports(result) ==
    /\ ~aborted
    /\ Made(result.v) <= MaxWraps
    /\ vm' = result.v
    /\ aborted' = result.aborted
    /\ UNCHANGED <<ffi, virtual_interface, direct, given>>

C_GetFunctionList(got) == Exports(get_interface_inlock(vm, 2, got))

C_GetInterface(version, got) == Exports(get_interface_inlock(vm, version, got))

\* The interface of version 3, then that of version 2; the first stays when
\* the second cannot be made.
C_GetInterfaceList(got, then) ==
    LET three == get_interface_inlock(vm, 3, got)
    IN  Exports(IF three.ok THEN get_interface_inlock(three.v, 2, then) ELSE three)

client_C_GetFunctionList(got) == Exports(client_get_interface_inlock(vm, 2, got))

client_C_GetInterface(version, got) == Exports(client_get_interface_inlock(vm, version, got))

client_C_GetInterfaceList(got, then) ==
    LET three == client_get_interface_inlock(vm, 3, got)
    IN  Exports(IF three.ok THEN client_get_interface_inlock(three.v, 2, then) ELSE three)

CleanUp(x) ==
    LET mine == {vm.all_instances[x][i] : i \in DOMAIN vm.all_instances[x]}
    IN  /\ ~aborted
        /\ vm' = [vm EXCEPT
               !.wrappers = [w \in DOMAIN @ |-> [@[w] EXCEPT !.state = IF w \in mine THEN "gone" ELSE @]],
               !.fixed_closures = p11_virtual_unwrap_fixed(@, mine),
               !.all_instances[x] = <<>>]
        /\ given' = {g \in given : g.of \notin mine}
        /\ UNCHANGED <<ffi, virtual_interface, direct, aborted>>

p11_proxy_module_cleanup == CleanUp("proxy")

p11_client_module_cleanup == CleanUp("client")

IsExported(x, w) == \E i \in DOMAIN vm.all_instances[x] : vm.all_instances[x][i] = w

p11_proxy_module_check(w) == p11_virtual_is_wrapper(w) /\ IsExported("proxy", w)

Init ==
    /\ ffi \in BOOLEAN
    /\ vm = [wrappers |-> <<>>,
             fixed_closures |-> [i \in Indices |-> 0],
             fixed_interfaces |-> [i \in Indices |-> 0],
             all_instances |-> [x \in Exporters |-> <<>>]]
    /\ virtual_interface = 0
    /\ direct = {}
    /\ given = {}
    /\ aborted = FALSE

Next ==
    \/ \E stack \in VirtualStacks, closures \in BOOLEAN : Wrap(stack, closures)
    \/ \E w \in DOMAIN vm.wrappers :
           \/ UnwrapFixed(w) \/ UnwrapDestroy(w)
           \/ FixedInterface(w) \/ binding_C_GetInterface(w) \/ binding_C_GetInterfaceList(w)
    \/ p11_proxy_module_cleanup
    \/ p11_client_module_cleanup
    \/ \E got \in {"nothing", "fixed", "closures"} :
           \/ C_GetFunctionList(got)
           \/ \E version \in {1, 2, 3} : C_GetInterface(version, got)
           \/ \E then \in {"nothing", "fixed", "closures"} : C_GetInterfaceList(got, then)
    \/ \E inEnvironment \in BOOLEAN : \E got \in get_server_address(inEnvironment) :
           \/ client_C_GetFunctionList(got)
           \/ \E version \in {1, 2, 3} : client_C_GetInterface(version, got)
           \/ \E then \in get_server_address(inEnvironment) : client_C_GetInterfaceList(got, then)

Spec == Init /\ [][Next]_vars

\* Where a call of function f through a wrapper goes: straight to the module,
\* or by the closure of its index to whatever wrapper is there now.
Reached(w, f) ==
    LET own == vm.wrappers[w]
        at == IF own.index < 0 THEN w ELSE vm.fixed_closures[own.index]
    IN  IF f \in own.through THEN <<own.stack, "module">>
        ELSE IF at = 0 THEN <<own.stack, "lost">>
        ELSE Resolve(vm.wrappers[at].stack, f)

\* A function list calls the layers of its own virtual module, or the module
\* at the bottom where it has the function, through all reuse of the fixed
\* closures; the interfaces of a fixed wrapper name that wrapper; and a wrapper
\* that is bound belongs to a caller or to an exported instance, so that
\* nothing is left bound when these are gone.
WrapperReachesOwn ==
    /\ \A w \in DOMAIN vm.wrappers : IsBound(w) =>
           /\ \A f \in AllFunctions : Reached(w, f) = Resolve(vm.wrappers[w].stack, f)
           /\ w \in direct \/ \E x \in Exporters : IsExported(x, w)
           /\ p11_proxy_module_check(w) => w \notin direct
    /\ \A i \in Indices : vm.fixed_closures[i] # 0 => IsBound(vm.fixed_closures[i])
    /\ \A g \in given : g.place = "own" /\ IsBound(g.of) => g.list = g.of

\* "assert_ptr_eq (module, list[0].pFunctionList)": the interface a wrapper
\* gives names the wrapper.
InterfacesAreOwn == \A g \in given : g.list = g.of

\* "return_if_fail (p11_virtual_is_wrapper (module))": only wrappers are
\* unwrapped.
UnwrapsWrappers == ~aborted
================================================================================
