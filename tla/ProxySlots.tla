----------------------------- MODULE ProxySlots -----------------------------
(***************************************************************************)
(* The slots of the proxy module, p11-kit/proxy.c: every slot of every      *)
(* module gets a slot id of the proxy, through hot-plugging, failures of    *)
(* modules, and fork.  Everything here happens under p11_lock() or in       *)
(* C_Initialize, and is a step of its own.                                  *)
(***************************************************************************)
EXTENDS Integers, Sequences, FiniteSets, SequencesExt, Folds

CONSTANTS
    Modules,     \* State.loaded, in order: a sequence of modules
    RealSlots,   \* the slot ids of the modules, a set of numbers
    Worlds,      \* sets of what may happen: "plug", "token", "fork", "fail"
    MaxId,       \* bound on last_id
    MaxFork      \* bound on the number of forks

VARIABLES
    px,         \* State.px: "none", "valid", or "forked"
    inited,     \* Proxy.inited
    mappings,   \* Proxy.mappings
    last_id,    \* Proxy.last_id
    forks,      \* the number of forks so far
    plugged,    \* per module: its slots
    events,     \* per module: slots with an event to report
    given,      \* the mappings the application may know of
    unreported, \* events that a module has reported and the proxy has not
    may         \* what may happen in this behaviour: slots come and go,
                \* tokens are inserted and removed, the process forks,
                \* a module fails to initialize

vars == <<px, inited, mappings, last_id, forks, plugged, events, given,
          unreported, may>>

ModuleSet == Range(Modules)
Mapping == [funcs : ModuleSet, real_slot : RealSlots, wrap_slot : Nat]
Slot == [funcs : ModuleSet, real_slot : RealSlots]

TypeOK ==
    /\ px \in {"none", "valid", "forked"}
    /\ Range(inited) \subseteq ModuleSet
    /\ Range(mappings) \subseteq Mapping
    /\ last_id \in Nat /\ forks \in 0 .. MaxFork
    /\ plugged \in [ModuleSet -> SUBSET RealSlots]
    /\ events \in [ModuleSet -> SUBSET RealSlots]
    /\ given \subseteq Mapping
    /\ unreported \subseteq Slot

Init ==
    /\ px = "none"
    /\ inited = <<>> /\ mappings = <<>> /\ last_id = 0
    /\ forks = 0
    /\ plugged \in [ModuleSet -> SUBSET RealSlots]
    /\ events = [m \in ModuleSet |-> {}]
    /\ given = {} /\ unreported = {}
    /\ may \in Worlds
-----------------------------------------------------------------------------
\* The mapping of a real slot in a sequence of mappings: none, or the first.
FindMapping(maps, m, slot) ==
    SelectSeq(maps, LAMBDA x : x.funcs = m /\ x.real_slot = slot)

\* The id of the i-th new slot; MAPPING_OFFSET is left out.
NewIdBelow(py, i) == py.last_id - i
NewIdConstant(py, i) == py.last_id + 1
NewIdMutant(py, i) == Len(py.mappings) + i
NewId(py, i) == py.last_id + i

\* proxy_list_slots, for one module: the slots it had before keep their ids,
\* and come first.
ListModuleMutant(py, m, old) ==
    LET slots == SetToSortSeq(plugged[m], <)
        known == SelectSeq(slots, LAMBDA s : FindMapping(old, m, s) # <<>>)
        reused(i) == FindMapping(old, m, known[i])[1]
    IN [mappings |-> py.mappings \o
            (IF old = <<>> THEN [i \in 1 .. Len(slots) |->
                [funcs |-> m, real_slot |-> slots[i], wrap_slot |-> NewId(py, i)]]
             ELSE [i \in 1 .. Len(known) |-> reused(i)]),
        last_id |-> py.last_id + Len(slots)]
ListModule(py, m, old) ==
    LET slots == SetToSortSeq(plugged[m], <)
        known == SelectSeq(slots, LAMBDA s : FindMapping(old, m, s) # <<>>)
        fresh == SelectSeq(slots, LAMBDA s : FindMapping(old, m, s) = <<>>)
        reused(i) == FindMapping(old, m, known[i])[1]
        new(i) == [funcs |-> m, real_slot |-> fresh[i], wrap_slot |-> NewId(py, i)]
    IN [mappings |-> py.mappings \o [i \in 1 .. Len(known) |-> reused(i)]
                                 \o [i \in 1 .. Len(fresh) |-> new(i)],
        last_id |-> py.last_id + Len(fresh)]

\* proxy_list_slots over some modules, from the mappings there were
ListSlots(modules, old, id) ==
    FoldLeft(LAMBDA py, m : ListModule(py, m, old),
             [mappings |-> <<>>, last_id |-> id], modules)

\* C_Initialize when the proxy is not valid.  Modules that fail to initialize
\* are dropped; after a fork the mappings of the parent are reused.
Initialize ==
    /\ px # "valid"
    /\ \E failed \in SUBSET (IF "fail" \in may THEN ModuleSet ELSE {}) :
          inited' = SelectSeq(Modules, LAMBDA m : m \notin failed)
    /\ LET old == IF px = "forked" THEN mappings ELSE <<>>
           py == ListSlots(inited', old, 0)
       IN /\ py.last_id <= MaxId
          /\ mappings' = py.mappings
          /\ last_id' = py.last_id
          /\ given' = IF px = "forked" THEN given \cup Range(mappings')
                      ELSE Range(mappings')
    /\ px' = "valid"
    /\ UNCHANGED <<forks, plugged, events, unreported>>

\* C_Initialize when a module fails to list its slots: all is undone
InitializeFails ==
    /\ px # "valid"
    /\ px' = "none"
    /\ inited' = <<>> /\ mappings' = <<>> /\ last_id' = 0 /\ given' = {}
    /\ UNCHANGED <<forks, plugged, events, unreported>>

\* C_Finalize of the last reference, or after a fork
Finalize ==
    /\ px # "none"
    /\ px' = "none"
    /\ inited' = <<>> /\ mappings' = <<>> /\ last_id' = 0 /\ given' = {}
    /\ UNCHANGED <<forks, plugged, events, unreported>>

\* fork, seen from the child: p11_forkid has changed
Fork ==
    /\ px = "valid" /\ "fork" \in may /\ forks < MaxFork
    /\ px' = "forked"
    /\ forks' = forks + 1
    /\ UNCHANGED <<inited, mappings, last_id, plugged, events, given, unreported>>

\* C_GetSlotList: the slots are listed again ...
GetSlotList ==
    /\ px = "valid"
    /\ LET py == ListSlots(inited, mappings, last_id)
       IN /\ py.last_id <= MaxId
          /\ mappings' = py.mappings
          /\ last_id' = py.last_id
          /\ given' = given \cup Range(py.mappings)
    /\ UNCHANGED <<px, inited, forks, plugged, events, unreported>>

\* ... but when a module fails, the mappings there were are put back; the ids
\* that were given out on the way are not used again.
GetSlotListFails ==
    /\ px = "valid"
    /\ \E n \in 0 .. Len(inited) - 1 :
          last_id' = ListSlots(SubSeq(inited, 1, n), mappings, last_id).last_id
    /\ last_id' <= MaxId
    /\ UNCHANGED <<px, inited, mappings, forks, plugged, events, given, unreported>>

\* One module of C_WaitForSlotEvent: w.rv is what the last module said, w.slot
\* the proxy's slot if the event's slot has a mapping.
WaitModule(w, m, slot) ==
    IF slot = {} THEN [w EXCEPT !.rv = "CKR_NO_EVENT"]
    ELSE LET s == CHOOSE x \in slot : TRUE
             found == FindMapping(mappings, m, s)
         IN [rv |-> "CKR_OK",
             slot |-> IF found = <<>> THEN w.slot ELSE <<found[1].wrap_slot>>]

\* C_WaitForSlotEvent with CKF_DONT_BLOCK: every module is asked, and each one
\* that has an event reports one.
EventOf(m) == IF events[m] = {} THEN {} ELSE {CHOOSE s \in events[m] : TRUE}
WaitForSlotEvent ==
    /\ px = "valid"
    /\ LET asked == Range(inited)
           w == FoldLeft(LAMBDA x, m : WaitModule(x, m, EventOf(m)),
                         [rv |-> "CKR_NO_EVENT", slot |-> <<>>], inited)
           told(x) == /\ w.rv = "CKR_OK" /\ w.slot # <<>>
                      /\ \E y \in Range(mappings) :
                            /\ y.wrap_slot = w.slot[1]
                            /\ y.funcs = x.funcs /\ y.real_slot = x.real_slot
       IN /\ events' = [m \in ModuleSet |->
                          IF m \in asked THEN events[m] \ EventOf(m) ELSE events[m]]
          /\ unreported' = {x \in Slot : /\ x.funcs \in asked
                                         /\ x.real_slot \in EventOf(x.funcs)
                                         /\ ~told(x)}
    /\ UNCHANGED <<px, inited, mappings, last_id, forks, plugged, given>>
-----------------------------------------------------------------------------
\* Slots come and go, and tokens are inserted and removed.
Plug(m, s) ==
    /\ "plug" \in may
    /\ plugged' = [plugged EXCEPT ![m] = IF s \in @ THEN @ \ {s} ELSE @ \cup {s}]
    /\ UNCHANGED <<px, inited, mappings, last_id, forks, events, given, unreported>>

TokenEvent(m, s) ==
    /\ "token" \in may /\ px = "valid"
    /\ s \in plugged[m] /\ s \notin events[m]
    /\ events' = [events EXCEPT ![m] = @ \cup {s}]
    /\ UNCHANGED <<px, inited, mappings, last_id, forks, plugged, given, unreported>>

Next ==
    /\ \/ Initialize \/ InitializeFails \/ Finalize \/ Fork
       \/ GetSlotList \/ GetSlotListFails \/ WaitForSlotEvent
       \/ \E m \in ModuleSet, s \in RealSlots : Plug(m, s) \/ TokenEvent(m, s)
    /\ UNCHANGED may

Spec == Init /\ [][Next]_vars
-----------------------------------------------------------------------------
(* No two slots of the modules have the same slot id in the proxy.           *)
SlotIdsUnique ==
    \A i, j \in DOMAIN mappings :
        mappings[i].wrap_slot = mappings[j].wrap_slot => i = j

(* A slot id, once the application knows it, never comes to mean another     *)
(* slot until C_Finalize, though slots go and come back, modules fail to     *)
(* list their slots, and the process forks.                                  *)
SlotIdsStable ==
    \A x, y \in given : x.wrap_slot = y.wrap_slot =>
        x.funcs = y.funcs /\ x.real_slot = y.real_slot

\* The steps that SlotsReported is about.
ListsAll ==
    GetSlotList => \A m \in Range(inited), s \in RealSlots :
        Len(FindMapping(mappings', m, s)) = IF s \in plugged[m] THEN 1 ELSE 0
ReportsTaken == WaitForSlotEvent /\ Len(inited) = 1 => unreported' = {}

=============================================================================
