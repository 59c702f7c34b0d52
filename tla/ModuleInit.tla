----------------------------- MODULE ModuleInit -----------------------------
(***************************************************************************)
(* The life cycle of loaded PKCS#11 modules, p11-kit/modules.c: loading a   *)
(* module for a caller (a managed closure), C_Initialize and C_Finalize     *)
(* through that closure, releasing the closure, freeing the modules when    *)
(* nobody refers to them, and fork().                                       *)
(*                                                                         *)
(* Every caller is a thread with at most one closure per module.  A thread  *)
(* takes the global p11_lock() and the module's initialize_mutex in the     *)
(* order of the code; a section under p11_lock() is one step, except where  *)
(* init_count is read and written back, because C_Initialize's owner resets *)
(* init_count holding only initialize_mutex.                                *)
(***************************************************************************)
EXTENDS Integers, FiniteSets, TLC

CONSTANTS
    Threads,    \* the threads of the process, each one caller of p11-kit
    Modules,    \* the PKCS#11 modules
    NoThread,   \* no owner
    External,   \* modules somebody outside p11-kit has initialized already
    Reentrant,  \* modules whose C_Initialize calls back into p11-kit
    Overlap,    \* may a caller initialize while another one is finalizing?
    MaxFork,    \* bound on the number of fork() calls
    MaxCount    \* bound on how far ref_count and init_count may drift

ASSUME ThreadsAssumption == IsFiniteSet(Threads) /\ NoThread \notin Threads
ASSUME ModulesAssumption == IsFiniteSet(Modules) /\ Modules # {}
ASSUME KindsAssumption == External \subseteq Modules /\ Reentrant \subseteq Modules
ASSUME BoundsAssumption == Overlap \in BOOLEAN /\ MaxFork \in Nat /\ MaxCount \in Nat

VARIABLES
    present,            \* gl.modules: the Module structures that exist
    ref_count,          \* Module.ref_count
    init_count,         \* Module.init_count
    initialize_called,  \* Module.initialize_called: a fork id, or 0
    initialize_thread,  \* Module.initialize_thread
    initialize_mutex,   \* owner of Module.initialize_mutex
    lower,              \* the PKCS#11 module itself: down, up by us or by others
    lock,               \* owner of p11_lock(), when held across two steps
    forkid,             \* p11_forkid of this process
    alive,              \* the threads of this process
    loaded,             \* the modules a caller holds a closure for
    initialized,        \* Managed.initialized of each closure
    pc, on, rv, seen    \* per thread: step, module, result, init_count read

modvars == <<present, ref_count, init_count, initialize_called,
             initialize_thread, initialize_mutex, lower>>
vars == <<modvars, lock, forkid, alive, loaded, initialized, pc, on, rv, seen>>

LowerStates == {"down", "ours", "theirs"}
InitPCs == {"init.mutex", "calling", "init.lock", "init.count"}
FinPCs == {"fin.mutex", "finalizing", "fin.lock"}
PCs == {"idle", "fin.count"} \cup InitPCs \cup FinPCs

TypeOK ==
    /\ present \subseteq Modules
    /\ ref_count \in [Modules -> Int]
    /\ init_count \in [Modules -> Int]
    /\ initialize_called \in [Modules -> 0 .. MaxFork + 1]
    /\ initialize_thread \in [Modules -> Threads \cup {NoThread}]
    /\ initialize_mutex \in [Modules -> Threads \cup {NoThread}]
    /\ lower \in [Modules -> LowerStates]
    /\ lock \in Threads \cup {NoThread}
    /\ forkid \in 1 .. MaxFork + 1
    /\ alive \subseteq Threads
    /\ loaded \in [Threads -> SUBSET Modules]
    /\ initialized \in [Threads -> [Modules -> 0 .. MaxFork + 1]]
    /\ pc \in [Threads -> PCs]
    /\ on \in [Threads -> Modules]
    /\ rv \in [Threads -> {"ok", "failed"}]
    /\ seen \in [Threads -> Int]

Init ==
    /\ present = {}
    /\ ref_count = [m \in Modules |-> 0]
    /\ init_count = [m \in Modules |-> 0]
    /\ initialize_called = [m \in Modules |-> 0]
    /\ initialize_thread = [m \in Modules |-> NoThread]
    /\ initialize_mutex = [m \in Modules |-> NoThread]
    /\ lower = [m \in Modules |-> IF m \in External THEN "theirs" ELSE "down"]
    /\ lock = NoThread
    /\ forkid = 1
    /\ alive = Threads
    /\ loaded = [t \in Threads |-> {}]
    /\ initialized = [t \in Threads |-> [m \in Modules |-> 0]]
    /\ pc = [t \in Threads |-> "idle"]
    /\ on = [t \in Threads |-> CHOOSE m \in Modules : TRUE]
    /\ rv = [t \in Threads |-> "ok"]
    /\ seen = [t \in Threads |-> 0]

Initializing(t, m) == on[t] = m /\ pc[t] \in InitPCs
Finalizing(t, m) == on[t] = m /\ pc[t] \in FinPCs \cup {"fin.count"}

(* A Module structure is not freed under a closure or under a thread that    *)
(* has dropped p11_lock() inside initialize_module_inlock_reentrant or       *)
(* finalize_module_inlock_reentrant.                                         *)
NoUseAfterFree ==
    \A t \in alive, m \in Modules :
        (m \in loaded[t] \/ Initializing(t, m) \/ Finalizing(t, m))
            => m \in present

\* What follows the use of a freed Module is undefined and not described.
Running(t, from) == NoUseAfterFree /\ t \in alive /\ pc[t] = from
Goto(t, to) == pc' = [pc EXCEPT ![t] = to]
LockFree == lock = NoThread
ForgetLocals(t) == rv' = [rv EXCEPT ![t] = "ok"] /\ seen' = [seen EXCEPT ![t] = 0]

\* The operators named ...Mutant are the mistakes the runs are shown to notice;
\* the specification does not use them.
\* p11_mutex_lock (&mod->initialize_mutex) can proceed.
MutexFreeMutant(m) == TRUE
MutexFree(m) == initialize_mutex[m] = NoThread

\* The temporary reference of a thread inside initialize_module_inlock_reentrant.
TakeRefMutant(m) == ref_count
TakeRef(m) == [ref_count EXCEPT ![m] = @ + 1]
DropRef(m) == [ref_count EXCEPT ![m] = @ - 1]

\* C_Initialize has not been called yet by this process.
CallNeededMutant(m) == TRUE
CallNeeded(m) == initialize_called[m] # forkid

\* init_count as read says that the finalizing caller is the last one.
IsLastMutant(t) == TRUE
IsLast(t) == seen[t] - 1 <= 0

\* The reference that goes with the first successful initialization.
FirstRefMutant(t, m) == ref_count
FirstRef(t, m) ==
    IF rv[t] = "ok" /\ init_count[m] = 0 THEN TakeRef(m) ELSE ref_count

\* count_forks, in the child.
NextForkIdMutant == forkid + 2
NextForkId == forkid + 1

\* Callers that keep their C_Initialize and C_Finalize calls apart.
MayInitialize(m) ==
    /\ Overlap \/ \A u \in Threads : ~Finalizing(u, m)
    /\ {ref_count[m], init_count[m]} \subseteq -MaxCount .. MaxCount
MayFinalize(m) == Overlap \/ \A u \in Threads : ~Initializing(u, m)

(***************************************************************************)
(* free_modules_when_no_refs_unlocked: frees every Module once none of them *)
(* is referenced, and unloads the PKCS#11 modules.  refs is ref_count as    *)
(* the caller leaves it.                                                    *)
(***************************************************************************)
FreeModulesWhenNoRefs(refs) ==
    IF \A m \in present : refs[m] = 0
    THEN /\ present' = {}
         /\ ref_count' = [m \in Modules |-> 0]
         /\ init_count' = [m \in Modules |-> 0]
         /\ initialize_called' = [m \in Modules |-> 0]
         /\ initialize_thread' = [m \in Modules |-> NoThread]
         /\ lower' = [m \in Modules |-> IF lower[m] = "ours" THEN "down"
                                                             ELSE lower[m]]
    ELSE /\ ref_count' = refs
         /\ UNCHANGED <<present, init_count, initialize_called,
                        initialize_thread, lower>>

(***************************************************************************)
(* p11_kit_module_load in managed mode: managed_create_inlock and           *)
(* prepare_module_inlock_reentrant take one reference each.                 *)
(***************************************************************************)
Load(t, m) ==
    /\ Running(t, "idle") /\ LockFree
    /\ m \notin loaded[t]
    /\ present' = present \cup {m}
    /\ ref_count' = [ref_count EXCEPT ![m] = @ + 2]
    /\ loaded' = [loaded EXCEPT ![t] = @ \cup {m}]
    /\ UNCHANGED <<init_count, initialize_called, initialize_thread,
                   initialize_mutex, lower, lock, forkid, alive, initialized,
                   pc, on, rv, seen>>

(***************************************************************************)
(* release_module_inlock_rentrant: p11_virtual_unwrap drops the closure's   *)
(* reference (managed_free_inlock) and the function drops the one of        *)
(* prepare_module_inlock_reentrant.  p11_kit_modules_release goes on to     *)
(* free unreferenced modules, p11_kit_module_release does not.  The caller  *)
(* has finalized the closure, as p11_kit_modules_release asks.              *)
(***************************************************************************)
Release(t, m) ==
    /\ Running(t, "idle") /\ LockFree
    /\ m \in loaded[t] /\ initialized[t][m] # forkid
    /\ loaded' = [loaded EXCEPT ![t] = @ \ {m}]
    /\ initialized' = [initialized EXCEPT ![t][m] = 0]
    /\ LET refs == [ref_count EXCEPT ![m] = @ - 2]
       IN  \/ FreeModulesWhenNoRefs(refs)
           \/ /\ ref_count' = refs
              /\ UNCHANGED <<present, init_count, initialize_called,
                             initialize_thread, lower>>
    /\ UNCHANGED <<initialize_mutex, lock, forkid, alive, pc, on, rv, seen>>
-----------------------------------------------------------------------------
(***************************************************************************)
(* managed_C_Initialize and initialize_module_inlock_reentrant.             *)
(***************************************************************************)
InitializeEnter(t, m) ==
    /\ Running(t, "idle") /\ LockFree
    /\ m \in loaded[t] /\ initialized[t][m] # forkid
    /\ MayInitialize(m)
    /\ initialize_thread[m] # t
    /\ ref_count' = TakeRef(m)
    /\ initialize_thread' = [initialize_thread EXCEPT ![m] = t]
    /\ on' = [on EXCEPT ![t] = m]
    /\ Goto(t, "init.mutex")
    /\ UNCHANGED <<present, init_count, initialize_called, initialize_mutex,
                   lower, lock, forkid, alive, loaded, initialized, rv, seen>>

\* Under the module's mutex: call C_Initialize unless this process has.
InitializeMutex(t) ==
    LET m == on[t] IN
    /\ Running(t, "init.mutex") /\ MutexFree(m)
    /\ IF CallNeeded(m)
       THEN /\ initialize_mutex' = [initialize_mutex EXCEPT ![m] = t]
            /\ Goto(t, "calling")
            /\ UNCHANGED rv
       ELSE /\ Goto(t, "init.lock")
            /\ rv' = [rv EXCEPT ![t] = "ok"]
            /\ UNCHANGED initialize_mutex
    /\ UNCHANGED <<present, ref_count, init_count, initialize_called,
                   initialize_thread, lower, lock, forkid, alive, loaded,
                   initialized, on, seen>>

\* The module's C_Initialize calls back into p11-kit for the same module: the
\* recursion is refused, or else the thread goes on to lock the mutex it holds.
InitializeRecursive(t) ==
    LET m == on[t] IN
    /\ Running(t, "calling") /\ LockFree
    /\ m \in Reentrant /\ initialized[t][m] # forkid
    /\ initialize_thread[m] # t
    /\ ref_count' = TakeRef(m)
    /\ initialize_thread' = [initialize_thread EXCEPT ![m] = t]
    /\ Goto(t, "init.mutex")
    /\ UNCHANGED <<present, init_count, initialize_called, initialize_mutex,
                   lower, lock, forkid, alive, loaded, initialized, on, rv,
                   seen>>

\* C_Initialize returns; CKR_CRYPTOKI_ALREADY_INITIALIZED counts as success but
\* leaves initialize_called at 0, so that p11-kit will not call C_Finalize.
InitializeReturn(t) ==
    LET m == on[t] IN
    /\ Running(t, "calling")
    /\ \/ /\ lower[m] = "down"
          /\ lower' = [lower EXCEPT ![m] = "ours"]
          /\ initialize_called' = [initialize_called EXCEPT ![m] = forkid]
          /\ init_count' = [init_count EXCEPT ![m] = 0]
          /\ rv' = [rv EXCEPT ![t] = "ok"]
       \/ /\ lower[m] # "down"
          /\ initialize_called' = [initialize_called EXCEPT ![m] = 0]
          /\ init_count' = [init_count EXCEPT ![m] = 0]
          /\ rv' = [rv EXCEPT ![t] = "ok"]
          /\ UNCHANGED lower
       \/ /\ lower[m] = "down"
          /\ initialize_called' = [initialize_called EXCEPT ![m] = 0]
          /\ rv' = [rv EXCEPT ![t] = "failed"]
          /\ UNCHANGED <<lower, init_count>>
    /\ initialize_mutex' = [initialize_mutex EXCEPT ![m] = NoThread]
    /\ Goto(t, "init.lock")
    /\ UNCHANGED <<present, ref_count, initialize_thread, lock, forkid, alive,
                   loaded, initialized, on, seen>>

\* Back under p11_lock(): init_count is read, and the reference that goes with
\* the first initialization is taken ...
InitializeLock(t) ==
    LET m == on[t] IN
    /\ Running(t, "init.lock") /\ LockFree
    /\ lock' = t
    /\ seen' = [seen EXCEPT ![t] = init_count[m]]
    /\ ref_count' = FirstRef(t, m)
    /\ Goto(t, "init.count")
    /\ UNCHANGED <<present, init_count, initialize_called, initialize_thread,
                   initialize_mutex, lower, forkid, alive, loaded, initialized,
                   on, rv>>

\* A caller that starts over instead of returning.
InitializeCountMutant(t) ==
    /\ Running(t, "init.count")
    /\ lock' = NoThread
    /\ Goto(t, "init.mutex")
    /\ UNCHANGED <<modvars, forkid, alive, loaded, initialized, on, rv, seen>>

\* ... and written back incremented; the temporary reference is dropped and the
\* closure is marked as initialized in this process.
InitializeCount(t) ==
    LET m == on[t] IN
    /\ Running(t, "init.count")
    /\ init_count' = IF rv[t] = "ok"
                     THEN [init_count EXCEPT ![m] = seen[t] + 1] ELSE init_count
    /\ initialized' = IF rv[t] = "ok"
                      THEN [initialized EXCEPT ![t][m] = forkid] ELSE initialized
    /\ ref_count' = DropRef(m)
    /\ initialize_thread' = [initialize_thread EXCEPT ![m] = NoThread]
    /\ lock' = NoThread
    /\ ForgetLocals(t)
    /\ Goto(t, "idle")
    /\ UNCHANGED <<present, initialize_called, initialize_mutex, lower, forkid,
                   alive, loaded, on>>
-----------------------------------------------------------------------------
(***************************************************************************)
(* managed_C_Finalize and finalize_module_inlock_reentrant.  The closure    *)
(* belongs to one thread here, so the window in which its sessions are      *)
(* closed without the lock changes nothing others can see.                  *)
(***************************************************************************)
\* ref_count = 0 is a zombie Module: CKR_ARGUMENTS_BAD, nothing changes.
FinalizeEnter(t, m) ==
    /\ Running(t, "idle") /\ LockFree
    /\ m \in loaded[t] /\ initialized[t][m] = forkid
    /\ MayFinalize(m)
    /\ ref_count[m] # 0
    /\ lock' = t
    /\ seen' = [seen EXCEPT ![t] = init_count[m]]
    /\ on' = [on EXCEPT ![t] = m]
    /\ Goto(t, "fin.count")
    /\ UNCHANGED <<modvars, forkid, alive, loaded, initialized, rv>>

FinalizeCount(t) ==
    LET m == on[t] IN
    /\ Running(t, "fin.count")
    /\ init_count' = [init_count EXCEPT ![m] = seen[t] - 1]
    /\ lock' = NoThread
    /\ IF IsLast(t)
       THEN /\ Goto(t, "fin.mutex")
            /\ UNCHANGED initialized
       ELSE /\ initialized' = [initialized EXCEPT ![t][m] = 0]
            /\ Goto(t, "idle")
    /\ ForgetLocals(t)
    /\ UNCHANGED <<present, ref_count, initialize_called, initialize_thread,
                   initialize_mutex, lower, forkid, alive, loaded, on>>

FinalizeMutex(t) ==
    LET m == on[t] IN
    /\ Running(t, "fin.mutex") /\ MutexFree(m)
    /\ IF initialize_called[m] = forkid
       THEN /\ initialize_mutex' = [initialize_mutex EXCEPT ![m] = t]
            /\ Goto(t, "finalizing")
       ELSE /\ Goto(t, "fin.lock")
            /\ UNCHANGED initialize_mutex
    /\ UNCHANGED <<present, ref_count, init_count, initialize_called,
                   initialize_thread, lower, lock, forkid, alive, loaded,
                   initialized, on, rv, seen>>

\* C_Finalize returns; its result is ignored.
FinalizeReturn(t) ==
    LET m == on[t] IN
    /\ Running(t, "finalizing")
    /\ lower' = [lower EXCEPT ![m] = "down"]
    /\ initialize_called' = [initialize_called EXCEPT ![m] = 0]
    /\ initialize_mutex' = [initialize_mutex EXCEPT ![m] = NoThread]
    /\ Goto(t, "fin.lock")
    /\ UNCHANGED <<present, ref_count, init_count, initialize_thread, lock,
                   forkid, alive, loaded, initialized, on, rv, seen>>

FinalizeLock(t) ==
    LET m == on[t] IN
    /\ Running(t, "fin.lock") /\ LockFree
    /\ FreeModulesWhenNoRefs(DropRef(m))
    /\ initialized' = [initialized EXCEPT ![t][m] = 0]
    /\ Goto(t, "idle")
    /\ UNCHANGED <<initialize_mutex, lock, forkid, alive, loaded, on, rv, seen>>

\* A closure initialized before a fork: only the closure is cleaned up.
FinalizeWrongProcess(t, m) ==
    /\ Running(t, "idle") /\ LockFree
    /\ m \in loaded[t] /\ initialized[t][m] \notin {0, forkid}
    /\ initialized' = [initialized EXCEPT ![t][m] = 0]
    /\ UNCHANGED <<modvars, lock, forkid, alive, loaded, pc, on, rv, seen>>
-----------------------------------------------------------------------------
(***************************************************************************)
(* fork(): this specification follows the child, where only the forking     *)
(* thread exists, count_forks has advanced p11_forkid, and the PKCS#11      *)
(* modules need a C_Initialize of their own.  No other thread is inside     *)
(* p11-kit when it happens.                                                 *)
(***************************************************************************)
Fork(t) ==
    /\ Running(t, "idle") /\ forkid <= MaxFork
    /\ \A u \in Threads : pc[u] = "idle"
    /\ forkid' = NextForkId
    /\ alive' = {t}
    /\ lower' = [m \in Modules |-> "down"]
    /\ UNCHANGED <<present, ref_count, init_count, initialize_called,
                   initialize_thread, initialize_mutex, lock, loaded,
                   initialized, pc, on, rv, seen>>

ThreadStep(t) ==
    \/ InitializeMutex(t) \/ InitializeReturn(t) \/ InitializeLock(t)
    \/ InitializeCount(t) \/ FinalizeCount(t) \/ FinalizeMutex(t)
    \/ FinalizeReturn(t) \/ FinalizeLock(t)

CallerStep(t, m) ==
    \/ Load(t, m) \/ Release(t, m) \/ InitializeEnter(t, m)
    \/ FinalizeEnter(t, m) \/ FinalizeWrongProcess(t, m)

Next ==
    \/ \E t \in Threads : ThreadStep(t) \/ InitializeRecursive(t) \/ Fork(t)
    \/ \E t \in Threads, m \in Modules : CallerStep(t, m)

Spec == Init /\ [][Next]_vars

\* Threads inside p11-kit or a PKCS#11 module keep running, and the mutexes are
\* starvation free.
Fairness == \A t \in Threads : SF_vars(ThreadStep(t))
FairSpec == Spec /\ Fairness
-----------------------------------------------------------------------------
Users(m) == {t \in alive : initialized[t][m] = forkid /\ ~Finalizing(t, m)}

(* p11-kit never calls C_Initialize on a module it has initialized in this   *)
(* process and not finalized since, and calls C_Finalize only on a module it *)
(* has initialized: initialize_called, read under initialize_mutex, decides. *)
CallsMatchModuleState ==
    \A t \in Threads : on[t] \in present =>
        /\ pc[t] = "calling" => lower[on[t]] # "ours"
        /\ pc[t] = "finalizing" => lower[on[t]] = "ours"

(* At most one thread is inside C_Initialize or C_Finalize of a module:      *)
(* both are called with the module's initialize_mutex held.                  *)
OneCallAtATime ==
    \A t, u \in Threads :
        (/\ {pc[t], pc[u]} \subseteq {"calling", "finalizing"}
         /\ on[t] = on[u]) => t = u

(* A caller whose C_Initialize succeeded can use the module until it calls   *)
(* C_Finalize itself: no other caller's C_Finalize takes the module down.    *)
InitializedStaysUp ==
    \A m \in Modules : Users(m) # {} => lower[m] # "down"

\* Who accounts for the counts of a module: callers that hold a closure, that
\* are inside C_Initialize, that have read init_count and are about to write
\* it, in C_Initialize and in C_Finalize, and those that go on to finalize.
Closures(m) == {t \in alive : m \in loaded[t]}
Entering(m) == {t \in alive : Initializing(t, m)}
Writing(m) == {t \in alive : pc[t] = "init.count" /\ on[t] = m /\ rv[t] = "ok"}
Deciding(m) == {t \in alive : pc[t] = "fin.count" /\ on[t] = m}
Leaving(m) == {t \in alive : pc[t] \in FinPCs /\ on[t] = m}

\* The references that all these make up for.
FirstPending(m) == \E t \in Writing(m) : seen[t] = 0
RefsDue(m) ==
    2 * Cardinality(Closures(m)) + Cardinality(Entering(m)) + Cardinality(Leaving(m))
        + IF init_count[m] > 0 \/ FirstPending(m) THEN 1 ELSE 0

(* init_count counts the callers that have initialized the module (those     *)
(* between their read and their write of it included), and ref_count is what *)
(* the closures, the initialization and the threads inside it account for,   *)
(* until the process forks: a child inherits counts of threads it has not.   *)
(* So nothing keeps the modules in memory once every caller has released.    *)
CountsAreExact == forkid = 1 =>
    \A m \in Modules :
        /\ init_count[m] = Cardinality(Users(m) \cup Deciding(m))
        /\ ref_count[m] = RefsDue(m)

(* The counts of a module are those of its callers, and nobody uses a module *)
(* that was freed.                                                           *)
CountsHold == CountsAreExact /\ NoUseAfterFree

Promise == INSTANCE ManagedModule WITH
    Callers <- Threads,
    Shared <- Modules \ External,
    users <- [m \in Modules \ External |-> Users(m)],
    up <- [m \in Modules \ External |-> lower[m] # "down"]

(* The modules.c protocol implements the promise of ManagedModule for every  *)
(* module nobody else has initialized: C_Initialize happens before the first *)
(* managed_C_Initialize returns, C_Finalize after the last managed_C_Finalize *)
(* has given up its count.                                                   *)
ImplementsManagedModule == Promise!Spec

(* Every C_Initialize and C_Finalize through a closure returns.              *)
CallsReturn ==
    \A t \in Threads : pc[t] # "idle" ~> pc[t] = "idle"

\* Threads are interchangeable in the runs that check no liveness.
ThreadSymmetry == Permutations(Threads)
=============================================================================
