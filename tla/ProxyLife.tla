------------------------------ MODULE ProxyLife ------------------------------
(***************************************************************************)
(* One instance of the proxy module, p11-kit/proxy.c, with several callers: *)
(* C_Initialize and C_Finalize, and the sessions.  A section under          *)
(* p11_lock() is one step; modules are called outside of it.                *)
(***************************************************************************)
EXTENDS Integers, FiniteSets, FiniteSetsExt, Functions

CONSTANTS
    Threads,      \* the callers
    Slots,        \* the proxy's slots
    Overlap,      \* may C_Initialize overlap with other calls to it?
    MaxProxies,   \* bound on the number of Proxy objects
    MaxHandle     \* bound on the session handles

\* What the proofs need of the constants
ConstantsOK == IsFiniteSet(Threads) /\ MaxProxies \in Nat /\ MaxHandle \in Nat

VARIABLES
    px,           \* State.px: the current Proxy object, 0 for NULL
    refs,         \* per object: Proxy.refs
    sessions,     \* per object: Proxy.sessions, from handle to real session and slot
    last_handle,  \* State.last_handle, counted from 0
    proxies,      \* the number of objects there have been
    freed,        \* the objects that have been freed
    up,           \* are the modules of State.loaded initialized?
    open,         \* the sessions that are open in the modules
    real,         \* the number of real sessions there have been
    pc,           \* per thread: the step of its call
    py,           \* per thread: the object it uses in its call
    arg,          \* per thread: the slot, session or sessions of its call
    holds         \* per thread: C_Initialize has returned CKR_OK, C_Finalize not

state == <<px, refs, sessions, last_handle, proxies, freed>>
modules == <<up, open, real>>
threads == <<pc, py, arg, holds>>
vars == <<state, modules, threads>>

Proxies == 1 .. MaxProxies
SessionHandles == 1 .. MaxHandle
Session == [real_session : SessionHandles, wrap_slot : Slots]
Tracked == UNION {[S -> Session] : S \in SUBSET SessionHandles}
Steps == {"idle", "create", "install", "destroy", "slot", "opened", "session",
          "closed"}

TypeOK ==
    /\ px \in Proxies \cup {0}
    /\ refs \in [Proxies -> Nat]
    /\ sessions \in [Proxies -> Tracked]
    /\ last_handle \in 0 .. MaxHandle /\ real \in 0 .. MaxHandle
    /\ proxies \in 0 .. MaxProxies
    /\ freed \subseteq Proxies
    /\ up \in BOOLEAN
    /\ open \subseteq Session
    /\ pc \in [Threads -> Steps]
    /\ py \in [Threads -> Proxies \cup {0}]
    /\ DOMAIN arg = Threads
    /\ holds \in [Threads -> Nat]

NoSessions == [h \in {} |-> h]

Init ==
    /\ px = 0 /\ proxies = 0 /\ freed = {}
    /\ refs = [p \in Proxies |-> 0]
    /\ sessions = [p \in Proxies |-> NoSessions]
    /\ last_handle = 0
    /\ up = FALSE /\ open = {} /\ real = 0
    /\ pc = [t \in Threads |-> "idle"]
    /\ py = [t \in Threads |-> 0]
    /\ arg = [t \in Threads |-> 0]
    /\ holds = [t \in Threads |-> 0]

At(t, step) == pc[t] = step
Goto(t, step) == pc' = [pc EXCEPT ![t] = step]
Return(t) ==
    /\ Goto(t, "idle")
    /\ py' = [py EXCEPT ![t] = 0]
    /\ arg' = [arg EXCEPT ![t] = 0]
Initializing(t) == pc[t] \in {"create", "install", "destroy"}
-----------------------------------------------------------------------------
\* proxy_C_Initialize, first section: another reference, or a new proxy
TakeReferenceDrops == refs' = [refs EXCEPT ![px] = @ - 1]
TakeReferenceMutant == UNCHANGED refs
TakeReference == refs' = [refs EXCEPT ![px] = @ + 1]
Initialize(t) ==
    /\ At(t, "idle") /\ holds[t] = 0
    /\ Overlap \/ ~\E u \in Threads : Initializing(u)
    /\ IF px = 0
       THEN Goto(t, "create") /\ UNCHANGED <<refs, holds>>
       ELSE TakeReference /\ holds' = [holds EXCEPT ![t] = @ + 1] /\ UNCHANGED pc
    /\ UNCHANGED <<px, sessions, last_handle, proxies, freed, modules, py, arg>>

\* p11_kit_modules_initialize and _finalize on State.loaded, which all the
\* Proxy objects share.  Initializing modules that are initialized is no error;
\* finalizing them closes their sessions.
ModulesInitialize == up' = TRUE /\ UNCHANGED open
ModulesFinalizeMutant == UNCHANGED <<up, open>>
ModulesFinalize == up' = FALSE /\ open' = {}

\* proxy_create: the modules are initialized, without the lock.  On failure
\* they are finalized again.
Create(t) ==
    /\ At(t, "create") /\ proxies < MaxProxies
    /\ proxies' = proxies + 1
    /\ refs' = [refs EXCEPT ![proxies'] = 1]
    /\ ModulesInitialize
    /\ py' = [py EXCEPT ![t] = proxies']
    /\ Goto(t, "install")
    /\ UNCHANGED <<px, sessions, last_handle, freed, real, arg, holds>>

CreateFails(t) ==
    /\ At(t, "create")
    /\ ModulesFinalize
    /\ Return(t)
    /\ UNCHANGED <<state, real, holds>>

\* proxy_C_Initialize, second section: the new proxy goes in, unless somebody
\* was faster.
CanInstall == px = 0
Install(t) ==
    /\ At(t, "install")
    /\ holds' = [holds EXCEPT ![t] = @ + 1]
    /\ IF CanInstall
       THEN px' = py[t] /\ Return(t)
       ELSE Goto(t, "destroy") /\ UNCHANGED <<px, py, arg>>
    /\ UNCHANGED <<refs, sessions, last_handle, proxies, freed, modules>>

\* proxy_free with finalize
Destroy(t) ==
    /\ At(t, "destroy")
    /\ freed' = freed \cup {py[t]}
    /\ ModulesFinalize
    /\ Return(t)
    /\ UNCHANGED <<px, refs, sessions, last_handle, proxies, real, holds>>

\* proxy_C_Finalize
Finalize(t) ==
    /\ At(t, "idle") /\ holds[t] > 0
    /\ holds' = [holds EXCEPT ![t] = @ - 1]
    /\ IF px = 0 THEN UNCHANGED <<px, refs, pc, py>>
       ELSE /\ refs' = [refs EXCEPT ![px] = @ - 1]
            /\ IF refs[px] = 1
               THEN px' = 0 /\ py' = [py EXCEPT ![t] = px] /\ Goto(t, "destroy")
               ELSE UNCHANGED <<px, pc, py>>
    /\ UNCHANGED <<sessions, last_handle, proxies, freed, modules, arg>>
-----------------------------------------------------------------------------
\* A call reads State.px without the lock; map_slot_to_real and
\* map_session_to_real look into that object afterwards.
Start(t, step, a) ==
    /\ At(t, "idle") /\ holds[t] > 0
    /\ py' = [py EXCEPT ![t] = px]
    /\ arg' = [arg EXCEPT ![t] = a]
    /\ Goto(t, step)
    /\ UNCHANGED <<state, modules, holds>>

StartOpen(t) == \E s \in Slots : Start(t, "slot", s)
StartClose(t) == \E h \in 1 .. last_handle : Start(t, "session", {h})

\* proxy_C_OpenSession: the slot is mapped and the session opened
OpenSession(t) ==
    /\ At(t, "slot")
    /\ IF py[t] = 0 THEN Return(t) /\ UNCHANGED <<open, real>>
       ELSE /\ real < MaxHandle
            /\ real' = real + 1
            /\ LET sess == [real_session |-> real', wrap_slot |-> arg[t]]
               IN open' = open \cup {sess} /\ arg' = [arg EXCEPT ![t] = sess]
            /\ Goto(t, "opened")
            /\ UNCHANGED py
    /\ UNCHANGED <<state, up, holds>>

\* proxy_C_OpenSession: the session gets its handle in the proxy there is now
NewHandleMutant == Cardinality(DOMAIN sessions[px]) + 1
NewHandle == last_handle + 1
TrackSession(t) ==
    /\ At(t, "opened")
    /\ IF px = 0 THEN UNCHANGED <<sessions, last_handle>>
       ELSE /\ NewHandle \in SessionHandles
            /\ last_handle' = NewHandle
            /\ sessions' = [sessions EXCEPT ![px] =
                 [h \in DOMAIN @ \cup {last_handle'} |->
                    IF h = last_handle' THEN arg[t] ELSE @[h]]]
    /\ Return(t)
    /\ UNCHANGED <<px, refs, proxies, freed, modules, holds>>

\* C_CloseAllSessions goes on with the next session, C_CloseSession is done.
CloseNext(t, h) ==
    IF arg[t] = {h} THEN Return(t)
    ELSE /\ arg' = [arg EXCEPT ![t] = @ \ {h}]
         /\ py' = [py EXCEPT ![t] = px]
         /\ Goto(t, "session")

\* proxy_C_CloseSession: the session is looked up and closed ...
CloseSession(t) ==
    /\ At(t, "session")
    /\ LET h == Min(arg[t])
       IN IF py[t] # 0 /\ h \in DOMAIN sessions[py[t]]
          THEN /\ open' = open \ {sessions[py[t]][h]}
               /\ Goto(t, "closed")
               /\ UNCHANGED <<py, arg>>
          ELSE CloseNext(t, h) /\ UNCHANGED open
    /\ UNCHANGED <<state, up, real, holds>>

\* ... and then forgotten.
UntrackMutant(h) == UNCHANGED sessions
Untrack(h) ==
    sessions' = IF px = 0 THEN sessions
                ELSE [sessions EXCEPT ![px] = Restrict(@, DOMAIN @ \ {h})]
UntrackSession(t) ==
    /\ At(t, "closed")
    /\ Untrack(Min(arg[t]))
    /\ CloseNext(t, Min(arg[t]))
    /\ UNCHANGED <<px, refs, last_handle, proxies, freed, modules, holds>>

\* proxy_C_CloseAllSessions, under the lock: the handles of a slot
HandlesOf(s) == {h \in DOMAIN sessions[px] : sessions[px][h].wrap_slot = s}
CloseAllSessions(t) ==
    /\ px # 0
    /\ \E s \in Slots : HandlesOf(s) # {} /\ Start(t, "session", HandlesOf(s))

Next == \E t \in Threads :
    \/ Initialize(t) \/ Create(t) \/ CreateFails(t) \/ Install(t) \/ Destroy(t)
    \/ Finalize(t)
    \/ StartOpen(t) \/ OpenSession(t) \/ TrackSession(t)
    \/ StartClose(t) \/ CloseSession(t) \/ UntrackSession(t)
    \/ CloseAllSessions(t)

Spec == Init /\ [][Next]_vars
-----------------------------------------------------------------------------
Quiet == \A t \in Threads : At(t, "idle")

(* A caller whose C_Initialize returned CKR_OK can use the proxy until it    *)
(* calls C_Finalize, whatever the other callers do.                          *)
InitializedStaysUp == (\E t \in Threads : holds[t] > 0) => px # 0 \/ ~Quiet

(* The modules are initialized exactly as long as there is a proxy.          *)
ModulesFollowProxy == Quiet => up = (px # 0)

(* No call looks into a Proxy object that has been freed.                    *)
NoUseAfterFree ==
    \A t \in Threads : At(t, "slot") \/ At(t, "session") => py[t] \notin freed

(* Between calls the proxy knows exactly the sessions that are open: a       *)
(* session that the modules hold can be closed through the proxy.            *)
SessionsTracked ==
    Quiet => open = IF px = 0 THEN {} ELSE Range(sessions[px])

(* A caller that has initialized the proxy keeps it and its modules, no      *)
(* freed proxy is looked into, and no session is out of its sight.           *)
ProxyStaysUp ==
    InitializedStaysUp /\ ModulesFollowProxy /\ NoUseAfterFree /\ SessionsTracked

\* What HandlesKeepMeaning says of a step.
HandlesKept ==
    \A p \in Proxies : \A h \in DOMAIN sessions'[p] :
        IF h \in DOMAIN sessions[p] THEN sessions'[p][h] = sessions[p][h]
        ELSE h > last_handle

(* A session handle never comes to mean another session, and is not given    *)
(* out again after the session was closed.                                   *)
HandlesKeepMeaning == [][HandlesKept]_vars
=============================================================================
