-------------------------- MODULE ManagedSessions --------------------------
(***************************************************************************)
(* The sessions of managed modules, p11-kit/modules.c: several callers, each *)
(* with a managed closure (and possibly several threads), share one PKCS#11  *)
(* module.  Each closure remembers in Managed.sessions which sessions were   *)
(* opened through it, so that C_CloseAllSessions and C_Finalize of one       *)
(* caller leave the others' sessions alone.                                  *)
(*                                                                         *)
(* The dictionary is used under p11_lock(); the calls into the module happen *)
(* outside of it.  Each of these is one step.                                *)
(***************************************************************************)
EXTENDS Integers

CONSTANTS
    Closures,   \* the managed closures of the module
    Threads,    \* the threads that call through them
    ClosureOf,  \* the closure each thread calls through
    Slots,      \* slot ids
    Handles,    \* session handles
    None,       \* no slot
    Reuse       \* may the module give out the handle of a closed session again?

ASSUME ClosuresAssumption == Closures # {} /\ ClosureOf \in [Threads -> Closures]
ASSUME SlotsAssumption == None \notin Slots /\ Slots # {}
ASSUME HandlesAssumption == Handles # {} /\ Reuse \in BOOLEAN

VARIABLES
    sessions,     \* Managed.sessions: handle -> slot, None where not present
    initialized,  \* Managed.initialized of each closure
    open,         \* the module's open sessions: handle -> slot, or None
    opener,       \* the closure through which each handle was opened last
    given,        \* the handles the module has given out
    pc,           \* per thread: the step of its call
    handle,       \* per thread: the session of its call
    slot,         \* per thread: the slot of its call, None for every slot
    stolen        \* per thread: the sessions it still has to close

vars == <<sessions, initialized, open, opener, given, pc, handle, slot, stolen>>

Steps == {"idle", "track", "untrack", "closing", "finalizing"}

TypeOK ==
    /\ sessions \in [Closures -> [Handles -> Slots \cup {None}]]
    /\ initialized \in [Closures -> BOOLEAN]
    /\ open \in [Handles -> Slots \cup {None}]
    /\ opener \in [Handles -> Closures]
    /\ given \subseteq Handles
    /\ pc \in [Threads -> Steps]
    /\ handle \in [Threads -> Handles]
    /\ slot \in [Threads -> Slots \cup {None}]
    /\ stolen \in [Threads -> SUBSET Handles]

Empty == [h \in Handles |-> None]

Init ==
    /\ sessions = [c \in Closures |-> Empty]
    /\ initialized = [c \in Closures |-> FALSE]
    /\ open = Empty
    /\ opener = [h \in Handles |-> CHOOSE c \in Closures : TRUE]
    /\ given = {}
    /\ pc = [t \in Threads |-> "idle"]
    /\ handle = [t \in Threads |-> CHOOSE h \in Handles : TRUE]
    /\ slot = [t \in Threads |-> None]
    /\ stolen = [t \in Threads |-> {}]

Goto(t, step) == pc' = [pc EXCEPT ![t] = step]

\* PKCS#11 forbids the caller to use the module while it initializes or
\* finalizes it: C_Initialize and C_Finalize are alone in their closure.
Quiet(c) == \A t \in Threads : ClosureOf[t] = c => pc[t] = "idle"
Usable(t) ==
    /\ pc[t] = "idle" /\ initialized[ClosureOf[t]]
    /\ \A u \in Threads : ClosureOf[u] = ClosureOf[t] => pc[u] # "finalizing"

\* The sessions the application has been given and has not closed.
Known(c, h) ==
    /\ open[h] # None /\ opener[h] = c
    /\ \A t \in Threads : pc[t] = "track" => handle[t] # h

\* managed_C_Initialize: a fresh dictionary.
Initialize(t) ==
    LET c == ClosureOf[t] IN
    /\ Quiet(c) /\ ~initialized[c]
    /\ sessions' = [sessions EXCEPT ![c] = Empty]
    /\ initialized' = [initialized EXCEPT ![c] = TRUE]
    /\ UNCHANGED <<open, opener, given, pc, handle, slot, stolen>>

\* managed_C_OpenSession: the module opens the session ...
OpenLower(t, h, s) ==
    /\ Usable(t)
    /\ open[h] = None /\ (Reuse \/ h \notin given)
    /\ open' = [open EXCEPT ![h] = s]
    /\ opener' = [opener EXCEPT ![h] = ClosureOf[t]]
    /\ given' = given \cup {h}
    /\ handle' = [handle EXCEPT ![t] = h]
    /\ slot' = [slot EXCEPT ![t] = s]
    /\ Goto(t, "track")
    /\ UNCHANGED <<sessions, initialized, stolen>>

\* ... and managed_track_session_inlock remembers it.
OpenTrackMutant(t) ==
    /\ pc[t] = "track"
    /\ slot' = [slot EXCEPT ![t] = None]
    /\ Goto(t, "idle")
    /\ UNCHANGED <<sessions, initialized, open, opener, given, handle, stolen>>
OpenTrackSwapped(t) ==
    /\ pc[t] = "track"
    /\ sessions' = [sessions EXCEPT ![ClosureOf[t]][handle[t]] = handle[t]]
    /\ slot' = [slot EXCEPT ![t] = None]
    /\ Goto(t, "idle")
    /\ UNCHANGED <<initialized, open, opener, given, handle, stolen>>
OpenTrack(t) ==
    /\ pc[t] = "track"
    /\ sessions' = [sessions EXCEPT ![ClosureOf[t]][handle[t]] = slot[t]]
    /\ slot' = [slot EXCEPT ![t] = None]
    /\ Goto(t, "idle")
    /\ UNCHANGED <<initialized, open, opener, given, handle, stolen>>

\* managed_C_CloseSession: the module closes the session ...
CloseLower(t, h) ==
    /\ Usable(t) /\ Known(ClosureOf[t], h)
    /\ open' = [open EXCEPT ![h] = None]
    /\ handle' = [handle EXCEPT ![t] = h]
    /\ Goto(t, "untrack")
    /\ UNCHANGED <<sessions, initialized, opener, given, slot, stolen>>

\* ... and managed_untrack_session_inlock forgets it.
CloseUntrack(t) ==
    /\ pc[t] = "untrack"
    /\ sessions' = [sessions EXCEPT ![ClosureOf[t]][handle[t]] = None]
    /\ Goto(t, "idle")
    /\ UNCHANGED <<initialized, open, opener, given, handle, slot, stolen>>

\* managed_steal_sessions_inlock: the sessions of one slot (of every slot when
\* which is None), taken out of the closure's dictionary.
StealMutant(c, which) == {h \in Handles : sessions[c][h] # None}
StealFromAll(c, which) ==
    {h \in Handles : open[h] # None /\ which \in {None, open[h]}}
Steal(c, which) ==
    {h \in Handles : sessions[c][h] # None /\ which \in {None, sessions[c][h]}}
StealSessions(t, which, step) ==
    LET c == ClosureOf[t]
        taken == Steal(c, which)
    IN  /\ stolen' = [stolen EXCEPT ![t] = taken]
        /\ sessions' = [sessions EXCEPT ![c] =
                [h \in Handles |-> IF h \in taken THEN None ELSE sessions[c][h]]]
        /\ slot' = [slot EXCEPT ![t] = which]
        /\ Goto(t, step)
        /\ UNCHANGED <<initialized, open, opener, given, handle>>

\* managed_C_CloseAllSessions
CloseAllSessions(t, s) == Usable(t) /\ StealSessions(t, s, "closing")

\* managed_C_Finalize
Finalize(t) ==
    /\ Quiet(ClosureOf[t]) /\ initialized[ClosureOf[t]]
    /\ StealSessions(t, None, "finalizing")

\* managed_close_sessions: one C_CloseSession after the other; failures are
\* reported and ignored.
CloseStolenMutant(t, h) ==
    /\ pc[t] \in {"closing", "finalizing"} /\ h \in stolen[t]
    /\ stolen' = [stolen EXCEPT ![t] = {}]
    /\ open' = [open EXCEPT ![h] = None]
    /\ UNCHANGED <<sessions, initialized, opener, given, pc, handle, slot>>
CloseStolen(t, h) ==
    /\ pc[t] \in {"closing", "finalizing"} /\ h \in stolen[t]
    /\ stolen' = [stolen EXCEPT ![t] = @ \ {h}]
    /\ open' = [open EXCEPT ![h] = None]
    /\ UNCHANGED <<sessions, initialized, opener, given, pc, handle, slot>>

CloseAllReturn(t) ==
    /\ pc[t] = "closing" /\ stolen[t] = {}
    /\ slot' = [slot EXCEPT ![t] = None]
    /\ Goto(t, "idle")
    /\ UNCHANGED <<sessions, initialized, open, opener, given, handle, stolen>>

\* finalize_module_inlock_reentrant: C_Finalize of the module closes what is
\* left, when no other closure is initialized; the dictionary is freed.
FinalizeReturn(t) ==
    LET c == ClosureOf[t] IN
    /\ pc[t] = "finalizing" /\ stolen[t] = {}
    /\ initialized' = [initialized EXCEPT ![c] = FALSE]
    /\ sessions' = [sessions EXCEPT ![c] = Empty]
    /\ open' = IF \A d \in Closures \ {c} : ~initialized[d] THEN Empty ELSE open
    /\ Goto(t, "idle")
    /\ UNCHANGED <<opener, given, handle, slot, stolen>>

ThreadNext(t) ==
    \/ Initialize(t) \/ Finalize(t) \/ FinalizeReturn(t)
    \/ OpenTrack(t) \/ CloseUntrack(t) \/ CloseAllReturn(t)
    \/ \E s \in Slots : CloseAllSessions(t, s)
    \/ \E h \in Handles : CloseLower(t, h) \/ CloseStolen(t, h)
    \/ \E h \in Handles, s \in Slots : OpenLower(t, h, s)

Next == \E t \in Threads : ThreadNext(t)

Spec == Init /\ [][Next]_vars
-----------------------------------------------------------------------------
(* C_CloseAllSessions and C_Finalize close only sessions that the caller of  *)
(* the managed module has opened: whatever a thread has stolen and not       *)
(* closed yet is its closure's.                                              *)
OnlyOwnSessionsClosed ==
    \A t \in Threads : \A h \in stolen[t] :
        open[h] # None => opener[h] = ClosureOf[t]

(* A caller that has finalized leaves no session open in the module, whatever *)
(* its threads did before.                                                   *)
NoSessionLeft ==
    \A h \in Handles : open[h] # None => initialized[opener[h]]

(* Between calls, a closure tracks exactly the open sessions that were opened *)
(* through it, with the slot they are on.                                    *)
TrackingIsExact ==
    \A c \in Closures : Quiet(c) =>
        \A h \in Handles :
            sessions[c][h] = IF opener[h] = c THEN open[h] ELSE None
=============================================================================
