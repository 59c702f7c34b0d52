-------------------------------- MODULE Iter --------------------------------
(***************************************************************************)
(* The iterator over modules, slots, tokens, sessions and objects,          *)
(* p11-kit/iter.c.  p11_kit_iter_next and move_next_session are coroutines: *)
(* they return to the caller in the middle of their loops and are resumed   *)
(* there.  pc is the place inside of p11_kit_iter_next, "idle" outside.     *)
(***************************************************************************)
EXTENDS Integers, Sequences, FiniteSets, SequencesExt

CONSTANTS
    Modules,      \* the modules given to p11_kit_iter_begin, a sequence
    Module,       \* per module: whether it matches the uri, and its slots
    Slot,         \* per slot: whether slot and token match, and its objects
    Skipped,      \* the objects that a callback skips
    Flags,        \* the sets of P11KitIterBehavior flags to try
    FirstBatch,   \* the first max_objects, 64 in the code
    Restart,      \* may an iteration begin before the last one is over?
    PinsMissing,  \* may request_pin return nothing?  The answers to try
    MayFail,      \* may calls to the modules fail?
    MaxBegin      \* bound on the number of iterations

ASSUME BoundsAssumption ==
    /\ Restart \in BOOLEAN /\ PinsMissing \subseteq BOOLEAN /\ MayFail \in BOOLEAN
    /\ FirstBatch \in Nat \ {0} /\ MaxBegin \in Nat

None == "none"
Kinds == {"unknown", "module", "slot", "token", "session", "object"}
UserSession == 1   \* the caller's; the iterator opens 2, 3, ...

VARIABLES
    with, preload, login,       \* the flags of the iterator
    no_pin,                     \* may request_pin return nothing at a login?
    modules,                    \* P11KitIter.modules
    slots, saw_slots,           \* the slots of the module, and how many were seen
    objects, saw_objects,       \* the objects found, and how many were seen
    max_objects,
    kind, module, slot, session, object,
    move_next_session_state, iter_next_state,
    searching, searched, iterating, keep_session,
    pc, rv,                     \* where p11_kit_iter_next is, what it returned
    open,                       \* sessions that the iterator has opened
    kept,                       \* sessions that the caller has kept
    cursor,                     \* how many objects C_FindObjects has given
    begun,                      \* number of iterations
    expect, returned            \* what the iteration should return, has returned

flags == <<with, preload, login, no_pin>>
slot_list == <<slots, saw_slots>>
object_list == <<objects, saw_objects, max_objects>>
env == <<open, kept, cursor, begun, expect>>
search == <<searching, searched>>
states == <<move_next_session_state, iter_next_state>>
vars == <<flags, modules, slot_list, object_list, kind, module, slot, session,
          object, states, search, iterating, keep_session, pc, rv, env, returned>>

NumObjects == Len(objects)
Has(f) == f \in with
HasSlots == with \cap {"slots", "tokens", "sessions", "objects"} # {}

TypeOK ==
    /\ kind \in Kinds
    /\ saw_slots \in 0 .. Len(slots)
    /\ saw_objects \in 0 .. NumObjects /\ NumObjects <= max_objects
    /\ move_next_session_state \in 0 .. 4 /\ iter_next_state \in 0 .. 2
    /\ {searching, searched, iterating, keep_session} \subseteq BOOLEAN
    /\ ~(searching /\ searched)
    /\ pc \in {"idle", "next", "objects", "move", "modules", "slotlist",
               "slots", "token", "open", "login", "opened", "search", "find", "again"}
-----------------------------------------------------------------------------
(* What an iteration should return: for each module, slot, token and session *)
(* that matches, what the flags ask for, and then its objects.               *)
Result(k, m, s, o) == [kind |-> k, module |-> m, slot |-> s, object |-> o]
If(cond, seq) == IF cond THEN seq ELSE <<>>

ObjectResults(w, m, s) ==
    LET match == SelectSeq(Slot[s].objects, LAMBDA o : o \notin Skipped)
    IN If("objects" \in w,
          [i \in 1 .. Len(match) |-> Result("object", m, s, match[i])])

SlotResults(w, m, s) ==
    If(Slot[s].match,
       If("slots" \in w, <<Result("slot", m, s, 0)>>) \o
       If(Slot[s].token,
          If("tokens" \in w, <<Result("token", m, s, 0)>>) \o
          If("sessions" \in w, <<Result("session", m, s, 0)>>) \o
          ObjectResults(w, m, s)))

ModuleResults(w, m) ==
    If(Module[m].match,
       If("modules" \in w, <<Result("module", m, 0, 0)>>) \o
       FlattenSeq([i \in 1 .. Len(Module[m].slots) |->
                     SlotResults(w, m, Module[m].slots[i])]))

AllResults(w) ==
    FlattenSeq([i \in 1 .. Len(Modules) |-> ModuleResults(w, Modules[i])])
-----------------------------------------------------------------------------
Init ==
    /\ with \in Flags /\ preload \in BOOLEAN /\ login \in BOOLEAN
    /\ no_pin \in PinsMissing /\ (no_pin => login)
    /\ modules = <<>> /\ slots = <<>> /\ saw_slots = 0
    /\ objects = <<>> /\ saw_objects = 0 /\ max_objects = 0
    /\ kind = "unknown" /\ module = None /\ slot = 0 /\ session = 0 /\ object = 0
    /\ move_next_session_state = 0 /\ iter_next_state = 0
    /\ searching = FALSE /\ searched = FALSE /\ iterating = FALSE
    /\ keep_session = FALSE
    /\ pc = "idle" /\ rv = "ok"
    /\ open = {} /\ kept = {} /\ cursor = 0 /\ begun = 0
    /\ expect = <<>> /\ returned = <<>>

\* finish_slot: the session is closed unless the caller has kept it
ClosedSessionMutant == open
ClosedSessionAlways == open \ {session}
ClosedSession == IF keep_session THEN open ELSE open \ {session}
FinishSlot ==
    /\ open' = ClosedSession
    /\ keep_session' = FALSE
    /\ session' = 0 /\ slot' = 0
    /\ searching' = FALSE /\ searched' = FALSE

\* finish_iterating, without what it does to the slot and its session
FinishRest ==
    /\ object' = 0
    /\ slots' = <<>> /\ saw_slots' = 0 /\ module' = None
    /\ modules' = <<>>
    /\ iterating' = FALSE
    /\ move_next_session_state' = 0 /\ iter_next_state' = 0
    /\ kind' = "unknown"

\* finish_iterating, and p11_kit_iter_next returns
Finish(code) ==
    /\ FinishSlot /\ FinishRest
    /\ rv' = code /\ pc' = "idle"
    /\ UNCHANGED <<flags, object_list, kept, cursor, begun, expect, returned>>

\* p11_kit_iter_begin, and p11_kit_iter_begin_with a module, a slot or a session
BeginIteration ==
    /\ pc = "idle" /\ begun < MaxBegin
    /\ Restart \/ saw_objects = NumObjects
    /\ begun' = begun + 1
    /\ object' = 0 /\ kind' = "unknown"
    /\ move_next_session_state' = 0 /\ iter_next_state' = 0
    /\ searching' = FALSE
    /\ iterating' = TRUE
    /\ rv' = "ok" /\ returned' = <<>>
    /\ UNCHANGED <<flags, object_list, pc, cursor>>

Begin ==
    /\ BeginIteration
    /\ modules' = Modules
    /\ slots' = <<>> /\ saw_slots' = 0 /\ module' = None
    /\ slot' = 0 /\ session' = 0
    /\ keep_session' = FALSE /\ searched' = TRUE
    /\ expect' = AllResults(with)
    /\ open' = ClosedSession
    /\ UNCHANGED kept

BeginWithSlot(m, s) ==
    /\ BeginIteration
    /\ modules' = <<>>
    /\ slots' = <<s>> /\ saw_slots' = 0 /\ module' = m
    /\ slot' = 0 /\ session' = 0
    /\ keep_session' = FALSE /\ searched' = TRUE
    /\ expect' = IF with = {"modules"} THEN <<>> ELSE SlotResults(with, m, s)
    /\ open' = ClosedSession
    /\ UNCHANGED kept

BeginWithSession(m, s) ==
    /\ BeginIteration
    /\ modules' = <<>>
    /\ slots' = <<>> /\ saw_slots' = 0 /\ module' = m
    /\ slot' = s /\ session' = UserSession
    /\ keep_session' = TRUE /\ searched' = FALSE
    /\ open' = ClosedSession \cup {UserSession}
    /\ kept' = kept \cup {UserSession}
    /\ expect' = ObjectResults(with, m, s)
-----------------------------------------------------------------------------
\* A match is returned to the caller.
Yield(k, o) ==
    /\ pc' = "idle" /\ rv' = "ok"
    /\ kind' = k
    /\ returned' = Append(returned, Result(k, module', slot', o))

\* p11_kit_iter_next is called, or resumed where it has returned
CallNext ==
    /\ pc = "idle" /\ iterating
    /\ pc' = CASE iter_next_state = 0 -> "next"
               [] iter_next_state = 1 -> "objects"
               [] iter_next_state = 2 -> IF move_next_session_state > 0 THEN "move"
                                         ELSE "search"
    /\ UNCHANGED <<flags, modules, slot_list, object_list, kind, module, slot,
                   session, object, states, search, iterating, keep_session, rv,
                   env, returned>>

NextStarts ==
    /\ pc = "next"
    /\ IF with = {} THEN Finish("cancel")
       ELSE /\ object' = 0 /\ pc' = "objects"
            /\ UNCHANGED <<flags, modules, slot_list, object_list, kind, module,
                           slot, session, states, search, iterating,
                           keep_session, rv, env, returned>>

\* Outstanding objects are passed through the callbacks first.
NextObject ==
    /\ pc = "objects" /\ Has("objects") /\ saw_objects < NumObjects
    /\ object' = objects[saw_objects + 1]
    /\ saw_objects' = saw_objects + 1
    /\ UNCHANGED <<module, slot>>
    /\ IF object' \in Skipped THEN UNCHANGED <<pc, rv, kind, returned, iter_next_state>>
       ELSE Yield("object", object') /\ iter_next_state' = 1
    /\ UNCHANGED <<flags, modules, slot_list, objects, max_objects, session,
                   move_next_session_state, search, iterating, keep_session, env>>

\* Without outstanding objects it is on to the next session, or to more objects.
NoMoreObjects ==
    /\ pc = "objects" /\ ~(Has("objects") /\ saw_objects < NumObjects)
    /\ IF ~Has("objects") \/ searched
       THEN pc' = "move" /\ kind' = "unknown"
       ELSE pc' = "search" /\ UNCHANGED kind
    /\ UNCHANGED <<flags, modules, slot_list, object_list, module, slot, session,
                   object, states, search, iterating, keep_session, rv, env, returned>>

\* move_next_session is entered, at its beginning or where it has returned.
MovePlaceMutant == <<"modules", "slotlist", "open", "open", "opened">>
MovePlace == <<"modules", "slotlist", "token", "open", "opened">>
MoveStarts ==
    /\ pc = "move"
    /\ kind' = "unknown"
    /\ pc' = MovePlace[move_next_session_state + 1]
    /\ IF move_next_session_state = 0 THEN FinishSlot
       ELSE UNCHANGED <<open, keep_session, session, slot, search>>
    /\ UNCHANGED <<flags, modules, slot_list, object_list, module, object, states,
                   iterating, rv, kept, cursor, begun, expect, returned>>

\* A place inside of move_next_session where it returns to the caller
Suspend(state, k) ==
    /\ move_next_session_state' = state /\ iter_next_state' = 2
    /\ Yield(k, 0)

\* move_next_session: if we have no more slots, then move to next module
NextModule ==
    /\ pc = "modules" /\ saw_slots >= Len(slots)
    /\ IF modules = <<>> THEN Finish("cancel")
       ELSE /\ slots' = <<>> /\ saw_slots' = 0
            /\ module' = Head(modules) /\ modules' = Tail(modules)
            /\ UNCHANGED slot
            /\ CASE ~Module[module'].match ->
                       UNCHANGED <<pc, rv, kind, returned, states>>
                 [] Module[module'].match /\ Has("modules") -> Suspend(1, "module")
                 [] OTHER -> /\ pc' = "slotlist"
                             /\ UNCHANGED <<rv, kind, returned, states>>
            /\ UNCHANGED <<flags, object_list, session, object, search, iterating,
                           keep_session, env>>

HasSlotsLeft ==
    /\ pc = "modules" /\ saw_slots < Len(slots)
    /\ pc' = "slots"
    /\ UNCHANGED <<flags, modules, slot_list, object_list, kind, module, slot,
                   session, object, states, search, iterating, keep_session, rv,
                   env, returned>>

\* C_GetSlotList
ListSlots ==
    /\ pc = "slotlist"
    /\ slots' = IF HasSlots THEN Module[module].slots ELSE slots
    /\ pc' = "modules"
    /\ UNCHANGED <<flags, modules, saw_slots, object_list, kind, module, slot,
                   session, object, states, search, iterating, keep_session, rv,
                   env, returned>>

\* move_next_session: move to the next slot
NextSlot ==
    /\ pc = "slots" /\ HasSlots /\ saw_slots < Len(slots)
    /\ saw_slots' = saw_slots + 1
    /\ slot' = slots[saw_slots']
    /\ UNCHANGED module
    /\ CASE ~Slot[slot'].match -> UNCHANGED <<pc, rv, kind, returned, states>>
         [] Slot[slot'].match /\ Has("slots") -> Suspend(2, "slot")
         [] OTHER -> pc' = "token" /\ UNCHANGED <<rv, kind, returned, states>>
    /\ UNCHANGED <<flags, modules, slots, object_list, session, object, search,
                   iterating, keep_session, env>>

\* move_next_session: otherwise try again
NoMoreSlots ==
    /\ pc = "slots" /\ ~(HasSlots /\ saw_slots < Len(slots))
    /\ move_next_session_state' = 0
    /\ pc' = "move"
    /\ UNCHANGED <<flags, modules, slot_list, object_list, kind, module, slot,
                   session, object, iter_next_state, search, iterating,
                   keep_session, rv, env, returned>>

\* C_GetTokenInfo
TokenInfo ==
    /\ pc = "token"
    /\ UNCHANGED <<module, slot>>
    /\ CASE ~Slot[slot].token -> pc' = "slots" /\ UNCHANGED <<rv, kind, returned, states>>
         [] Slot[slot].token /\ Has("tokens") -> Suspend(3, "token")
         [] OTHER -> pc' = "open" /\ UNCHANGED <<rv, kind, returned, states>>
    /\ UNCHANGED <<flags, modules, slot_list, object_list, session, object, search,
                   iterating, keep_session, env>>

\* C_OpenSession; the module gives out the smallest handle that is free.
FreeHandle == CHOOSE h \in 2 .. Cardinality(open) + 2 :
                  h \notin open /\ \A g \in 2 .. h - 1 : g \in open
OpenSession ==
    /\ pc = "open"
    /\ session' = FreeHandle
    /\ open' = open \cup {session'}
    /\ pc' = "login"
    /\ UNCHANGED <<flags, modules, slot_list, object_list, kind, module, slot, object,
                   states, search, iterating, keep_session, rv, kept, cursor, begun,
                   expect, returned>>

\* The login if it is asked for; without a pin the slot is passed over.
Login ==
    /\ pc = "login"
    /\ UNCHANGED <<module, slot>>
    /\ \/ /\ no_pin
          /\ pc' = "slots"
          /\ UNCHANGED <<rv, kind, returned, states>>
       \/ IF Has("sessions") THEN Suspend(4, "session")
          ELSE pc' = "opened" /\ UNCHANGED <<rv, kind, returned, states>>
    /\ UNCHANGED <<flags, modules, slot_list, object_list, session, object, search,
                   iterating, keep_session, env>>

\* move_next_session returns with a session, and is at its beginning again.
SessionReady ==
    /\ pc = "opened"
    /\ move_next_session_state' = 0
    /\ kind' = "unknown"
    /\ pc' = "search"
    /\ UNCHANGED <<flags, modules, slot_list, object_list, module, slot, session,
                   object, iter_next_state, search, iterating, keep_session, rv,
                   env, returned>>

\* C_FindObjectsInit when there is a session to search, and on to C_FindObjects
\* while there is a search; otherwise try again.
Search ==
    /\ pc = "search"
    /\ searching' = (searching \/ (Has("objects") /\ ~searched))
    /\ cursor' = IF searching THEN cursor ELSE 0
    /\ IF Has("objects") /\ searching'
       THEN objects' = <<>> /\ saw_objects' = 0 /\ pc' = "find"
       ELSE pc' = "again" /\ UNCHANGED <<objects, saw_objects>>
    /\ UNCHANGED <<flags, modules, slot_list, max_objects, kind, module, slot,
                   session, object, states, searched, iterating, keep_session, rv,
                   open, kept, begun, expect, returned>>

\* C_FindObjects, for as many objects as there is room for; when it gives
\* fewer, the search is over.
BatchMutant == max_objects'
Batch == max_objects' - NumObjects
SearchOverMutant(count) == count > Batch
SearchOver(count) == count # Batch
KeepFinding == searching' /\ preload
FindObjects ==
    /\ pc = "find"
    /\ max_objects' = IF max_objects > NumObjects THEN max_objects
                      ELSE IF max_objects = 0 THEN FirstBatch ELSE 2 * max_objects
    /\ LET all == Slot[slot].objects
           left == Len(all) - cursor
           count == IF left < Batch THEN left ELSE Batch
       IN /\ objects' = objects \o SubSeq(all, cursor + 1, cursor + count)
          /\ cursor' = cursor + count
          /\ searching' = ~SearchOver(count)
          /\ searched' = SearchOver(count)
    /\ pc' = IF KeepFinding THEN "find" ELSE "again"
    /\ UNCHANGED <<flags, modules, slot_list, saw_objects, kind, module, slot,
                   session, object, states, iterating, keep_session, rv, open, kept,
                   begun, expect, returned>>

TryAgain ==
    /\ pc = "again"
    /\ iter_next_state' = 0 /\ move_next_session_state' = 0
    /\ kind' = "unknown"
    /\ pc' = "next"
    /\ UNCHANGED <<flags, modules, slot_list, object_list, module, slot, session,
                   object, search, iterating, keep_session, rv, env, returned>>

\* A call to the module or a callback fails: C_GetSlotList, C_OpenSession,
\* C_Login, C_FindObjectsInit, C_FindObjects, or call_all_filters.
CallFails ==
    /\ MayFail
    /\ \/ pc = "slotlist" /\ HasSlots
       \/ pc = "open"
       \/ pc = "login" /\ login
       \/ pc = "search" /\ Has("objects") /\ ~searched
       \/ pc = "find"
       \/ pc = "objects" /\ Has("objects") /\ saw_objects < NumObjects
    /\ Finish("error")
-----------------------------------------------------------------------------
\* p11_kit_iter_keep_session: the session is the caller's to close.
KeepSession ==
    /\ pc = "idle" /\ iterating /\ session # 0
    /\ keep_session' = TRUE
    /\ kept' = kept \cup {session}
    /\ UNCHANGED <<flags, modules, slot_list, object_list, kind, module, slot,
                   session, object, states, search, iterating, pc, rv, open, cursor,
                   begun, expect, returned>>

\* p11_kit_iter_free
Free ==
    /\ pc = "idle" /\ iterating /\ begun = MaxBegin
    /\ Finish("freed")

Next ==
    \/ Begin
    \/ \E i \in DOMAIN Modules : \E j \in DOMAIN Module[Modules[i]].slots :
          LET s == Module[Modules[i]].slots[j]
          IN BeginWithSlot(Modules[i], s) \/ BeginWithSession(Modules[i], s)
    \/ CallNext \/ NextStarts \/ NextObject \/ NoMoreObjects
    \/ MoveStarts \/ NextModule \/ HasSlotsLeft \/ ListSlots \/ NextSlot
    \/ NoMoreSlots \/ TokenInfo \/ OpenSession \/ Login \/ SessionReady
    \/ Search \/ FindObjects \/ TryAgain \/ CallFails
    \/ KeepSession \/ Free

Spec == Init /\ [][Next]_vars
\* A caller that goes on calling p11_kit_iter_next
GoOn ==
    \/ CallNext \/ NextStarts \/ NextObject \/ NoMoreObjects \/ MoveStarts
    \/ NextModule \/ HasSlotsLeft \/ ListSlots \/ NextSlot \/ NoMoreSlots
    \/ TokenInfo \/ OpenSession \/ Login \/ SessionReady \/ Search
    \/ FindObjects \/ TryAgain
FairSpec == Spec /\ WF_vars(GoOn)
-----------------------------------------------------------------------------
(* p11_kit_iter_next returns exactly the modules, slots, tokens, sessions    *)
(* and objects that match, once each and in order, for every set of flags,   *)
(* batch size and way to begin; CKR_CANCEL comes after the last.  Slots for   *)
(* which there is no pin are left out of this.                               *)
ResultsComplete == ~no_pin =>
    /\ IsPrefix(returned, expect)
    /\ rv = "cancel" => returned = expect

(* When an iteration is over, every session that the iterator has opened is  *)
(* closed, except those that the caller has kept and those of slots for which *)
(* there was no pin.                                                         *)
NoSessionLeft == pc = "idle" /\ ~iterating /\ ~no_pin => open \subseteq kept

(* A session that the caller has kept, or has passed in, is never closed.    *)
KeptStaysOpen == kept \subseteq open

(* A caller that goes on calling p11_kit_iter_next gets to the end.  It does *)
(* not when only modules are asked for: after p11_kit_iter_begin_with a slot *)
(* move_next_session then never takes the slot from its list.                *)
IterationEnds == iterating /\ with # {"modules"} ~> ~iterating
=============================================================================
