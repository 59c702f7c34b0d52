---------------------------------- MODULE Pin ----------------------------------
(***************************************************************************)
(* PIN callbacks (p11-kit/pin.c): threads register and unregister          *)
(* callbacks for a pin-source, request PINs from them, and share the PINs  *)
(* they got.  A callback runs without the library's lock, so that others   *)
(* may register, unregister and request while it runs.                     *)
(*                                                                         *)
(* A registration is a number, what it was registered with is one of       *)
(* Callbacks, and those in GivesPin return a PIN when they are asked.  A   *)
(* PIN is a number, in order of creation.                                  *)
(***************************************************************************)
EXTENDS Naturals, Sequences, FiniteSets

CONSTANTS
    PinThreads,        \* the threads
    Sources,           \* the pin-sources asked for
    Fallback,          \* P11_KIT_PIN_FALLBACK
    Callbacks,         \* the callbacks with their data
    GivesPin,          \* those that return a PIN
    Files,             \* the file callbacks -> the sizes of their files
    MaxRegistrations,  \* bound: registrations
    MaxPins,           \* bound: PINs
    MaxShares          \* bound: references to one PIN that a thread holds

ConstantsOK == MaxPins \in Nat

VARIABLES
    pin_sources,       \* pin-source -> the registrations for it, in order
    regs,              \* registration -> [cb, refs, destroyed], in order of creation
    pins,              \* PIN -> [refs, destroyed]
    request,           \* thread -> what it is doing
    holds              \* thread -> PIN -> how many references to it the thread holds

vars == <<pin_sources, regs, pins, request, holds>>

Pins == 1..MaxPins

Idle == [pc |-> "idle", snapshot |-> <<>>, left |-> 0, pin |-> 0]

Ids(s) == {s[i] : i \in DOMAIN s}

ref_pin_callback(cb) == [cb EXCEPT !.refs = @ + 1]

\* The last reference calls the destroy function, within the lock.
unref_pin_callback(cb) ==
    [cb EXCEPT !.refs = @ - 1,
               !.destroyed = IF cb.refs = 1 THEN @ + 1 ELSE @]

register_callback_unlocked(source, id) ==
    pin_sources' = [pin_sources EXCEPT ![source] = Append(@, id)]

p11_kit_pin_register_callback(source, cb) ==
    /\ Len(regs) < MaxRegistrations
    /\ regs' = Append(regs, [cb |-> cb, refs |-> 1, destroyed |-> 0])
    /\ register_callback_unlocked(source, Len(regs) + 1)
    /\ UNCHANGED <<pins, request, holds>>

\* Only the first registration that matches is removed.
p11_kit_pin_unregister_callback(source, cb) ==
    LET of == pin_sources[source]
        matching == {i \in DOMAIN of : regs[of[i]].cb = cb}
    IN  \E i \in matching :
            /\ \A j \in matching : i <= j
            /\ pin_sources' = [pin_sources EXCEPT
                   ![source] = SubSeq(of, 1, i - 1) \o SubSeq(of, i + 1, Len(of))]
            /\ regs' = [regs EXCEPT ![of[i]] = unref_pin_callback(@)]
            /\ UNCHANGED <<pins, request, holds>>

(***************************************************************************)
(* The file callback: the PIN has the bytes of the file, read in blocks;   *)
(* {} when there is none.                                                  *)
(***************************************************************************)
p11_kit_pin_file_callback(size, retry) ==
    LET block == 1024
        read[used \in 0..4096] ==
            IF used + block > 4096 THEN {}
            ELSE IF used = size THEN {used}
            ELSE read[IF size - used < block THEN size ELSE used + block]
    IN  IF retry THEN {} ELSE read[0]

CanGive(cb) ==
    IF cb \in DOMAIN Files THEN p11_kit_pin_file_callback(Files[cb], FALSE) # {}
    ELSE cb \in GivesPin

(***************************************************************************)
(* p11_kit_pin_request: a snapshot of the callbacks within the lock, the   *)
(* calls from the last to the first without it, the release within it.     *)
(* Every registration is made for one source, so it is in a list, and in a *)
(* snapshot, once.                                                         *)
(***************************************************************************)
\* Mutant: the snapshot takes no references.
RequestSnapshotMutant(t, source) ==
    LET callbacks == pin_sources[source]
    IN  /\ request[t] = Idle
        /\ callbacks # <<>>
        /\ request' = [request EXCEPT ![t] =
               [pc |-> "calling", snapshot |-> callbacks, left |-> Len(callbacks), pin |-> 0]]
        /\ UNCHANGED <<pin_sources, regs, pins, holds>>

RequestSnapshot(t, source) ==
    LET callbacks == IF pin_sources[source] # <<>> THEN pin_sources[source]
                     ELSE pin_sources[Fallback]
    IN  /\ request[t] = Idle
        /\ callbacks # <<>>
        /\ regs' = [id \in DOMAIN regs |->
               IF id \in Ids(callbacks) THEN ref_pin_callback(regs[id]) ELSE regs[id]]
        /\ request' = [request EXCEPT ![t] =
               [pc |-> "calling", snapshot |-> callbacks, left |-> Len(callbacks), pin |-> 0]]
        /\ UNCHANGED <<pin_sources, pins, holds>>

p11_kit_pin_new_for_buffer == [refs |-> 1, destroyed |-> 0]

RequestCall(t) ==
    LET q == request[t]
        cb == regs[q.snapshot[q.left]].cb
    IN  /\ q.pc = "calling" /\ q.left > 0 /\ q.pin = 0
        /\ CanGive(cb) => Len(pins) < MaxPins
        /\ pins' = IF CanGive(cb) THEN Append(pins, p11_kit_pin_new_for_buffer) ELSE pins
        /\ request' = [request EXCEPT ![t] =
               [q EXCEPT !.left = @ - 1, !.pin = IF CanGive(cb) THEN Len(pins) + 1 ELSE 0]]
        /\ UNCHANGED <<pin_sources, regs, holds>>

RequestRelease(t) ==
    LET q == request[t]
    IN  /\ q.pc = "calling" /\ (q.left = 0 \/ q.pin # 0)
        /\ regs' = [id \in DOMAIN regs |->
               IF id \in Ids(q.snapshot) THEN unref_pin_callback(regs[id]) ELSE regs[id]]
        /\ holds' = [holds EXCEPT ![t] = [p \in DOMAIN @ |-> IF p = q.pin THEN @[p] + 1 ELSE @[p]]]
        /\ request' = [request EXCEPT ![t] = Idle]
        /\ UNCHANGED <<pin_sources, pins>>

(***************************************************************************)
(* Sharing a PIN, and giving it up: the count within the lock, the         *)
(* destruction after it.                                                   *)
(***************************************************************************)
p11_kit_pin_ref(t, u, pin) ==
    /\ holds[t][pin] > 0
    /\ holds[u][pin] < MaxShares
    /\ pins' = [pins EXCEPT ![pin].refs = @ + 1]
    /\ holds' = [holds EXCEPT ![u][pin] = @ + 1]
    /\ UNCHANGED <<pin_sources, regs, request>>

p11_kit_pin_unref(t, pin) ==
    LET last == pins[pin].refs = 1
    IN  /\ request[t] = Idle
        /\ holds[t][pin] > 0
        /\ pins' = [pins EXCEPT ![pin].refs = @ - 1]
        /\ holds' = [holds EXCEPT ![t][pin] = @ - 1]
        /\ request' = IF last THEN [request EXCEPT ![t] = [Idle EXCEPT !.pc = "destroy", !.pin = pin]]
                      ELSE request
        /\ UNCHANGED <<pin_sources, regs>>

UnrefDestroy(t) ==
    /\ request[t].pc = "destroy"
    /\ pins' = [pins EXCEPT ![request[t].pin].destroyed = @ + 1]
    /\ request' = [request EXCEPT ![t] = Idle]
    /\ UNCHANGED <<pin_sources, regs, holds>>

Init ==
    /\ pin_sources = [s \in Sources \cup {Fallback} |-> <<>>]
    /\ regs = <<>>
    /\ pins = <<>>
    /\ request = [t \in PinThreads |-> Idle]
    /\ holds = [t \in PinThreads |-> [p \in Pins |-> 0]]

Next ==
    \/ \E s \in Sources \cup {Fallback}, cb \in Callbacks :
           p11_kit_pin_register_callback(s, cb) \/ p11_kit_pin_unregister_callback(s, cb)
    \/ \E t \in PinThreads, s \in Sources : RequestSnapshot(t, s)
    \/ \E t \in PinThreads :
           \/ RequestCall(t) \/ RequestRelease(t) \/ UnrefDestroy(t)
           \/ \E pin \in Pins :
                  \/ p11_kit_pin_unref(t, pin)
                  \/ \E u \in PinThreads : p11_kit_pin_ref(t, u, pin)

Spec == Init /\ [][Next]_vars

\* The data of a callback lives exactly as long as it is needed: a
\* registration is destroyed once, and only when it is neither registered nor
\* in the snapshot of a request that may still call it; when it is neither, it
\* has been destroyed.  A PIN lives as long as a thread holds it: it is
\* destroyed once, after the last reference is given up.
CallbacksKept ==
    LET needed(id) == \/ \E s \in DOMAIN pin_sources : id \in Ids(pin_sources[s])
                      \/ \E t \in PinThreads : id \in Ids(request[t].snapshot)
        wanted(p) == \E t \in PinThreads : holds[t][p] > 0 \/ request[t].pin = p
    IN  /\ \A id \in DOMAIN regs : regs[id].destroyed = IF needed(id) THEN 0 ELSE 1
        /\ \A p \in DOMAIN pins : pins[p].destroyed = IF wanted(p) THEN 0 ELSE 1

\* "This callback fails on files larger than 4 Kilobytes": a file of at most
\* that size gives its bytes, and the callback never gives a PIN for a retry.
FilesToFourKilobytes ==
    \A size \in {0, 1, 1024, 1025, 3072, 3073, 4095, 4096} :
        /\ p11_kit_pin_file_callback(size, FALSE) = {size}
        /\ p11_kit_pin_file_callback(size, TRUE) = {}
================================================================================
