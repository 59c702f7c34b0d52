------------------------------- MODULE TrustSlots -------------------------------
(***************************************************************************)
(* The tokens, slots and sessions of the trust module (trust/module.c),    *)
(* with several threads of a process that initialize and finalize it on    *)
(* their own.  TrustModule has the objects of one token; here the paths    *)
(* the module is given become tokens, and the calls about them run         *)
(* between the calls of other threads.                                     *)
(*                                                                         *)
(* A path is [name, prefix, writable]: the prefix of Labels it starts with *)
(* or "", and whether its directory can be written.  An argument is        *)
(* [name, value].                                                          *)
(***************************************************************************)
EXTENDS Naturals, Sequences, FiniteSets

CONSTANTS
    SlotThreads,   \* the threads
    Arguments,     \* the argument lists C_Initialize is given
    DefaultPaths,  \* TRUST_PATHS
    MaxHolds,      \* bound: initializations a thread holds
    MaxHandles     \* bound: sessions opened

VARIABLES
    gl,            \* [initialized, up, tokens, paths, sessions]
    handles,       \* the handles given out
    thread,        \* thread -> what it is doing: [pc, room]
    held,          \* thread -> initializations it holds
    known,         \* thread -> the tokens it was told of while it held one
    refused,       \* whether a call of C_Initialize was refused
    answer         \* the last answer: [call, thread, rv, out]

vars == <<gl, handles, thread, held, known, refused, answer>>

Ready == [pc |-> "ready", room |-> 0]

NothingUp ==
    [initialized |-> 0, up |-> FALSE, tokens |-> <<>>, paths |-> {}, sessions |-> {}]

BASE_SLOT_ID == 18

(***************************************************************************)
(* create_tokens_inlock: a label goes to the first path with its prefix;   *)
(* a later one keeps the flags of the prefix and is named after its base.  *)
(***************************************************************************)
Labels ==
    <<[prefix |-> "~/", label |-> "User Trust", protected |-> FALSE],
      [prefix |-> "datadir", label |-> "Default Trust", protected |-> TRUE],
      [prefix |-> "sysconfdir", label |-> "System Trust", protected |-> FALSE]>>

create_tokens_inlock(paths) ==
    LET given == SelectSeq(paths, LAMBDA p : p.name # "")
        prefixed(p) == {i \in DOMAIN Labels : Labels[i].prefix = p.prefix}
        claims(k) == {i \in prefixed(given[k]) : \A j \in 1..k - 1 : i \notin prefixed(given[j])}
        tokenOf(k) ==
            [slot |-> BASE_SLOT_ID + k - 1,
             path |-> given[k],
             label |-> IF claims(k) = {} THEN given[k].name
                       ELSE Labels[CHOOSE i \in claims(k) : TRUE].label,
             protected |-> \E i \in prefixed(given[k]) : Labels[i].protected]
    IN  [k \in DOMAIN given |-> tokenOf(k)]

\* The paths an argument gives; other arguments do not change the state.
parse_argument(paths, arg) == IF arg.name = "paths" THEN arg.value ELSE paths

p11_token_is_writable(token) == ~token.protected /\ token.path.writable

lookup_slot_inlock(id) ==
    IF ~gl.up THEN "CRYPTOKI_NOT_INITIALIZED"
    ELSE IF id < BASE_SLOT_ID \/ id - BASE_SLOT_ID >= Len(gl.tokens) THEN "SLOT_ID_INVALID"
    ELSE "OK"

check_slot(id) == lookup_slot_inlock(id) = "OK"

TokenAt(id) == gl.tokens[id - BASE_SLOT_ID + 1]

Answer(call, t, rv, out) == answer' = [call |-> call, thread |-> t, rv |-> rv, out |-> out]

(***************************************************************************)
(* C_Initialize counts a refused call as well, and takes it back in the    *)
(* C_Finalize it calls after it released the lock.                         *)
(***************************************************************************)
\* Mutant: any C_Finalize takes the module down.
FinalizedMutant == NothingUp

Finalized == IF gl.initialized = 1 THEN NothingUp
             ELSE [gl EXCEPT !.initialized = @ - 1]

sys_C_Initialize(t, args) ==
    LET parsed[i \in 0..Len(args.list)] ==
            IF i = 0 THEN gl.paths ELSE parse_argument(parsed[i - 1], args.list[i])
        paths == parsed[Len(args.list)]
        created == [gl EXCEPT !.up = TRUE, !.paths = paths,
                              !.tokens = create_tokens_inlock(
                                  IF paths = {} THEN DefaultPaths
                                  ELSE CHOOSE p \in paths : TRUE)]
    IN  /\ thread[t] = Ready
        /\ held[t] < MaxHolds
        /\ gl' = [IF args.ok /\ gl.initialized = 0 THEN created ELSE gl
                  EXCEPT !.initialized = @ + 1]
        /\ held' = [held EXCEPT ![t] = IF args.ok THEN @ + 1 ELSE @]
        /\ thread' = [thread EXCEPT ![t] =
                          IF args.ok THEN Ready ELSE [Ready EXCEPT !.pc = "undo"]]
        /\ refused' = (refused \/ ~args.ok)
        /\ Answer("C_Initialize", t, IF args.ok THEN "OK" ELSE "ARGUMENTS_BAD", {})
        /\ UNCHANGED <<handles, known>>

InitializeUndo(t) ==
    /\ thread[t].pc = "undo"
    /\ gl' = IF gl.initialized = 0 THEN gl ELSE Finalized
    /\ thread' = [thread EXCEPT ![t] = Ready]
    /\ UNCHANGED <<handles, held, known, refused, answer>>

sys_C_Finalize(t) ==
    /\ thread[t] = Ready
    /\ held[t] > 0
    /\ gl' = IF gl.initialized = 0 THEN gl ELSE Finalized
    /\ held' = [held EXCEPT ![t] = @ - 1]
    /\ known' = [known EXCEPT ![t] = IF held[t] = 1 THEN {} ELSE @]
    /\ Answer("C_Finalize", t, IF gl.initialized = 0 THEN "CRYPTOKI_NOT_INITIALIZED" ELSE "OK", {})
    /\ UNCHANGED <<handles, thread, refused>>

(***************************************************************************)
(* The calls of a thread that holds an initialization.                     *)
(***************************************************************************)
Calls(t) == thread[t] = Ready /\ held[t] > 0

Tells(call, t, rv, out) ==
    /\ Calls(t)
    /\ Answer(call, t, rv, IF rv = "OK" THEN out ELSE {})
    /\ UNCHANGED <<gl, handles, thread, held, known, refused>>

sys_C_GetInfo(t) ==
    Tells("C_GetInfo", t, IF gl.up THEN "OK" ELSE "CRYPTOKI_NOT_INITIALIZED", {"info"})

\* C_GetSlotList looks at the sessions in the lock, and reads the tokens
\* after it.  room is the length of the caller's buffer, 0 to ask for it.
sys_C_GetSlotList(t, room) ==
    /\ Calls(t)
    /\ thread' = IF gl.up THEN [thread EXCEPT ![t] = [pc |-> "slots", room |-> room]]
                 ELSE thread
    /\ IF gl.up THEN UNCHANGED answer
       ELSE Answer("C_GetSlotList", t, "CRYPTOKI_NOT_INITIALIZED", {})
    /\ UNCHANGED <<gl, handles, held, known, refused>>

\* Without tokens it reads through a NULL pointer: the answer is undefined.
SlotListRead(t) ==
    LET room == thread[t].room
        num == Len(gl.tokens)
    IN  /\ thread[t].pc = "slots"
        /\ thread' = [thread EXCEPT ![t] = Ready]
        /\ Answer("C_GetSlotList", t,
                  IF ~gl.up THEN "UNDEFINED"
                  ELSE IF room > 0 /\ room < num THEN "BUFFER_TOO_SMALL" ELSE "OK",
                  {})
        /\ known' = IF room < num THEN known
                    ELSE [known EXCEPT ![t] = {gl.tokens[i] : i \in 1..num}]
        /\ UNCHANGED <<gl, handles, held, refused>>

sys_C_GetSlotInfo(t, id) ==
    Tells("C_GetSlotInfo", t, lookup_slot_inlock(id),
          IF check_slot(id) THEN {TokenAt(id).path.name} ELSE {})

sys_C_GetTokenInfo(t, id) ==
    Tells("C_GetTokenInfo", t, lookup_slot_inlock(id),
          IF check_slot(id)
          THEN {TokenAt(id).label} \cup
               (IF p11_token_is_writable(TokenAt(id)) THEN {} ELSE {"WRITE_PROTECTED"})
          ELSE {})

sys_C_GetMechanismList(t) == Tells("C_GetMechanismList", t, "OK", {})

sys_C_GetMechanismInfo(t, id) ==
    Tells("C_GetMechanismInfo", t,
          IF check_slot(id) THEN "MECHANISM_INVALID" ELSE "SLOT_ID_INVALID", {})

sys_C_OpenSession(t, id, rw) ==
    LET rv == IF ~check_slot(id) THEN "SLOT_ID_INVALID"
              ELSE IF rw /\ ~p11_token_is_writable(TokenAt(id)) THEN "TOKEN_WRITE_PROTECTED"
              ELSE "OK"
    IN  /\ Calls(t)
        /\ handles < MaxHandles
        /\ handles' = IF rv = "OK" THEN handles + 1 ELSE handles
        /\ gl' = IF rv = "OK"
                 THEN [gl EXCEPT !.sessions =
                           @ \cup {[handle |-> handles + 1, slot |-> id, rw |-> rw]}]
                 ELSE gl
        /\ Answer("C_OpenSession", t, rv, IF rv = "OK" THEN {handles + 1} ELSE {})
        /\ UNCHANGED <<thread, held, known, refused>>

sys_C_CloseAllSessions(t, id) ==
    /\ Calls(t)
    /\ gl' = IF check_slot(id)
             THEN [gl EXCEPT !.sessions = {s \in @ : s.slot # id}] ELSE gl
    /\ Answer("C_CloseAllSessions", t, lookup_slot_inlock(id), {})
    /\ UNCHANGED <<handles, thread, held, known, refused>>

\* The state is that of a read-only session, whatever the session is.
sys_C_GetSessionInfo(t, handle) ==
    LET of == {s \in gl.sessions : s.handle = handle}
    IN  Tells("C_GetSessionInfo", t,
              IF ~gl.up THEN "CRYPTOKI_NOT_INITIALIZED"
              ELSE IF of = {} THEN "SESSION_HANDLE_INVALID" ELSE "OK",
              {s.slot : s \in of})

(***************************************************************************)
(* The calls that are always refused.                                      *)
(***************************************************************************)
Management ==
    [call \in {"C_InitToken", "C_WaitForSlotEvent", "C_InitPIN", "C_SetPIN",
               "C_GetOperationState", "C_SetOperationState"} |-> "FUNCTION_NOT_SUPPORTED"]

Parallel ==
    [call \in {"C_GetFunctionStatus", "C_CancelFunction"} |-> "SESSION_PARALLEL_NOT_SUPPORTED"]

\* There is no mechanism to begin with, so nothing is ever under way.
Ciphers ==
    [call \in {"C_EncryptInit", "C_DecryptInit", "C_DigestInit", "C_Encrypt", "C_EncryptUpdate",
               "C_EncryptFinal", "C_Decrypt", "C_DecryptUpdate", "C_DecryptFinal", "C_Digest",
               "C_DigestUpdate", "C_DigestKey", "C_DigestFinal"}
        |-> IF call \in {"C_EncryptInit", "C_DecryptInit", "C_DigestInit"}
            THEN "MECHANISM_INVALID" ELSE "OPERATION_NOT_INITIALIZED"]

Signatures ==
    [call \in {"C_SignInit", "C_SignRecoverInit", "C_VerifyInit", "C_VerifyRecoverInit", "C_Sign",
               "C_SignUpdate", "C_SignFinal", "C_SignRecover", "C_Verify", "C_VerifyUpdate",
               "C_VerifyFinal", "C_VerifyRecover"}
        |-> IF call \in {"C_SignInit", "C_SignRecoverInit", "C_VerifyInit", "C_VerifyRecoverInit"}
            THEN "MECHANISM_INVALID" ELSE "OPERATION_NOT_INITIALIZED"]

DualAndKeys ==
    [call \in {"C_DigestEncryptUpdate", "C_DecryptDigestUpdate", "C_SignEncryptUpdate",
               "C_DecryptVerifyUpdate", "C_GenerateKey", "C_GenerateKeyPair", "C_WrapKey",
               "C_UnwrapKey", "C_DeriveKey", "C_SeedRandom", "C_GenerateRandom"}
        |-> IF call \in {"C_SeedRandom", "C_GenerateRandom"} THEN "RANDOM_NO_RNG"
            ELSE IF call \in {"C_GenerateKey", "C_GenerateKeyPair", "C_WrapKey", "C_UnwrapKey",
                              "C_DeriveKey"} THEN "MECHANISM_INVALID"
            ELSE "OPERATION_NOT_INITIALIZED"]

Refuses(t) ==
    \E table \in {Management, Parallel, Ciphers, Signatures, DualAndKeys} :
        \E call \in DOMAIN table : Tells(call, t, table[call], {})

Init ==
    /\ gl = NothingUp
    /\ handles = 0
    /\ thread = [t \in SlotThreads |-> Ready]
    /\ held = [t \in SlotThreads |-> 0]
    /\ known = [t \in SlotThreads |-> {}]
    /\ refused = FALSE
    /\ answer = [call |-> "none", thread |-> "none", rv |-> "OK", out |-> {}]

Next ==
    \E t \in SlotThreads :
        \/ \E args \in Arguments : sys_C_Initialize(t, args)
        \/ InitializeUndo(t)
        \/ sys_C_Finalize(t)
        \/ sys_C_GetInfo(t)
        \/ \E room \in 0..3 : sys_C_GetSlotList(t, room)
        \/ SlotListRead(t)
        \/ sys_C_GetMechanismList(t) \/ Refuses(t)
        \/ \E id \in BASE_SLOT_ID - 1..BASE_SLOT_ID + 3 :
               \/ sys_C_GetSlotInfo(t, id) \/ sys_C_GetTokenInfo(t, id)
               \/ sys_C_GetMechanismInfo(t, id) \/ sys_C_CloseAllSessions(t, id)
               \/ \E rw \in BOOLEAN : sys_C_OpenSession(t, id, rw)
        \/ \E handle \in 1..MaxHandles : sys_C_GetSessionInfo(t, handle)

Spec == Init /\ [][Next]_vars

\* While a thread holds an initialization, and no call of C_Initialize was
\* refused, the module is up for it: no call finds it not initialized or reads
\* tokens that are gone, and the tokens it was told of keep their slots, their
\* labels and their protection.  A fixed label names one token, and a token
\* of the default prefix cannot be written, the second of it included.
SlotsStable ==
    /\ ~refused => \A t \in SlotThreads : held[t] > 0 =>
           /\ answer.thread = t => answer.rv \notin {"CRYPTOKI_NOT_INITIALIZED", "UNDEFINED"}
           /\ \A token \in known[t] : check_slot(token.slot) /\ TokenAt(token.slot) = token
    /\ \A i, j \in DOMAIN gl.tokens :
           /\ gl.tokens[i].label = gl.tokens[j].label /\ i # j
                  => \A l \in DOMAIN Labels : gl.tokens[i].label # Labels[l].label
           /\ gl.tokens[i].path.prefix = "datadir" => ~p11_token_is_writable(gl.tokens[i])

\* The calls of a process that holds an initialization find the module up,
\* whatever the calls of C_Initialize of others come to.
TrustIsUp == \A t \in SlotThreads : held[t] > 0 => gl.up
================================================================================
