--------------------------------- MODULE Filter ---------------------------------
(***************************************************************************)
(* The token filter (p11-kit/filter.c) and the serving of tokens by their  *)
(* URIs (p11_kit_remote_serve_tokens in p11-kit/rpc-server.c), while the   *)
(* tokens of the module below come and go.                                 *)
(*                                                                         *)
(* An entry is [token, wp]: the CK_TOKEN_INFO that was given, and whether  *)
(* its flags hold CKF_WRITE_PROTECTED.  A URI is [of, wp]: the tokens it   *)
(* matches and its write-protected query.  A slot of the filter is         *)
(* [slot, wp]: the slot of the module below and the flag of the entry that *)
(* let it in.                                                              *)
(***************************************************************************)
EXTENDS Naturals, Sequences, FiniteSets

CONSTANTS
    LowerSlots,    \* the slots of the module below: 1..n
    FilterTokens,  \* the tokens that may be in them
    NoToken,       \* an empty slot
    UriLists,      \* the lists of URIs a server may be started with
    MaxFilterSteps \* bound: calls and changes

VARIABLES
    lower,         \* slot -> the token in it
    filter,        \* [entries, allowed, initialized, slots]
    up,            \* whether the module below is initialized
    reached,       \* the call that went on to the module below: at most one
    seen,          \* lower when the slots of the filter were last listed
    taken          \* how many steps were taken

vars == <<lower, filter, up, reached, seen, taken>>

Step == taken < MaxFilterSteps /\ taken' = taken + 1

p11_filter_subclass ==
    [entries |-> <<>>, allowed |-> FALSE, initialized |-> FALSE, slots |-> <<>>]


filter_match_token(f, token) ==
    LET lets == {i \in DOMAIN f.entries : f.allowed = (f.entries[i].token = token)}
    IN  {f.entries[i] : i \in {i \in lets : \A j \in lets : i <= j}}

filter_add_slot(f, slot, entry) ==
    [f EXCEPT !.slots = Append(@, [slot |-> slot, wp |-> entry.wp])]

filter_ensure(f) ==
    LET of[s \in 0..Cardinality(LowerSlots)] ==
            IF s = 0 THEN [f EXCEPT !.slots = <<>>]
            ELSE LET match == IF lower[s] = NoToken THEN {}
                              ELSE filter_match_token(f, lower[s])
                 IN  IF match = {} THEN of[s - 1]
                     ELSE filter_add_slot(of[s - 1], s, CHOOSE e \in match : TRUE)
    IN  of[Cardinality(LowerSlots)]

filter_reinit(f) == [filter_ensure(f) EXCEPT !.initialized = TRUE]

(***************************************************************************)
(* What the filter is told to let in.                                      *)
(***************************************************************************)
p11_filter_allow_token(f, entry) ==
    LET with == [f EXCEPT !.allowed = TRUE, !.entries = Append(@, entry)]
    IN  IF ~f.allowed /\ f.entries # <<>> THEN f
        ELSE IF f.initialized THEN filter_reinit(with) ELSE with

p11_filter_deny_token(f, entry) ==
    LET with == [f EXCEPT !.allowed = FALSE, !.entries = Append(@, entry)]
    IN  IF f.allowed /\ f.entries # <<>> THEN f
        ELSE IF f.initialized THEN filter_reinit(with) ELSE with

Told(f) ==
    /\ Step
    /\ filter' = f
    /\ seen' = IF filter.initialized /\ f # filter THEN lower ELSE seen
    /\ reached' = {}
    /\ UNCHANGED <<lower, up>>

AllowToken(token, wp) == Told(p11_filter_allow_token(filter, [token |-> token, wp |-> wp]))

DenyToken(token, wp) == Told(p11_filter_deny_token(filter, [token |-> token, wp |-> wp]))

\* The entry of a token has the query of the URI that let it in.
token_set_write_protected(token, uri) == [token |-> token, wp |-> uri.wp]

\* One entry for every token there is and every URI that matches it.
p11_kit_remote_serve_tokens(uris) ==
    LET matching(token) == {i \in DOMAIN uris : token \in uris[i].of}
        allowed(f, token) ==
            LET g[i \in 0..Len(uris)] ==
                    IF i = 0 THEN f
                    ELSE IF i \notin matching(token) THEN g[i - 1]
                    ELSE p11_filter_allow_token(
                             g[i - 1], token_set_write_protected(token, uris[i]))
            IN  g[Len(uris)]
        served[s \in 0..Cardinality(LowerSlots)] ==
            IF s = 0 THEN p11_filter_subclass ELSE allowed(served[s - 1], lower[s])
    IN  /\ filter = p11_filter_subclass
        /\ Told(served[Cardinality(LowerSlots)])

(***************************************************************************)
(* The calls.                                                              *)
(***************************************************************************)
filter_C_Initialize ==
    /\ ~up
    /\ Step
    /\ up' = TRUE
    /\ filter' = filter_reinit(filter)
    /\ seen' = lower
    /\ reached' = {}
    /\ UNCHANGED lower

filter_C_Finalize ==
    /\ up
    /\ Step
    /\ up' = FALSE
    /\ filter' = p11_filter_subclass
    /\ reached' = {}
    /\ UNCHANGED <<lower, seen>>

\* What C_GetSlotList gives: the slots of a filter count from 0.
filter_C_GetSlotList == 0..(Len(filter.slots) - 1)

Forward(call, id, writes) ==
    /\ up
    /\ reached' = IF id \notin filter_C_GetSlotList THEN {}
                  ELSE IF writes /\ filter.slots[id + 1].wp THEN {}
                  ELSE {[call |-> call, slot |-> filter.slots[id + 1].slot, writes |-> writes]}
    /\ UNCHANGED <<lower, filter, up, seen, taken>>

filter_C_GetSlotInfo(id) == Forward("C_GetSlotInfo", id, FALSE)
filter_C_GetTokenInfo(id) == Forward("C_GetTokenInfo", id, FALSE)
filter_C_GetMechanismList(id) == Forward("C_GetMechanismList", id, FALSE)
filter_C_GetMechanismInfo(id) == Forward("C_GetMechanismInfo", id, FALSE)
filter_C_CloseAllSessions(id) == Forward("C_CloseAllSessions", id, FALSE)
filter_C_InitToken(id) == Forward("C_InitToken", id, TRUE)
filter_C_OpenSession(id, rw) == Forward("C_OpenSession", id, rw)

Replace(slot, token) ==
    /\ Step
    /\ lower' = [lower EXCEPT ![slot] = token]
    /\ reached' = {}
    /\ UNCHANGED <<filter, up, seen>>

Init ==
    /\ lower \in [LowerSlots -> FilterTokens \cup {NoToken}]
    /\ filter = p11_filter_subclass
    /\ up = FALSE
    /\ reached = {}
    /\ seen = [s \in LowerSlots |-> NoToken]
    /\ taken = 0

Next ==
    \/ \E token \in FilterTokens, wp \in BOOLEAN :
           AllowToken(token, wp) \/ DenyToken(token, wp)
    \/ \E uris \in UriLists : p11_kit_remote_serve_tokens(uris)
    \/ filter_C_Initialize
    \/ filter_C_Finalize
    \/ \E id \in 0..Cardinality(LowerSlots) :
           \/ filter_C_GetSlotInfo(id) \/ filter_C_GetTokenInfo(id)
           \/ filter_C_GetMechanismList(id) \/ filter_C_GetMechanismInfo(id)
           \/ filter_C_CloseAllSessions(id) \/ filter_C_InitToken(id)
           \/ \E rw \in BOOLEAN : filter_C_OpenSession(id, rw)
    \/ \E slot \in LowerSlots, token \in FilterTokens \cup {NoToken} : Replace(slot, token)

Spec == Init /\ [][Next]_vars

=================================================================================
