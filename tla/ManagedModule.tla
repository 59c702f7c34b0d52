--------------------------- MODULE ManagedModule ---------------------------
(***************************************************************************)
(* What p11-kit promises the callers that share managed PKCS#11 modules:    *)
(* a module is started before the first of them may use it and stopped only *)
(* when none of them uses it any more.                                      *)
(***************************************************************************)
CONSTANTS Callers, Shared

VARIABLES
    users,  \* for each shared module, the callers that have initialized it
    up      \* for each shared module, whether it is initialized

vars == <<users, up>>

Init ==
    /\ users = [m \in Shared |-> {}]
    /\ up = [m \in Shared |-> FALSE]

Start(m) ==
    /\ ~up[m] /\ users[m] = {}
    /\ up' = [up EXCEPT ![m] = TRUE]
    /\ UNCHANGED users

Join(c, m) ==
    /\ up[m] /\ c \notin users[m]
    /\ users' = [users EXCEPT ![m] = @ \cup {c}]
    /\ UNCHANGED up

Leave(c, m) ==
    /\ c \in users[m]
    /\ users' = [users EXCEPT ![m] = @ \ {c}]
    /\ UNCHANGED up

Stop(m) ==
    /\ up[m] /\ users[m] = {}
    /\ up' = [up EXCEPT ![m] = FALSE]
    /\ UNCHANGED users

\* The child of a fork() starts with modules nobody has initialized.
Restart ==
    /\ users' = [m \in Shared |-> {}]
    /\ up' = [m \in Shared |-> FALSE]

Next ==
    \/ Restart
    \/ \E m \in Shared :
          Start(m) \/ Stop(m) \/ \E c \in Callers : Join(c, m) \/ Leave(c, m)

Spec == Init /\ [][Next]_vars
=============================================================================
