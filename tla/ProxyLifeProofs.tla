--------------------------- MODULE ProxyLifeProofs ---------------------------
(***************************************************************************)
(* For any number of callers, Proxy objects and sessions: as long as no two *)
(* callers are in the part of C_Initialize or C_Finalize that creates or    *)
(* destroys a Proxy, the proxy stays there for a caller that has            *)
(* initialized it, and knows the sessions that are open.                    *)
(***************************************************************************)
EXTENDS ProxyLife, FiniteSetTheorems, TLAPS

Holding == {t \in Threads : holds[t] = 1}
Calling(t) == pc[t] \in {"slot", "opened", "session", "closed"}

\* Who creates or destroys a Proxy is alone, and a call uses the only Proxy
\* there is.
Exclusive ==
    /\ \A t \in Threads : holds[t] \in {0, 1}
    /\ \A t \in Threads : Initializing(t) =>
          px = 0 /\ \A u \in Threads : u # t => At(u, "idle")
    /\ px = 0 => \A t \in Threads : holds[t] = 0
    /\ \A t \in Threads : Calling(t) => holds[t] = 1 /\ py[t] = px

\* A Proxy has as many references as callers have initialized it.
Referenced ==
    /\ px # 0 => refs[px] = Cardinality(Holding)
    /\ \A t \in Threads : At(t, "install") => refs[py[t]] = 1

\* Which objects there are, and what is in them.
Objects ==
    /\ freed \subseteq 1 .. proxies
    /\ px \notin freed /\ px <= proxies
    /\ \A t \in Threads : At(t, "install") =>
          py[t] # 0 /\ py[t] <= proxies /\ py[t] \notin freed
                    /\ sessions[py[t]] = NoSessions
    /\ \A t \in Threads : At(t, "destroy") => py[t] # 0 /\ py[t] <= proxies
    /\ \A p \in Proxies : p > proxies => sessions[p] = NoSessions

\* The modules are initialized while there is a Proxy, and while the thread
\* is there that has just created it or is about to destroy it.
ModulesUp ==
    /\ px # 0 => up
    /\ px = 0 => up = \E t \in Threads : At(t, "install") \/ At(t, "destroy")
    /\ px = 0 /\ (\A t \in Threads : ~At(t, "destroy")) => open = {}

\* The sessions that calls have opened and not tracked yet, and the handles
\* of those they have closed and not forgotten yet.
Opened == {arg[t] : t \in {u \in Threads : At(u, "opened")}}
Closed == {Min(arg[t]) : t \in {u \in Threads : At(u, "closed")}}
Listed == {sessions[px][h] : h \in DOMAIN sessions[px] \ Closed}

\* A session has one handle, or is held by the call that has opened it.
Distinct ==
    /\ \A t \in Threads : At(t, "slot") => arg[t] \in Slots
    /\ \A t \in Threads : At(t, "opened") =>
          /\ arg[t] \in Session /\ arg[t].real_session <= real
          /\ \A u \in Threads : At(u, "opened") /\ u # t => arg[u] # arg[t]
          /\ \A h \in DOMAIN sessions[px] : sessions[px][h] # arg[t]
    /\ px # 0 => \A h \in DOMAIN sessions[px] :
          /\ h <= last_handle /\ sessions[px][h].real_session <= real
          /\ \A g \in DOMAIN sessions[px] : g # h => sessions[px][g] # sessions[px][h]
    /\ \A t \in Threads : At(t, "closed") => Min(arg[t]) \in 1 .. last_handle

Known == px # 0 => open = Listed \cup Opened

LInv == /\ TypeOK /\ Exclusive /\ Referenced /\ Objects /\ ModulesUp /\ Distinct
        /\ Known
-----------------------------------------------------------------------------
\* A step of one caller
Step(t) ==
    \/ Initialize(t) \/ Create(t) \/ CreateFails(t) \/ Install(t) \/ Destroy(t)
    \/ Finalize(t)
    \/ StartOpen(t) \/ OpenSession(t) \/ TrackSession(t)
    \/ StartClose(t) \/ CloseSession(t) \/ UntrackSession(t)
    \/ CloseAllSessions(t)

\* What a table of sessions is.
LEMMA TrackedIs ==
    ASSUME NEW f \in Tracked
    PROVE  /\ DOMAIN f \subseteq SessionHandles
           /\ \A h \in DOMAIN f : f[h] \in Session
           /\ f = [h \in DOMAIN f |-> f[h]]
  BY Zenon DEF Tracked

LEMMA IsTracked ==
    ASSUME NEW S \in SUBSET SessionHandles, NEW f \in [S -> Session]
    PROVE  f \in Tracked
  BY Zenon DEF Tracked

LEMMA EmptyTracked == NoSessions \in Tracked /\ DOMAIN NoSessions = {}
  <1>1. NoSessions \in [{} -> Session] /\ DOMAIN NoSessions = {}
    BY Zenon DEF NoSessions
  <1> QED BY <1>1, IsTracked, Zenon

\* How many callers have initialized the proxy.
LEMMA HoldingSize ==
    ASSUME ConstantsOK
    PROVE  /\ IsFiniteSet(Holding)
           /\ Cardinality(Holding) \in Nat
           /\ \A t \in Holding : /\ Cardinality(Holding) >= 1
                                 /\ Cardinality(Holding \ {t}) = Cardinality(Holding) - 1
                                 /\ Cardinality(Holding) = 1 => Holding = {t}
           /\ \A t \in Threads \ Holding : Cardinality(Holding \cup {t}) = Cardinality(Holding) + 1
  <1>1. IsFiniteSet(Holding)
    BY FS_Subset, Zenon DEF ConstantsOK, Holding
  <1>2. Cardinality(Holding) \in Nat
    BY <1>1, FS_CardinalityType, Zenon
  <1>3. ASSUME NEW t \in Holding
        PROVE  /\ Cardinality(Holding) >= 1
               /\ Cardinality(Holding \ {t}) = Cardinality(Holding) - 1
               /\ Cardinality(Holding) = 1 => Holding = {t}
    <2>1. IsFiniteSet(Holding \ {t}) /\ Cardinality(Holding \ {t}) = Cardinality(Holding) - 1
      BY <1>1, <1>3, FS_RemoveElement, Zenon
    <2>2. Cardinality(Holding \ {t}) \in Nat
      BY <2>1, FS_CardinalityType, Zenon
    <2>3. ASSUME Cardinality(Holding) = 1 PROVE Holding \ {t} = {}
      <3>1. Cardinality(Holding \ {t}) = 0
        BY <2>1, <2>3
      <3> QED BY <3>1, <2>1, FS_EmptySet, Zenon
    <2> QED BY <1>2, <1>3, <2>1, <2>2, <2>3
  <1>4. ASSUME NEW t \in Threads \ Holding
        PROVE  Cardinality(Holding \cup {t}) = Cardinality(Holding) + 1
    BY <1>1, <1>4, FS_AddElement, Zenon
  <1> QED BY <1>1, <1>2, <1>3, <1>4, Zenon

(* Every step of a call to the proxy keeps the types. *)
LEMMA TypeStep ==
    ASSUME ConstantsOK, ~Overlap, LInv, NEW t \in Threads, Step(t)
    PROVE  TypeOK'
  <1> USE DEF LInv, TypeOK, ConstantsOK, Steps, Proxies, SessionHandles, state, modules, At, Goto
  <1>1. CASE Initialize(t)
    <2>1. CASE px = 0
      BY <1>1, <2>1, Zenon DEF Initialize
    <2>2. CASE px # 0
      <3>1. refs' = [refs EXCEPT ![px] = @ + 1] /\ holds' = [holds EXCEPT ![t] = @ + 1]
        BY <1>1, <2>2, Zenon DEF Initialize, TakeReference
      <3>2. px \in Proxies
        BY <2>2, Zenon DEF Proxies
      <3>3. refs' \in [Proxies -> Nat] /\ holds' \in [Threads -> Nat]
        BY <3>1, <3>2
      <3> QED BY <1>1, <2>2, <3>3, SMTT(30) DEF Initialize
    <2> QED BY <2>1, <2>2, SMTT(30)
  <1>2. CASE Create(t)
    BY <1>2 DEF Create, ModulesInitialize
  <1>3. CASE CreateFails(t)
    BY <1>3, Zenon DEF CreateFails, ModulesFinalize, Return
  <1>4. CASE Install(t)
    <2>1. holds' \in [Threads -> Nat]
      BY <1>4 DEF Install
    <2> QED BY <1>4, <2>1, Zenon DEF Install, CanInstall, Return
  <1>5. CASE Destroy(t)
    <2>1. py[t] \in Proxies
      BY <1>5, Zenon DEF Destroy, Objects, Proxies
    <2> QED BY <1>5, <2>1, Zenon DEF Destroy, ModulesFinalize, Return
  <1>6. CASE Finalize(t)
    <2>1. holds[t] = 1 /\ px # 0 /\ px \in Proxies /\ refs[px] \in Nat \ {0}
      <3>1. holds[t] = 1 /\ px # 0
        BY <1>6 DEF Finalize, Exclusive
      <3>2. t \in Holding
        BY <3>1, Zenon DEF Holding
      <3>3. Cardinality(Holding) \in Nat /\ Cardinality(Holding) >= 1
        BY <3>2, HoldingSize, Zenon
      <3> QED BY <3>1, <3>3 DEF Referenced, Proxies
    <2>2. holds' \in [Threads -> Nat] /\ refs' \in [Proxies -> Nat]
      BY <1>6, <2>1 DEF Finalize
    <2>3. px' \in Proxies \cup {0} /\ pc' \in [Threads -> Steps] /\ py' \in [Threads -> Proxies \cup {0}]
      BY <1>6, <2>1, Zenon DEF Finalize
    <2> QED BY <1>6, <2>2, <2>3, Zenon DEF Finalize
  <1>7. CASE StartOpen(t)
    BY <1>7 DEF StartOpen, Start
  <1>8. CASE OpenSession(t)
    <2>1. CASE py[t] = 0
      BY <1>8, <2>1, Zenon DEF OpenSession, Return
    <2>2. CASE py[t] # 0
      <3> DEFINE sess == [real_session |-> real + 1, wrap_slot |-> arg[t]]
      <3>1. real' = real + 1 /\ real < MaxHandle /\ open' = open \cup {sess}
        BY <1>8, <2>2, Zenon DEF OpenSession
      <3>2. real' \in 0 .. MaxHandle
        BY <3>1
      <3>3. sess \in Session
        BY <3>1, <1>8 DEF OpenSession, Distinct, Session
      <3> QED BY <1>8, <2>2, <3>1, <3>2, <3>3, Zenon DEF OpenSession
    <2> QED BY <2>1, <2>2, Zenon
  <1>9. CASE TrackSession(t)
    <2>1. px # 0 /\ px \in Proxies /\ arg[t] \in Session
      BY <1>9 DEF TrackSession, Exclusive, Calling, Distinct, Proxies
    <2> DEFINE f == [h \in DOMAIN sessions[px] \cup {last_handle + 1} |->
                       IF h = last_handle + 1 THEN arg[t] ELSE sessions[px][h]]
    <2>2. last_handle + 1 \in SessionHandles /\ sessions' = [sessions EXCEPT ![px] = f]
          /\ last_handle' = last_handle + 1
      BY <1>9, <2>1, Zenon DEF TrackSession, NewHandle
    <2>3. f \in Tracked
      <3>1. sessions[px] \in Tracked
        BY <2>1, Zenon
      <3>2. DOMAIN sessions[px] \cup {last_handle + 1} \in SUBSET SessionHandles
        BY <2>2, <3>1, TrackedIs, Zenon
      <3>3. f \in [DOMAIN sessions[px] \cup {last_handle + 1} -> Session]
        BY <2>1, <3>1, TrackedIs, Zenon
      <3> QED BY <3>2, <3>3, IsTracked, Zenon
    <2>4. sessions' \in [Proxies -> Tracked]
      BY <2>1, <2>2, <2>3, Zenon
    <2> QED BY <1>9, <2>2, <2>4, SMTT(30) DEF TrackSession, Return
  <1>10. CASE StartClose(t)
    BY <1>10 DEF StartClose, Start
  <1>11. CASE CloseSession(t)
    BY <1>11, ZenonT(40) DEF CloseSession, CloseNext, Return
  <1>12. CASE UntrackSession(t)
    <2>1. px # 0 /\ px \in Proxies
      BY <1>12 DEF UntrackSession, Exclusive, Calling, Proxies
    <2> DEFINE f == Restrict(sessions[px], DOMAIN sessions[px] \ {Min(arg[t])})
    <2>2. sessions' = [sessions EXCEPT ![px] = f]
      BY <1>12, <2>1, Zenon DEF UntrackSession, Untrack
    <2>3. f \in Tracked
      <3>1. sessions[px] \in Tracked
        BY <2>1, Zenon
      <3>2. DOMAIN sessions[px] \ {Min(arg[t])} \in SUBSET SessionHandles
        BY <3>1, TrackedIs, Zenon
      <3>3. f \in [DOMAIN sessions[px] \ {Min(arg[t])} -> Session]
        BY <3>1, TrackedIs, Zenon DEF Restrict
      <3> QED BY <3>2, <3>3, IsTracked, Zenon
    <2>4. sessions' \in [Proxies -> Tracked]
      BY <2>1, <2>2, <2>3, Zenon
    <2> QED BY <1>12, <2>4, Zenon DEF UntrackSession, CloseNext, Return
  <1>13. CASE CloseAllSessions(t)
    BY <1>13 DEF CloseAllSessions, Start
  <1> QED BY <1>1, <1>2, <1>3, <1>4, <1>5, <1>6, <1>7, <1>8, <1>9, <1>10,
             <1>11, <1>12, <1>13,
             Zenon DEF Step

\* The steps of the calls that use the proxy, and not its life
CallStep(t) ==
    \/ StartOpen(t) \/ OpenSession(t) \/ TrackSession(t)
    \/ StartClose(t) \/ CloseSession(t) \/ UntrackSession(t)
    \/ CloseAllSessions(t)

\* What a thread keeps when others take steps
Untouched(u) ==
    pc'[u] = pc[u] /\ py'[u] = py[u] /\ arg'[u] = arg[u] /\ holds'[u] = holds[u]

(* A step of one caller leaves the calls of the others alone.                *)
LEMMA OthersUntouched ==
    ASSUME TypeOK, NEW t \in Threads, Step(t), NEW u \in Threads, u # t
    PROVE  Untouched(u)
  <1> USE DEF Untouched, TypeOK, Goto
  <1>1. CASE Initialize(t) \/ Create(t) \/ CreateFails(t)
    BY <1>1, Zenon DEF Initialize, Create, CreateFails, Return
  <1>2. CASE Install(t) \/ Destroy(t) \/ Finalize(t)
    BY <1>2, Zenon DEF Install, Destroy, Finalize, Return
  <1>3. CASE StartOpen(t) \/ StartClose(t) \/ CloseAllSessions(t)
    BY <1>3, Zenon DEF StartOpen, StartClose, CloseAllSessions, Start
  <1>4. CASE OpenSession(t) \/ TrackSession(t)
    BY <1>4, Zenon DEF OpenSession, TrackSession, Return
  <1>5. CASE CloseSession(t) \/ UntrackSession(t)
    BY <1>5, Zenon DEF CloseSession, UntrackSession, CloseNext, Return
  <1> QED BY <1>1, <1>2, <1>3, <1>4, <1>5, Zenon DEF Step

(* A call that uses the proxy happens while there is one, and leaves its     *)
(* life alone.                                                               *)
LEMMA InCall ==
    ASSUME LInv, NEW t \in Threads, CallStep(t)
    PROVE  /\ px # 0 /\ px \in Proxies /\ sessions[px] \in Tracked /\ holds[t] = 1
           /\ px' = px /\ refs' = refs /\ proxies' = proxies /\ freed' = freed
           /\ up' = up /\ holds' = holds
           /\ pc[t] # "idle" => py[t] = px
           /\ pc'[t] \in {"idle", "slot", "opened", "session", "closed"}
           /\ pc'[t] # "idle" => py'[t] = px
  <1> USE DEF LInv, TypeOK, Exclusive, Calling, state, modules, At, Goto
  <1>1. px # 0 /\ holds[t] = 1 /\ (pc[t] # "idle" => py[t] = px)
    <2>1. CASE StartOpen(t) \/ StartClose(t) \/ CloseAllSessions(t)
      BY <2>1 DEF StartOpen, StartClose, CloseAllSessions, Start
    <2>2. CASE OpenSession(t) \/ TrackSession(t) \/ CloseSession(t) \/ UntrackSession(t)
      <3>1. Calling(t)
        BY <2>2, Zenon
           DEF OpenSession, TrackSession, CloseSession, UntrackSession
      <3> QED BY <3>1
    <2> QED BY <2>1, <2>2, Zenon DEF CallStep
  <1>2. px \in Proxies
    BY <1>1, Zenon
  <1>3. sessions[px] \in Tracked
    BY <1>2, Zenon
  <1>4. /\ px' = px /\ refs' = refs /\ proxies' = proxies /\ freed' = freed
        /\ up' = up /\ holds' = holds
    <2>1. CASE StartOpen(t) \/ StartClose(t) \/ CloseAllSessions(t)
      BY <2>1, Zenon DEF StartOpen, StartClose, CloseAllSessions, Start
    <2>2. CASE OpenSession(t) \/ CloseSession(t)
      BY <2>2, Zenon DEF OpenSession, CloseSession
    <2>3. CASE TrackSession(t) \/ UntrackSession(t)
      BY <2>3, Zenon DEF TrackSession, UntrackSession
    <2> QED BY <2>1, <2>2, <2>3, Zenon DEF CallStep
  <1>5. /\ pc'[t] \in {"idle", "slot", "opened", "session", "closed"}
        /\ pc'[t] # "idle" => py'[t] = px
    <2>1. CASE StartOpen(t) \/ StartClose(t) \/ CloseAllSessions(t)
      BY <2>1, <1>1, Zenon DEF StartOpen, StartClose, CloseAllSessions, Start
    <2>2. CASE OpenSession(t) \/ TrackSession(t)
      BY <2>2, <1>1, Zenon DEF OpenSession, TrackSession, Return
    <2>3. CASE CloseSession(t)
      BY <2>3, <1>1, Zenon DEF CloseSession, CloseNext, Return
    <2>4. CASE UntrackSession(t)
      BY <2>4, <1>1, Zenon DEF UntrackSession, CloseNext, Return
    <2> QED BY <2>1, <2>2, <2>3, <2>4, Zenon DEF CallStep
  <1> QED BY <1>1, <1>2, <1>3, <1>4, <1>5, Zenon

\* What the steps of C_Initialize and C_Finalize do
Joins(t) ==
    /\ px # 0 /\ holds[t] = 0 /\ holds'[t] = 1 /\ pc'[t] = "idle" /\ pc[t] = "idle"
    /\ refs' = [refs EXCEPT ![px] = @ + 1] /\ px' = px
    /\ UNCHANGED <<sessions, last_handle, proxies, freed, up, open, real>>
Begins(t) ==
    /\ px = 0 /\ px' = 0 /\ pc[t] = "idle" /\ pc'[t] = "create" /\ holds'[t] = 0
    /\ UNCHANGED <<refs, sessions, last_handle, proxies, freed, up, open, real>>
Creates(t) ==
    /\ px = 0 /\ px' = 0 /\ pc'[t] = "install" /\ holds'[t] = 0 /\ pc[t] = "create"
    /\ proxies + 1 \in Proxies /\ proxies' = proxies + 1 /\ py'[t] = proxies + 1
    /\ refs' = [refs EXCEPT ![proxies + 1] = 1] /\ up' /\ open' = open
    /\ UNCHANGED <<sessions, last_handle, freed, real>>
Undoes(t) ==
    /\ px = 0 /\ px' = 0 /\ pc[t] \in {"create", "destroy"} /\ pc'[t] = "idle"
    /\ holds'[t] = 0 /\ ~up' /\ open' = {}
    /\ freed' = IF pc[t] = "create" THEN freed ELSE freed \cup {py[t]}
    /\ UNCHANGED <<refs, sessions, last_handle, proxies, real>>
Installs(t) ==
    /\ px = 0 /\ pc[t] = "install" /\ px' = py[t] /\ py[t] \in Proxies
    /\ holds'[t] = 1 /\ pc'[t] = "idle"
    /\ UNCHANGED <<refs, sessions, last_handle, proxies, freed, up, open, real>>
Leaves(t) ==
    /\ px # 0 /\ holds[t] = 1 /\ holds'[t] = 0 /\ pc'[t] = "idle" /\ refs[px] # 1
    /\ refs' = [refs EXCEPT ![px] = @ - 1] /\ px' = px /\ pc[t] = "idle"
    /\ UNCHANGED <<sessions, last_handle, proxies, freed, up, open, real>>
Ends(t) ==
    /\ px # 0 /\ holds[t] = 1 /\ holds'[t] = 0 /\ refs[px] = 1 /\ pc'[t] = "destroy"
    /\ refs' = [refs EXCEPT ![px] = @ - 1] /\ px' = 0 /\ py'[t] = px
    /\ UNCHANGED <<sessions, last_handle, proxies, freed, up, open, real>>
Alone(t) == \A u \in Threads : u # t => pc[u] = "idle" /\ holds[u] = 0

(* A step of one caller is a step of a call that uses the proxy, or one of   *)
(* seven things that happen to the proxy; a Proxy is created, installed and  *)
(* destroyed while the other callers are elsewhere.                          *)
LEMMA WhatHappens ==
    ASSUME ConstantsOK, ~Overlap, LInv, NEW t \in Threads, Step(t)
    PROVE  \/ CallStep(t) \/ Joins(t) \/ Leaves(t)
           \/ (Begins(t) \/ Creates(t) \/ Undoes(t) \/ Installs(t) \/ Ends(t)) /\ Alone(t)
  <1> USE DEF LInv, TypeOK, Exclusive, state, modules, At, Goto
  <1>0. ASSUME Initializing(t)
        PROVE  px = 0 /\ Alone(t) /\ holds[t] = 0
    BY <1>0, Zenon DEF Alone
  <1>1. CASE Initialize(t)
    <2>1. CASE px = 0
      <3>1. \A u \in Threads : pc[u] = "idle"
        BY <1>1, <2>1 DEF Initialize, Initializing, Calling, Steps
      <3>2. Alone(t)
        BY <2>1, <3>1, Zenon DEF Alone
      <3>3. Begins(t)
        BY <1>1, <2>1, Zenon DEF Initialize, Begins
      <3> QED BY <3>2, <3>3, Zenon
    <2>2. CASE px # 0
      BY <1>1, <2>2 DEF Initialize, TakeReference, Joins
    <2> QED BY <2>1, <2>2, Zenon
  <1>2. CASE Create(t)
    <2>1. Initializing(t)
      BY <1>2, Zenon DEF Create, Initializing
    <2>2. Creates(t)
      BY <1>0, <1>2, <2>1 DEF Create, ModulesInitialize, Creates, ConstantsOK,
         Proxies
    <2> QED BY <1>0, <2>1, <2>2, Zenon
  <1>3. CASE CreateFails(t)
    <2>1. Initializing(t)
      BY <1>3, Zenon DEF CreateFails, Initializing
    <2>2. Undoes(t)
      BY <1>0, <1>3, <2>1, Zenon
         DEF CreateFails, ModulesFinalize, Return, Undoes
    <2> QED BY <1>0, <2>1, <2>2, Zenon
  <1>4. CASE Install(t)
    <2>1. Initializing(t)
      BY <1>4, Zenon DEF Install, Initializing
    <2>2. py[t] \in Proxies
      BY <1>4 DEF Install, Objects
    <2>3. Installs(t)
      BY <1>0, <1>4, <2>1, <2>2 DEF Install, CanInstall, Return, Installs
    <2> QED BY <1>0, <2>1, <2>3, Zenon
  <1>5. CASE Destroy(t)
    <2>1. Initializing(t)
      BY <1>5, Zenon DEF Destroy, Initializing
    <2>2. Undoes(t)
      BY <1>0, <1>5, <2>1, Zenon DEF Destroy, ModulesFinalize, Return, Undoes
    <2> QED BY <1>0, <2>1, <2>2, Zenon
  <1>6. CASE Finalize(t)
    <2>1. pc[t] = "idle" /\ holds[t] = 1 /\ px # 0 /\ holds'[t] = 0
      BY <1>6 DEF Finalize
    <2>2. CASE refs[px] = 1
      <3>1. t \in Holding
        BY <2>1, Zenon DEF Holding
      <3>2. Cardinality(Holding) = 1
        BY <2>1, <2>2, Zenon DEF Referenced
      <3>3. Holding = {t}
        BY <3>1, <3>2, HoldingSize, Zenon
      <3>4. \A u \in Threads : u # t => holds[u] = 0
        BY <3>3, Zenon DEF Holding
      <3>5. \A u \in Threads : u # t => pc[u] = "idle"
        BY <2>1, <3>4 DEF Initializing, Calling, Steps
      <3>6. Ends(t)
        BY <1>6, <2>1, <2>2, Zenon DEF Finalize, Ends
      <3> QED BY <3>4, <3>5, <3>6, Zenon DEF Alone
    <2>3. CASE refs[px] # 1
      BY <1>6, <2>1, <2>3, SMTT(30) DEF Finalize, Leaves
    <2> QED BY <2>2, <2>3, Zenon
  <1> QED BY <1>1, <1>2, <1>3, <1>4, <1>5, <1>6, Zenon DEF Step, CallStep

(* Every step leaves one caller alone with what it creates or destroys.     *)
LEMMA ExclusiveStep ==
    ASSUME ConstantsOK, ~Overlap, LInv, NEW t \in Threads, Step(t)
    PROVE  Exclusive'
  <1>0. /\ \A u \in Threads : u # t => Untouched(u)
        /\ Exclusive
    BY OthersUntouched, Zenon DEF LInv
  <1> USE DEF Untouched, At, Exclusive, Initializing, Calling
  <1>1. CASE CallStep(t)
    BY <1>0, <1>1, InCall, ZenonT(40)
  <1>2. CASE Joins(t)
    BY <1>0, <1>2, Zenon DEF Joins
  <1>3. CASE Leaves(t)
    BY <1>0, <1>3, Zenon DEF Leaves
  <1>4. CASE Begins(t) /\ Alone(t)
    BY <1>0, <1>4 DEF Begins, Alone
  <1>5. CASE Creates(t) /\ Alone(t)
    BY <1>0, <1>5 DEF Creates, Alone
  <1>6. CASE Undoes(t) /\ Alone(t)
    BY <1>0, <1>6, Zenon DEF Undoes, Alone
  <1>7. CASE Installs(t) /\ Alone(t)
    <2>1. px' # 0
      BY <1>7 DEF Installs, Proxies
    <2>2. pc'[t] = "idle" /\ holds'[t] = 1
      BY <1>7, Zenon DEF Installs
    <2>3. \A u \in Threads : u # t => pc'[u] = "idle" /\ holds'[u] = 0
      BY <1>0, <1>7, Zenon DEF Alone
    <2> QED BY <2>1, <2>2, <2>3, Zenon
  <1>8. CASE Ends(t) /\ Alone(t)
    BY <1>0, <1>8 DEF Ends, Alone
  <1> QED BY <1>1, <1>2, <1>3, <1>4, <1>5, <1>6, <1>7, <1>8, WhatHappens, Zenon

(* Every step keeps the references of a Proxy what its callers hold.        *)
LEMMA ReferencedStep ==
    ASSUME ConstantsOK, ~Overlap, LInv, NEW t \in Threads, Step(t)
    PROVE  Referenced'
  <1> USE DEF LInv, TypeOK, Untouched, At, Exclusive, Initializing, Calling, Referenced
  <1>0. \A u \in Threads : u # t => Untouched(u)
    BY OthersUntouched, Zenon
  <1>1. CASE CallStep(t)
    <2>1. Holding' = Holding
      BY <1>1, InCall, Zenon DEF Holding
    <2> QED BY <1>0, <1>1, <2>1, InCall, Zenon
  <1>2. CASE Joins(t)
    <2>1. t \in Threads \ Holding /\ Holding' = Holding \cup {t}
      BY <1>0, <1>2 DEF Holding, Joins
    <2>2. Cardinality(Holding') = Cardinality(Holding) + 1
      BY <2>1, HoldingSize, Zenon
    <2>3. refs'[px] = refs[px] + 1
      BY <1>2, Zenon DEF Joins
    <2> QED BY <1>0, <1>2, <2>2, <2>3, Zenon DEF Joins
  <1>3. CASE Leaves(t)
    <2>1. t \in Holding /\ Holding' = Holding \ {t}
      BY <1>0, <1>3 DEF Holding, Leaves
    <2>2. Cardinality(Holding') = Cardinality(Holding) - 1
      BY <2>1, HoldingSize, Zenon
    <2>3. refs'[px] = refs[px] - 1
      BY <1>3, Zenon DEF Leaves
    <2> QED BY <1>0, <1>3, <2>2, <2>3, Zenon DEF Leaves
  <1>4. CASE Begins(t) /\ Alone(t)
    <2>1. Holding' = Holding
      BY <1>0, <1>4 DEF Holding, Begins, Alone
    <2> QED BY <1>0, <1>4, <2>1, Zenon DEF Begins, Alone
  <1>5. CASE Creates(t) /\ Alone(t)
    <2>1. Holding' = Holding
      BY <1>0, <1>5 DEF Holding, Creates, Alone
    <2> QED BY <1>0, <1>5, <2>1 DEF Creates, Alone
  <1>6. CASE Undoes(t) /\ Alone(t)
    <2>1. Holding' = Holding
      BY <1>0, <1>6 DEF Holding, Undoes, Alone
    <2> QED BY <1>0, <1>6, <2>1, Zenon DEF Undoes, Alone
  <1>7. CASE Installs(t) /\ Alone(t)
    <2>1. Holding' = {t}
      BY <1>0, <1>7 DEF Holding, Installs, Alone
    <2>2. Cardinality({t}) = 1
      BY FS_Singleton, Zenon
    <2> QED BY <1>0, <1>7, <2>1, <2>2, Zenon DEF Installs, Alone
  <1>8. CASE Ends(t) /\ Alone(t)
    BY <1>0, <1>8, Zenon DEF Ends, Alone
  <1> QED BY <1>1, <1>2, <1>3, <1>4, <1>5, <1>6, <1>7, <1>8, WhatHappens, Zenon

(* State.px is one of the objects created so far.                           *)
LEMMA ProxyCreated ==
    ASSUME ConstantsOK, LInv
    PROVE  px \in Nat /\ proxies \in Nat /\ px <= proxies
  BY DEF LInv, TypeOK, Objects, Proxies, ConstantsOK

(* Every step keeps the Proxy in use away from the freed ones.              *)
LEMMA ObjectsStep ==
    ASSUME ConstantsOK, ~Overlap, LInv, NEW t \in Threads, Step(t)
    PROVE  Objects'
  <1>0. \A u \in Threads : u # t => Untouched(u)
    BY OthersUntouched, Zenon DEF LInv
  <1>a. ASSUME CallStep(t) \/ Joins(t) \/ Leaves(t)
        PROVE  /\ px' = px /\ proxies' = proxies /\ freed' = freed
               /\ ~Initializing(t)' /\ px # 0
    <2>1. CASE CallStep(t)
      BY <2>1, InCall, Zenon DEF Initializing, At
    <2>2. CASE Joins(t) \/ Leaves(t)
      BY <2>2, Zenon DEF Joins, Leaves, Initializing, At
    <2> QED BY <1>a, <2>1, <2>2, Zenon
  <1>b. ASSUME CallStep(t) \/ Joins(t) \/ Leaves(t)
        PROVE  \A u \in Threads : ~At(u, "install")' /\ ~At(u, "destroy")'
    <2>1. Exclusive
      BY Zenon DEF LInv
    <2> QED BY <1>0, <1>a, <1>b, <2>1, Zenon DEF Exclusive, Initializing, At,
               Untouched
  <1>c. ASSUME Joins(t) \/ Leaves(t)
        PROVE  sessions' = sessions
    BY <1>c, Zenon DEF Joins, Leaves
  <1> USE DEF LInv, TypeOK, Untouched, At, ConstantsOK, Objects, Proxies
  <1>1. CASE CallStep(t)
    <2>1. ASSUME NEW p \in Proxies, p # px PROVE sessions'[p] = sessions[p]
      <3>1. CASE UNCHANGED sessions
        BY <3>1, Zenon
      <3>2. CASE TrackSession(t)
        BY <2>1, <3>2, Zenon DEF TrackSession
      <3>3. CASE UntrackSession(t)
        BY <2>1, <3>3, Zenon DEF UntrackSession, Untrack
      <3> QED BY <1>1, <3>1, <3>2, <3>3, Zenon
                 DEF CallStep, StartOpen, StartClose,
                 CloseAllSessions,
                    Start, OpenSession, CloseSession, state
    <2>2. \A p \in Proxies : p > proxies => p # px
      <3>1. px \in Nat /\ proxies \in Nat /\ px <= proxies
        BY ProxyCreated, Zenon
      <3> HIDE DEF LInv, TypeOK, Objects
      <3> QED BY <3>1 DEF Proxies
    <2> QED BY <1>1, <1>a, <1>b, <2>1, <2>2, Zenon
  <1>2. CASE Joins(t) \/ Leaves(t)
    <2>1. Objects
      BY Zenon
    <2> HIDE DEF LInv, TypeOK
    <2> QED BY <1>2, <1>a, <1>b, <1>c, <2>1, Zenon
  <1>3. CASE Begins(t) /\ Alone(t)
    BY <1>0, <1>3, Zenon DEF Begins, Alone
  <1>4. CASE Creates(t) /\ Alone(t)
    <2>1. /\ px' = px /\ freed' = freed /\ sessions' = sessions /\ px = 0
          /\ proxies' = proxies + 1 /\ proxies + 1 \in Proxies
      BY <1>4, Zenon DEF Creates
    <2>2. \A u \in Threads : pc'[u] # "idle" => u = t
      BY <1>0, <1>4, Zenon DEF Alone
    <2>3. pc'[t] = "install" /\ py'[t] = proxies + 1
      BY <1>4, Zenon DEF Creates
    <2>4. freed \subseteq 1 .. proxies' /\ proxies + 1 \notin freed
      BY <2>1
    <2>5. sessions[proxies + 1] = NoSessions
      BY <2>1
    <2>6. \A p \in Proxies : p > proxies' => sessions'[p] = NoSessions
      BY <2>1
    <2>7. ASSUME NEW u \in Threads, At(u, "install")'
          PROVE  py'[u] # 0 /\ py'[u] <= proxies' /\ py'[u] \notin freed'
                 /\ sessions'[py'[u]] = NoSessions
      BY <2>1, <2>2, <2>3, <2>4, <2>5, <2>7, SMTT(30)
    <2>8. \A u \in Threads : ~At(u, "destroy")'
      BY <2>2, <2>3, Zenon
    <2>9. freed' \subseteq 1 .. proxies' /\ px' \notin freed' /\ px' <= proxies'
      BY <2>1, <2>4
    <2> QED BY <2>6, <2>7, <2>8, <2>9, SMTT(30)
  <1>5. CASE Undoes(t) /\ Alone(t)
    <2>1. \A u \in Threads : ~At(u, "install")' /\ ~At(u, "destroy")'
      BY <1>0, <1>5, Zenon DEF Undoes, Alone
    <2>2. px' = 0 /\ proxies' = proxies /\ sessions' = sessions
      BY <1>5, Zenon DEF Undoes
    <2>3. freed' \subseteq 1 .. proxies
      <3>1. CASE pc[t] = "create"
        BY <1>5, <3>1, Zenon DEF Undoes
      <3>2. CASE pc[t] # "create"
        <4>1. freed' = freed \cup {py[t]} /\ pc[t] = "destroy"
          BY <1>5, <3>2, Zenon DEF Undoes
        <4>2. py[t] \in 1 .. proxies
          BY <4>1
        <4> QED BY <4>1, <4>2, Zenon
      <3> QED BY <3>1, <3>2, Zenon
    <2>4. px' \notin freed' /\ px' <= proxies'
      BY <2>2, <2>3
    <2> QED BY <2>1, <2>2, <2>3, <2>4, Zenon
  <1>6. CASE Installs(t) /\ Alone(t)
    BY <1>0, <1>6, Zenon DEF Installs, Alone
  <1>7. CASE Ends(t) /\ Alone(t)
    <2>1. proxies' = proxies /\ freed' = freed /\ sessions' = sessions /\ px' = 0
      BY <1>7, Zenon DEF Ends
    <2>2. \A u \in Threads : pc'[u] # "idle" => u = t
      BY <1>0, <1>7, Zenon DEF Alone
    <2>3. pc'[t] = "destroy" /\ py'[t] = px /\ px # 0
      BY <1>7, Zenon DEF Ends
    <2>4. \A u \in Threads : ~At(u, "install")'
      BY <2>2, <2>3, Zenon
    <2>5. \A u \in Threads : At(u, "destroy")' => py'[u] # 0 /\ py'[u] <= proxies'
      BY <2>1, <2>2, <2>3, Zenon
    <2>6. px' \notin freed' /\ px' <= proxies'
      BY <2>1
    <2> QED BY <2>1, <2>4, <2>5, <2>6, ZenonT(40)
  <1> QED BY <1>1, <1>2, <1>3, <1>4, <1>5, <1>6, <1>7, WhatHappens, Zenon

(* Every step keeps the modules initialized as long as there is a Proxy.    *)
LEMMA ModulesUpStep ==
    ASSUME ConstantsOK, ~Overlap, LInv, NEW t \in Threads, Step(t)
    PROVE  ModulesUp'
  <1> USE DEF LInv, TypeOK, Untouched, At, ModulesUp
  <1>0. \A u \in Threads : u # t => Untouched(u)
    BY OthersUntouched, Zenon
  <1>1. CASE CallStep(t)
    BY <1>0, <1>1, InCall, ZenonT(40)
  <1>2. CASE Joins(t)
    BY <1>0, <1>2, Zenon DEF Joins
  <1>3. CASE Leaves(t)
    BY <1>0, <1>3, Zenon DEF Leaves
  <1>4. CASE Begins(t) /\ Alone(t)
    <2>1. UNCHANGED <<px, up, open>> /\ pc[t] = "idle" /\ pc'[t] = "create" /\ px = 0
      BY <1>4, Zenon DEF Begins
    <2>2. \A u \in Threads : u # t => pc[u] = "idle" /\ pc'[u] = "idle"
      BY <1>0, <1>4, Zenon DEF Alone
    <2>3. \A u \in Threads : pc[u] \notin {"install", "destroy"} /\ pc'[u] \notin {"install", "destroy"}
      BY <2>1, <2>2, Zenon
    <2> QED BY <2>1, <2>3, Zenon
  <1>5. CASE Creates(t) /\ Alone(t)
    BY <1>0, <1>5, Zenon DEF Creates, Alone
  <1>6. CASE Undoes(t) /\ Alone(t)
    <2>1. px' = 0 /\ ~up' /\ open' = {} /\ pc'[t] = "idle"
      BY <1>6, SMTT(30) DEF Undoes
    <2>2. \A u \in Threads : u # t => pc'[u] = "idle"
      BY <1>0, <1>6, Zenon DEF Alone
    <2>3. up' = FALSE
      BY <1>6, TypeStep, Zenon DEF Undoes
    <2> QED BY <2>1, <2>2, <2>3, Zenon
  <1>7. CASE Installs(t) /\ Alone(t)
    <2>1. px' # 0
      BY <1>7 DEF Installs, Proxies
    <2>2. up' /\ px = 0 /\ pc[t] = "install"
      BY <1>7, Zenon DEF Installs
    <2> QED BY <2>1, <2>2, Zenon
  <1>8. CASE Ends(t) /\ Alone(t)
    BY <1>0, <1>8, Zenon DEF Ends, Alone
  <1> QED BY <1>1, <1>2, <1>3, <1>4, <1>5, <1>6, <1>7, <1>8, WhatHappens, Zenon

\* The calls that hold a session or a handle stay where they are.
SameCalls ==
    \A u \in Threads :
        pc'[u] \in {"opened", "closed"} \/ pc[u] \in {"opened", "closed"} =>
            pc'[u] = pc[u] /\ arg'[u] = arg[u]

LEMMA SameKnown ==
    ASSUME Known, Distinct, px' = px, sessions' = sessions, last_handle' = last_handle,
           real' = real, open' = open, SameCalls,
           \A u \in Threads : At(u, "slot")' => arg'[u] \in Slots
    PROVE  Known' /\ Distinct'
  <1>1. Opened' = Opened
    BY Zenon DEF Opened, SameCalls, At
  <1>2. Closed' = Closed
    BY Zenon DEF Closed, SameCalls, At
  <1>3. Listed' = Listed
    BY <1>2, Zenon DEF Listed
  <1>4. Known'
    BY <1>1, <1>3, Zenon DEF Known
  <1>5. Distinct'
    BY DEF Distinct, SameCalls, At
  <1> QED BY <1>4, <1>5, Zenon

(* Nothing is open, and nothing in a call, when a Proxy is new or is gone.   *)
LEMMA NothingKnown ==
    ASSUME \A u \in Threads : pc'[u] \notin {"slot", "opened", "closed"},
           px' # 0 => sessions'[px'] = NoSessions /\ open' = {}
    PROVE  Known' /\ Distinct'
  <1>1. px' # 0 => DOMAIN sessions'[px'] = {}
    BY EmptyTracked, Zenon
  <1>2. Opened' = {}
    BY Zenon DEF Opened, At
  <1>3. px' # 0 => Listed' = {}
    BY <1>1, Zenon DEF Listed
  <1>4. Known'
    BY <1>2, <1>3, ZenonT(40) DEF Known
  <1>5. Distinct'
    BY <1>1, Zenon DEF Distinct, At
  <1> QED BY <1>4, <1>5, Zenon

(* A call that opens a session holds a new one.                              *)
LEMMA OpenKnown ==
    ASSUME ConstantsOK, ~Overlap, LInv, NEW t \in Threads, OpenSession(t)
    PROVE  Known' /\ Distinct'
  <1> DEFINE sess == [real_session |-> real + 1, wrap_slot |-> arg[t]]
  <1>1. /\ px # 0 /\ sessions[px] \in Tracked /\ py[t] # 0
        /\ px' = px /\ \A u \in Threads : u # t => Untouched(u)
    BY InCall, OthersUntouched, Zenon DEF CallStep, Step, OpenSession, At, LInv
  <1>2. /\ pc[t] = "slot" /\ real \in Nat /\ real < MaxHandle /\ real' = real + 1
        /\ arg'[t] = sess /\ pc'[t] = "opened" /\ open' = open \cup {sess}
        /\ sessions' = sessions /\ last_handle' = last_handle
    BY <1>1 DEF OpenSession, LInv, TypeOK, At, Goto, state, ConstantsOK
  <1>3. sess \in Session /\ sess.real_session = real + 1
    BY <1>2 DEF LInv, Distinct, At, Session, SessionHandles, ConstantsOK
  <1>4. \A h \in DOMAIN sessions[px] : /\ sessions[px][h].real_session \in Nat
                                       /\ sessions[px][h].real_session <= real
    BY <1>1, TrackedIs DEF LInv, Distinct, Session, SessionHandles
  <1>5. \A h \in DOMAIN sessions[px] : sessions[px][h] # sess
    <2> SUFFICES ASSUME NEW h \in DOMAIN sessions[px], sessions[px][h] = sess
                 PROVE  FALSE
      BY Zenon
    <2>1. sessions[px][h].real_session = real + 1
      BY <1>3, Zenon
    <2> QED BY <1>2, <1>4, <2>1
  <1>6. \A u \in Threads : At(u, "opened") =>
           /\ arg[u] \in Session /\ arg[u].real_session \in Nat /\ arg[u].real_session <= real
    BY DEF LInv, Distinct, Session, SessionHandles
  <1>7. \A u \in Threads : At(u, "opened") => arg[u] # sess
    <2> SUFFICES ASSUME NEW u \in Threads, At(u, "opened"), arg[u] = sess PROVE FALSE
      BY Zenon
    <2>1. arg[u].real_session = real + 1
      BY <1>3, Zenon
    <2> QED BY <1>2, <1>6, <2>1
  <1> HIDE DEF sess
  <1>8. Opened' = Opened \cup {sess}
    BY <1>1, <1>2 DEF Opened, At, Untouched
  <1>9. Closed' = Closed
    BY <1>1, <1>2, Zenon DEF Closed, At, Untouched
  <1>10. Listed' = Listed
    BY <1>1, <1>2, <1>9, Zenon DEF Listed
  <1>11. Known'
    BY <1>1, <1>2, <1>8, <1>10, Zenon DEF LInv, Known
  <1>12. ASSUME NEW u \in Threads, At(u, "opened")'
         PROVE  /\ arg'[u] \in Session /\ arg'[u].real_session <= real'
                /\ \A w \in Threads : At(w, "opened")' /\ w # u => arg'[w] # arg'[u]
                /\ \A h \in DOMAIN sessions'[px'] : sessions'[px'][h] # arg'[u]
    <2>1. CASE u = t
      BY <2>1, <1>1, <1>2, <1>3, <1>5, <1>7 DEF Untouched, At
    <2>2. CASE u # t
      <3>1. At(u, "opened") /\ arg'[u] = arg[u]
        BY <2>2, <1>1, <1>12, Zenon DEF Untouched, At
      <3>2. arg[u] \in Session /\ arg[u].real_session <= real'
        BY <3>1, <1>2, <1>6
      <3>3. \A w \in Threads : At(w, "opened")' /\ w # u => arg'[w] # arg[u]
        BY <3>1, <1>1, <1>2, <1>7 DEF LInv, Distinct, Untouched, At
      <3>4. \A h \in DOMAIN sessions'[px'] : sessions'[px'][h] # arg[u]
        BY <3>1, <1>1, <1>2, ZenonT(40) DEF LInv, Distinct
      <3> QED BY <3>1, <3>2, <3>3, <3>4, Zenon
    <2> QED BY <2>1, <2>2, Zenon
  <1>13. \A h \in DOMAIN sessions'[px'] :
          /\ h <= last_handle' /\ sessions'[px'][h].real_session <= real'
          /\ \A g \in DOMAIN sessions'[px'] : g # h => sessions'[px'][g] # sessions'[px'][h]
    BY <1>1, <1>2, <1>4 DEF LInv, Distinct
  <1>14. \A u \in Threads : /\ At(u, "closed")' => Min(arg'[u]) \in 1 .. last_handle'
                            /\ At(u, "slot")' => arg'[u] \in Slots
    BY <1>1, <1>2, Zenon DEF LInv, Distinct, Untouched, At
  <1> QED BY <1>11, <1>12, <1>13, <1>14, Zenon DEF Distinct

(* The session gets a handle that no session had before.                     *)
LEMMA TrackKnown ==
    ASSUME ConstantsOK, ~Overlap, LInv, NEW t \in Threads, TrackSession(t)
    PROVE  Known' /\ Distinct'
  <1> DEFINE n == last_handle + 1
             f == [h \in DOMAIN sessions[px] \cup {n} |->
                     IF h = n THEN arg[t] ELSE sessions[px][h]]
  <1>1. /\ px # 0 /\ px \in Proxies /\ sessions[px] \in Tracked
        /\ px' = px /\ \A u \in Threads : u # t => Untouched(u)
    BY InCall, OthersUntouched, Zenon DEF CallStep, Step, LInv
  <1>2. /\ pc[t] = "opened" /\ sessions' = [sessions EXCEPT ![px] = f]
        /\ last_handle' = n /\ pc'[t] = "idle" /\ real' = real /\ open' = open
        /\ last_handle \in Nat /\ sessions \in [Proxies -> Tracked]
    BY <1>1 DEF TrackSession, NewHandle, Return, Goto, At, LInv, TypeOK,
       modules, ConstantsOK
  <1>3. sessions'[px'] = f
    BY <1>1, <1>2, Zenon
  <1>4. \A h \in DOMAIN sessions[px] : h \in Nat /\ h <= last_handle
    BY <1>1, TrackedIs DEF LInv, Distinct, SessionHandles
  <1>5. \A h \in DOMAIN sessions[px] : h # n /\ f[h] = sessions[px][h]
    BY <1>2, <1>4
  <1>6. DOMAIN f = DOMAIN sessions[px] \cup {n} /\ f[n] = arg[t]
    BY Zenon
  <1>7. /\ arg[t] \in Session /\ arg[t].real_session <= real
        /\ \A u \in Threads : At(u, "opened") /\ u # t => arg[u] # arg[t]
        /\ \A h \in DOMAIN sessions[px] : sessions[px][h] # arg[t]
    BY <1>2, Zenon DEF LInv, Distinct, At
  <1>8. n \notin Closed /\ n \in Nat /\ last_handle <= n
    BY <1>2 DEF LInv, Distinct, Closed
  <1> HIDE DEF f, n
  <1>9. Opened = Opened' \cup {arg[t]}
    BY <1>1, <1>2, Zenon DEF Opened, At, Untouched
  <1>10. Closed' = Closed
    BY <1>1, <1>2, Zenon DEF Closed, At, Untouched
  <1>11. Listed' = Listed \cup {arg[t]}
    BY <1>3, <1>5, <1>6, <1>8, <1>10 DEF Listed
  <1>12. Known'
    BY <1>1, <1>2, <1>9, <1>11, Zenon DEF LInv, Known
  <1>13. ASSUME NEW u \in Threads, At(u, "opened")'
         PROVE  /\ arg'[u] \in Session /\ arg'[u].real_session <= real'
                /\ \A w \in Threads : At(w, "opened")' /\ w # u => arg'[w] # arg'[u]
                /\ \A h \in DOMAIN sessions'[px'] : sessions'[px'][h] # arg'[u]
    <2>1. u # t /\ At(u, "opened") /\ arg'[u] = arg[u]
      BY <1>1, <1>2, <1>13, Zenon DEF Untouched, At
    <2>2. arg[u] \in Session /\ arg[u].real_session <= real'
      BY <2>1, <1>2, Zenon DEF LInv, Distinct
    <2>3. \A w \in Threads : At(w, "opened")' /\ w # u => arg'[w] # arg[u]
      BY <2>1, <1>1, <1>2, ZenonT(40) DEF LInv, Distinct, Untouched, At
    <2>4. \A h \in DOMAIN sessions[px] : sessions[px][h] # arg[u]
      BY <2>1, Zenon DEF LInv, Distinct
    <2>5. \A h \in DOMAIN f : f[h] # arg[u]
      BY <2>1, <2>4, <1>5, <1>6, <1>7, Zenon
    <2> QED BY <1>3, <2>1, <2>2, <2>3, <2>5, Zenon
  <1>14. \A h \in DOMAIN sessions[px] :
           /\ sessions[px][h].real_session <= real
           /\ \A g \in DOMAIN sessions[px] : g # h => sessions[px][g] # sessions[px][h]
    BY <1>1, Zenon DEF LInv, Distinct
  <1>15. \A h \in DOMAIN f : /\ h <= n /\ f[h].real_session <= real
                             /\ \A g \in DOMAIN f : g # h => f[g] # f[h]
    <2>1. \A h \in DOMAIN f : h <= n
      BY <1>2, <1>4, <1>6, <1>8
    <2>2. \A h \in DOMAIN f : f[h].real_session <= real
      BY <1>5, <1>6, <1>7, <1>14, Zenon
    <2>3. \A h, g \in DOMAIN f : g # h => f[g] # f[h]
      BY <1>5, <1>6, <1>7, <1>14, Zenon
    <2> QED BY <2>1, <2>2, <2>3, Zenon
  <1>16. \A u \in Threads : At(u, "closed") => Min(arg[u]) \in 1 .. n
    BY <1>2, <1>8 DEF LInv, Distinct
  <1>17. \A u \in Threads : /\ At(u, "closed")' => Min(arg'[u]) \in 1 .. last_handle'
                            /\ At(u, "slot")' => arg'[u] \in Slots
    BY <1>1, <1>2, <1>16, Zenon DEF LInv, Distinct, Untouched, At
  <1> QED BY <1>2, <1>3, <1>12, <1>13, <1>15, <1>17, SMTT(30) DEF Distinct

(* A session that is closed is the one that its handle names, and no other.  *)
LEMMA CloseKnown ==
    ASSUME ConstantsOK, ~Overlap, LInv, NEW t \in Threads, CloseSession(t)
    PROVE  Known' /\ Distinct'
  <1> DEFINE h == Min(arg[t])
  <1>1. /\ px # 0 /\ px \in Proxies /\ sessions[px] \in Tracked /\ py[t] = px
        /\ px' = px /\ \A u \in Threads : u # t => Untouched(u)
    BY InCall, OthersUntouched, Zenon DEF CallStep, Step, CloseSession, At, LInv
  <1>2. pc[t] = "session" /\ sessions' = sessions /\ last_handle' = last_handle /\ real' = real
    BY ZenonT(40) DEF CloseSession, At, state
  <1>3. CASE h \notin DOMAIN sessions[px]
    <2>1. open' = open /\ pc'[t] \in {"idle", "session"}
      BY <1>1, <1>3, SMTT(30) DEF CloseSession, CloseNext, Return, Goto, LInv,
         TypeOK
    <2>2. SameCalls
      BY <1>1, <1>2, <2>1, Zenon DEF SameCalls, Untouched
    <2>3. \A u \in Threads : At(u, "slot")' => arg'[u] \in Slots
      BY <1>1, <1>2, <2>1, Zenon DEF LInv, Distinct, Untouched, At
    <2>4. Known /\ Distinct /\ px' = px /\ open' = open
      BY <1>1, <2>1, Zenon DEF LInv
    <2> HIDE DEF h
    <2> QED BY <1>2, <2>2, <2>3, <2>4, SameKnown, ZenonT(40)
  <1>4. CASE h \in DOMAIN sessions[px]
    <2>1. open' = open \ {sessions[px][h]} /\ pc'[t] = "closed" /\ arg'[t] = arg[t]
      BY <1>1, <1>4, Zenon DEF CloseSession, Goto, LInv, TypeOK
    <2>2. h \in 1 .. last_handle
      BY <1>1, <1>4, TrackedIs DEF LInv, Distinct, SessionHandles, TypeOK
    <2>3. \A g \in DOMAIN sessions[px] : g # h => sessions[px][g] # sessions[px][h]
      BY <1>1, <1>4, Zenon DEF LInv, Distinct
    <2>4. Opened' = Opened /\ sessions[px][h] \notin Opened
      <3>1. Opened' = Opened
        BY <1>1, <1>2, <2>1 DEF Opened, At, Untouched
      <3>2. sessions[px][h] \notin Opened
        BY <1>4, Zenon DEF LInv, Distinct, Opened
      <3> QED BY <3>1, <3>2, Zenon
    <2>5. Closed' = Closed \cup {h}
      BY <1>1, <1>2, <2>1, ZenonT(40) DEF Closed, At, Untouched
    <2>6. \A u \in Threads : u # t => arg'[u] = arg[u] /\ pc'[u] = pc[u]
      BY <1>1, Zenon DEF Untouched
    <2> HIDE DEF h
    <2>7. Listed' = Listed \ {sessions[px][h]}
      BY <1>1, <1>2, <1>4, <2>3, <2>5, Zenon DEF Listed
    <2>8. Known'
      BY <1>1, <2>1, <2>4, <2>7, Zenon DEF LInv, Known
    <2>9. \A u \in Threads : At(u, "closed")' => Min(arg'[u]) \in 1 .. last_handle'
      BY <1>2, <2>1, <2>2, <2>6, Zenon DEF LInv, Distinct, At, h
    <2>10. \A u \in Threads : At(u, "slot")' => arg'[u] \in Slots
      BY <2>1, <2>6, ZenonT(40) DEF LInv, Distinct, At
    <2>11. ASSUME NEW u \in Threads, At(u, "opened")'
           PROVE  /\ arg'[u] \in Session /\ arg'[u].real_session <= real'
                  /\ \A w \in Threads : At(w, "opened")' /\ w # u => arg'[w] # arg'[u]
                  /\ \A g \in DOMAIN sessions'[px'] : sessions'[px'][g] # arg'[u]
      <3>1. u # t /\ At(u, "opened") /\ arg'[u] = arg[u]
        BY <2>1, <2>6, <2>11, Zenon DEF At
      <3>2. \A w \in Threads : At(w, "opened")' => At(w, "opened") /\ arg'[w] = arg[w]
        BY <2>1, <2>6, ZenonT(40) DEF At
      <3> QED BY <1>1, <1>2, <3>1, <3>2 DEF LInv, Distinct
    <2>12. \A g \in DOMAIN sessions'[px'] :
          /\ g <= last_handle' /\ sessions'[px'][g].real_session <= real'
          /\ \A k \in DOMAIN sessions'[px'] : k # g => sessions'[px'][k] # sessions'[px'][g]
      BY <1>1, <1>2 DEF LInv, Distinct
    <2> QED BY <2>8, <2>9, <2>10, <2>11, <2>12, Zenon DEF Distinct
  <1> QED BY <1>3, <1>4, Zenon

(* A handle is forgotten after its session was closed.                       *)
LEMMA UntrackKnown ==
    ASSUME ConstantsOK, ~Overlap, LInv, NEW t \in Threads, UntrackSession(t)
    PROVE  Known' /\ Distinct'
  <1> DEFINE h == Min(arg[t])
             f == Restrict(sessions[px], DOMAIN sessions[px] \ {h})
  <1>1. /\ px # 0 /\ px \in Proxies /\ sessions[px] \in Tracked
        /\ px' = px /\ \A u \in Threads : u # t => Untouched(u)
    BY InCall, OthersUntouched, Zenon DEF CallStep, Step, LInv
  <1>2. /\ pc[t] = "closed" /\ sessions' = [sessions EXCEPT ![px] = f]
        /\ last_handle' = last_handle /\ real' = real /\ open' = open
        /\ sessions \in [Proxies -> Tracked]
    BY <1>1, ZenonT(40) DEF UntrackSession, Untrack, At, modules, LInv, TypeOK
  <1>3. pc'[t] \in {"idle", "session"}
    BY SMTT(30) DEF UntrackSession, CloseNext, Return, Goto, LInv, TypeOK
  <1>4. sessions'[px'] = f
    BY <1>1, <1>2, Zenon
  <1>5. DOMAIN f = DOMAIN sessions[px] \ {h} /\ \A g \in DOMAIN f : f[g] = sessions[px][g]
    BY Zenon DEF Restrict
  <1> HIDE DEF f
  <1>6. Opened' = Opened
    BY <1>1, <1>2, <1>3, Zenon DEF Opened, At, Untouched
  <1>7. Closed = Closed' \cup {h}
    BY <1>1, <1>2, <1>3, Zenon DEF Closed, At, Untouched
  <1> HIDE DEF h
  <1>8. Listed' = Listed
    <2>1. DOMAIN f \ Closed' = DOMAIN sessions[px] \ Closed
      BY <1>5, <1>7, Zenon
    <2> QED BY <1>4, <1>5, <2>1, Zenon DEF Listed
  <1>9. Known'
    BY <1>1, <1>2, <1>6, <1>8, Zenon DEF LInv, Known
  <1>10. \A u \in Threads : pc'[u] \in {"slot", "opened", "closed"} =>
            pc'[u] = pc[u] /\ arg'[u] = arg[u]
    BY <1>1, <1>3, Zenon DEF Untouched
  <1>11. ASSUME NEW u \in Threads, At(u, "opened")'
         PROVE  /\ arg'[u] \in Session /\ arg'[u].real_session <= real'
                /\ \A w \in Threads : At(w, "opened")' /\ w # u => arg'[w] # arg'[u]
                /\ \A g \in DOMAIN sessions'[px'] : sessions'[px'][g] # arg'[u]
    <2>1. At(u, "opened") /\ arg'[u] = arg[u]
      BY <1>10, <1>11, Zenon DEF At
    <2>2. \A w \in Threads : At(w, "opened")' => At(w, "opened") /\ arg'[w] = arg[w]
      BY <1>10, Zenon DEF At
    <2> QED BY <1>2, <1>4, <1>5, <2>1, <2>2 DEF LInv, Distinct
  <1>12. \A g \in DOMAIN f :
          /\ g <= last_handle' /\ f[g].real_session <= real'
          /\ \A k \in DOMAIN f : k # g => f[k] # f[g]
    BY <1>1, <1>2, <1>5, ZenonT(40) DEF LInv, Distinct
  <1>13. \A u \in Threads : /\ At(u, "closed")' => Min(arg'[u]) \in 1 .. last_handle'
                            /\ At(u, "slot")' => arg'[u] \in Slots
    BY <1>2, <1>10, Zenon DEF LInv, Distinct, At
  <1> QED BY <1>4, <1>9, <1>11, <1>12, <1>13, Zenon DEF Distinct

(* Every step keeps the proxy's sessions distinct and the open ones known.   *)
LEMMA KnownStep ==
    ASSUME ConstantsOK, ~Overlap, LInv, NEW t \in Threads, Step(t)
    PROVE  Known' /\ Distinct'
  <1>0. \A u \in Threads : u # t => Untouched(u)
    BY OthersUntouched, Zenon DEF LInv
  <1>1. CASE StartOpen(t) \/ StartClose(t) \/ CloseAllSessions(t)
    <2>1. px' = px /\ sessions' = sessions /\ last_handle' = last_handle /\ real' = real /\ open' = open
      BY <1>1, Zenon DEF StartOpen, StartClose, CloseAllSessions, Start, state,
         modules
    <2>2. /\ pc[t] = "idle" /\ pc'[t] \in {"slot", "session"}
          /\ pc'[t] = "slot" => arg'[t] \in Slots
      BY <1>1, Zenon DEF StartOpen, StartClose, CloseAllSessions, Start, At,
         Goto, LInv, TypeOK
    <2>3. SameCalls
      BY <1>0, <2>2, Zenon DEF SameCalls, Untouched
    <2>4. \A u \in Threads : At(u, "slot")' => arg'[u] \in Slots
      BY <1>0, <2>2, Zenon DEF LInv, Distinct, Untouched, At
    <2> QED BY <2>1, <2>3, <2>4, SameKnown, Zenon DEF LInv
  <1>2. CASE OpenSession(t) \/ TrackSession(t) \/ CloseSession(t) \/ UntrackSession(t)
    BY <1>2, OpenKnown, TrackKnown, CloseKnown, UntrackKnown, Zenon
  <1>3. CASE Joins(t) \/ Leaves(t)
    <2>1. /\ px' = px /\ sessions' = sessions /\ last_handle' = last_handle /\ real' = real
          /\ open' = open /\ pc[t] = "idle" /\ pc'[t] = "idle"
      BY <1>3, Zenon DEF Joins, Leaves
    <2>2. SameCalls
      BY <1>0, <2>1, Zenon DEF SameCalls, Untouched
    <2>3. \A u \in Threads : At(u, "slot")' => arg'[u] \in Slots
      BY <1>0, <2>1, Zenon DEF LInv, Distinct, Untouched, At
    <2> QED BY <2>1, <2>2, <2>3, SameKnown, Zenon DEF LInv
  <1>4. CASE Alone(t) /\ (Begins(t) \/ Creates(t) \/ Undoes(t) \/ Installs(t) \/ Ends(t))
    <2>1. \A u \in Threads : pc'[u] \notin {"slot", "opened", "closed"}
      BY <1>0, <1>4, Zenon DEF Alone, Untouched, Begins, Creates, Undoes,
         Installs, Ends
    <2>2. CASE Installs(t)
      <3>1. px' = py[t] /\ sessions' = sessions /\ open' = open /\ px = 0 /\ pc[t] = "install"
        BY <2>2, Zenon DEF Installs
      <3>2. sessions[py[t]] = NoSessions
        BY <3>1, SMTT(30) DEF LInv, Objects, At
      <3>3. open = {}
        BY <1>4, <3>1, Zenon DEF LInv, ModulesUp, Alone, At
      <3> QED BY <2>1, <3>1, <3>2, <3>3, NothingKnown, Zenon
    <2>3. CASE ~Installs(t)
      <3>1. px' = 0
        BY <1>4, <2>3, Zenon DEF Begins, Creates, Undoes, Ends
      <3> QED BY <2>1, <3>1, NothingKnown, Zenon
    <2> QED BY <2>2, <2>3, Zenon
  <1> QED BY <1>1, <1>2, <1>3, <1>4, WhatHappens, Zenon DEF CallStep

LEMMA InitLInv == ASSUME ConstantsOK, Init PROVE LInv
  <1> USE DEF Init, ConstantsOK
  <1>1. TypeOK
    <2>1. sessions \in [Proxies -> Tracked]
      BY EmptyTracked, Zenon
    <2>2. last_handle \in 0 .. MaxHandle /\ real \in 0 .. MaxHandle /\ proxies \in 0 .. MaxProxies
      OBVIOUS
    <2>3. pc \in [Threads -> Steps] /\ DOMAIN arg = Threads
      BY Zenon DEF Steps
    <2>4. refs \in [Proxies -> Nat] /\ holds \in [Threads -> Nat]
      BY Zenon
    <2>5. py \in [Threads -> Proxies \cup {0}]
      BY Zenon
    <2> QED BY <2>1, <2>2, <2>3, <2>4, <2>5, Zenon DEF TypeOK
  <1>2. Exclusive /\ Referenced
    BY Zenon DEF Exclusive, Referenced, Initializing, Calling, At
  <1>3. Objects
    <2>1. \A p \in Proxies : sessions[p] = NoSessions
      BY Zenon
    <2> QED BY <2>1 DEF Objects, At
  <1>5. ModulesUp
    BY Zenon DEF ModulesUp, At
  <1>4. Distinct /\ Known
    BY Zenon DEF Distinct, Known, At
  <1> QED BY <1>1, <1>2, <1>3, <1>4, <1>5, Zenon DEF LInv

LEMMA StutterLInv == ASSUME LInv, UNCHANGED vars PROVE LInv'
  <1>1. /\ px' = px /\ refs' = refs /\ sessions' = sessions /\ last_handle' = last_handle
        /\ proxies' = proxies /\ freed' = freed /\ up' = up /\ open' = open /\ real' = real
        /\ pc' = pc /\ py' = py /\ arg' = arg /\ holds' = holds
    BY Zenon DEF vars, state, modules, threads
  <1>2. TypeOK'
    BY <1>1, Zenon DEF LInv, TypeOK
  <1>3. Exclusive' /\ Referenced'
    BY <1>1, Zenon DEF LInv, Exclusive, Referenced, Initializing, Calling, At,
       Holding
  <1>4. Objects' /\ ModulesUp'
    BY <1>1, ZenonT(40) DEF LInv, Objects, ModulesUp, At
  <1>5. Distinct'
    BY <1>1 DEF LInv, Distinct, At
  <1>6. Known'
    <2>1. Closed' = Closed /\ Opened' = Opened
      BY <1>1, Zenon DEF Opened, Closed, At
    <2>2. Listed' = Listed
      BY <1>1, <2>1, Zenon DEF Listed
    <2> QED BY <1>1, <2>1, <2>2, Zenon DEF LInv, Known
  <1> QED BY <1>2, <1>3, <1>4, <1>5, <1>6, Zenon DEF LInv

(* The inductive invariant of the proxy: callers that do not overlap in      *)
(* creating and destroying the Proxy of p11-kit/proxy.c have one at a time,  *)
(* counted, with its modules initialized and its sessions known.             *)
THEOREM LInvAlways ==
    ASSUME ConstantsOK, ~Overlap
    PROVE  Spec => []LInv
  <1>1. ASSUME LInv, [Next]_vars PROVE LInv'
    <2>1. CASE Next
      <3>1. PICK t \in Threads : Step(t)
        BY <2>1, Zenon DEF Next, Step
      <3> QED BY <1>1, <3>1, TypeStep, ExclusiveStep, ReferencedStep,
                 ObjectsStep,
                 ModulesUpStep, KnownStep, Zenon DEF LInv
    <2>2. CASE UNCHANGED vars
      BY <1>1, <2>2, StutterLInv, Zenon
    <2> QED BY <1>1, <2>1, <2>2, Zenon
  <1>2. Init => LInv
    BY InitLInv, Zenon
  <1> QED BY <1>1, <1>2, PTL DEF Spec

(* What proxy_C_Initialize promises its caller: until its C_Finalize the     *)
(* proxy is there, the modules are initialized exactly as long, no call      *)
(* looks into a freed Proxy, and the proxy knows the sessions that are open. *)
THEOREM ProxyAlwaysStaysUp ==
    ASSUME ConstantsOK, ~Overlap
    PROVE  Spec => []ProxyStaysUp
  <1>1. ASSUME LInv PROVE ProxyStaysUp
    <2>1. InitializedStaysUp
      BY <1>1 DEF LInv, TypeOK, Exclusive, InitializedStaysUp
    <2>2. ModulesFollowProxy
      BY <1>1, ZenonT(40) DEF LInv, TypeOK, ModulesUp, ModulesFollowProxy,
         Quiet, At
    <2>3. NoUseAfterFree
      BY <1>1, Zenon DEF LInv, Exclusive, Calling, Objects, NoUseAfterFree, At
    <2>4. SessionsTracked
      <3>1. SUFFICES ASSUME Quiet
                     PROVE  open = IF px = 0 THEN {} ELSE Range(sessions[px])
        BY Zenon DEF SessionsTracked
      <3>2. Opened = {} /\ Closed = {}
        BY <3>1, Zenon DEF Opened, Closed, Quiet, At
      <3>3. CASE px = 0
        BY <1>1, <3>1, <3>3, Zenon DEF LInv, ModulesUp, Quiet, At
      <3>4. CASE px # 0
        <4>1. Listed = Range(sessions[px])
          BY <3>2, SMTT(30) DEF Listed, Range
        <4> QED BY <1>1, <3>2, <3>4, <4>1, Zenon DEF LInv, Known
      <3> QED BY <3>3, <3>4, Zenon
    <2> QED BY <2>1, <2>2, <2>3, <2>4, Zenon DEF ProxyStaysUp
  <1> QED BY <1>1, LInvAlways, PTL

\* What the handles need, with any overlap: every handle in a dictionary was
\* given out, and State.px is a Proxy or NULL.
HInv ==
    /\ px \in Proxies \cup {0} /\ py \in [Threads -> Proxies \cup {0}] /\ proxies \in Nat
    /\ last_handle \in Nat /\ DOMAIN sessions = Proxies
    /\ \A p \in Proxies : DOMAIN sessions[p] \subseteq 1 .. last_handle

(* What a step does to the dictionaries: it leaves them alone, or the        *)
(* current Proxy gets one handle more, a new one, or loses one.              *)
LEMMA DictionaryStep ==
    ASSUME HInv, NEW t \in Threads, Step(t)
    PROVE  \/ UNCHANGED <<sessions, last_handle>>
           \/ /\ px # 0 /\ px \in Proxies /\ last_handle' = last_handle + 1
              /\ sessions' = [sessions EXCEPT ![px] =
                     [h \in DOMAIN sessions[px] \cup {last_handle + 1} |->
                         IF h = last_handle + 1 THEN arg[t] ELSE sessions[px][h]]]
           \/ /\ px # 0 /\ px \in Proxies /\ last_handle' = last_handle
              /\ sessions' = [sessions EXCEPT ![px] =
                     Restrict(sessions[px], DOMAIN sessions[px] \ {Min(arg[t])})]
  <1>1. CASE TrackSession(t)
    BY <1>1, ZenonT(40) DEF TrackSession, NewHandle, HInv
  <1>2. CASE UntrackSession(t)
    BY <1>2, Zenon DEF UntrackSession, Untrack, HInv
  <1>3. CASE UNCHANGED <<sessions, last_handle>>
    BY <1>3, Zenon
  <1> QED BY <1>1, <1>2, <1>3, Zenon DEF Step, Initialize, Create, CreateFails,
             Install, Destroy,
             Finalize, StartOpen, StartClose, CloseAllSessions, Start,
             OpenSession,
             CloseSession, state

LEMMA ProxyNamed ==
    ASSUME ConstantsOK, HInv, NEW t \in Threads, Step(t)
    PROVE  px' \in Proxies \cup {0} /\ py' \in [Threads -> Proxies \cup {0}] /\ proxies' \in Nat
  <1> USE DEF HInv, Return, state
  <1>1. CASE Initialize(t) \/ CreateFails(t) \/ Destroy(t)
    BY <1>1, Zenon DEF Initialize, CreateFails, Destroy
  <1>2. CASE Create(t)
    BY <1>2, SMTT(30) DEF Create, Proxies, ConstantsOK
  <1>3. CASE Install(t)
    BY <1>3, Zenon DEF Install
  <1>4. CASE Finalize(t)
    BY <1>4, SMTT(30) DEF Finalize
  <1>5. CASE StartOpen(t) \/ StartClose(t) \/ CloseAllSessions(t)
    BY <1>5, Zenon DEF StartOpen, StartClose, CloseAllSessions, Start
  <1>6. CASE OpenSession(t) \/ TrackSession(t)
    BY <1>6, SMTT(30) DEF OpenSession, TrackSession
  <1>7. CASE CloseSession(t) \/ UntrackSession(t)
    BY <1>7, Zenon DEF CloseSession, UntrackSession, CloseNext
  <1> QED BY <1>1, <1>2, <1>3, <1>4, <1>5, <1>6, <1>7, Zenon DEF Step

LEMMA HandleStep ==
    ASSUME ConstantsOK, HInv, NEW t \in Threads, Step(t)
    PROVE  HInv' /\ HandlesKept
  <1>1. CASE UNCHANGED <<sessions, last_handle>>
    BY <1>1, ProxyNamed, Zenon DEF HInv, HandlesKept
  <1>2. CASE /\ px # 0 /\ px \in Proxies /\ last_handle' = last_handle + 1
             /\ sessions' = [sessions EXCEPT ![px] =
                    [h \in DOMAIN sessions[px] \cup {last_handle + 1} |->
                        IF h = last_handle + 1 THEN arg[t] ELSE sessions[px][h]]]
    <2>1. /\ DOMAIN sessions' = Proxies
          /\ \A p \in Proxies : p # px => sessions'[p] = sessions[p]
          /\ DOMAIN sessions'[px] = DOMAIN sessions[px] \cup {last_handle + 1}
          /\ \A h \in DOMAIN sessions[px] : h # last_handle + 1 => sessions'[px][h] = sessions[px][h]
      BY <1>2, Zenon DEF HInv
    <2>2. \A p \in Proxies : \A h \in DOMAIN sessions[p] : h \in 1 .. last_handle
      BY Zenon DEF HInv
    <2>3. last_handle \in Nat
      BY Zenon DEF HInv
    <2>4. \A p \in Proxies : DOMAIN sessions'[p] \subseteq 1 .. last_handle'
      BY <1>2, <2>1, <2>2, <2>3
    <2>5. HandlesKept
      BY <1>2, <2>1, <2>2, <2>3 DEF HandlesKept
    <2> QED BY <1>2, <2>1, <2>3, <2>4, <2>5, ProxyNamed DEF HInv
  <1>3. CASE /\ px # 0 /\ px \in Proxies /\ last_handle' = last_handle
             /\ sessions' = [sessions EXCEPT ![px] =
                    Restrict(sessions[px], DOMAIN sessions[px] \ {Min(arg[t])})]
    <2>1. /\ DOMAIN sessions' = Proxies
          /\ \A p \in Proxies : /\ DOMAIN sessions'[p] \subseteq DOMAIN sessions[p]
                                /\ \A h \in DOMAIN sessions'[p] : sessions'[p][h] = sessions[p][h]
      BY <1>3, Zenon DEF HInv, Restrict
    <2> QED BY <1>3, <2>1, ProxyNamed, Zenon DEF HInv, HandlesKept
  <1> QED BY <1>1, <1>2, <1>3, DictionaryStep, Zenon

(* The session handles of the proxy: one that proxy_C_OpenSession gave out   *)
(* never comes to mean another session, also after it was closed and after   *)
(* the proxy was finalized and initialized again, and whoever creates or     *)
(* destroys a Proxy at the same time.                                        *)
THEOREM HandlesAlwaysKeepMeaning ==
    ASSUME ConstantsOK
    PROVE  Spec => HandlesKeepMeaning
  <1>1. Init => HInv
    BY DEF Init, HInv, NoSessions
  <1>2. ASSUME HInv, [Next]_vars PROVE HInv' /\ [HandlesKept]_vars
    <2>1. CASE Next
      <3>1. PICK t \in Threads : Step(t)
        BY <2>1, Zenon DEF Next, Step
      <3> QED BY <1>2, <3>1, HandleStep, Zenon
    <2>2. CASE UNCHANGED vars
      BY <1>2, <2>2, Zenon DEF HInv, vars, state, threads
    <2> QED BY <1>2, <2>1, <2>2, Zenon
  <1>3. HInv /\ [Next]_vars => HInv' /\ [HandlesKept]_vars
    BY <1>2, Zenon
  <1> QED BY <1>1, <1>3, PTL DEF Spec, HandlesKeepMeaning
=============================================================================
