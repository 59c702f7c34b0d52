-------------------------- MODULE ModuleInitProofs --------------------------
(***************************************************************************)
(* For any number of callers, modules and forks, and whether or not the     *)
(* callers' calls overlap: the calls p11-kit makes into a PKCS#11 module    *)
(* match what the module's state is, and are exclusive.                     *)
(*                                                                         *)
(* Neither property is inductive.  What makes them so: a thread inside      *)
(* C_Initialize or C_Finalize owns the module's initialize_mutex, and       *)
(* initialize_called is the current fork id exactly when p11-kit has the    *)
(* module initialized.                                                      *)
(*                                                                         *)
(* Then what ModuleCountsProofs builds on: the accounts behind the counts.  *)
(***************************************************************************)
EXTENDS ModuleInit, TLAPS, FiniteSetTheorems

\* A thread calls into the PKCS#11 module only with initialize_mutex held.
MutexHeld ==
    \A t \in Threads :
        pc[t] \in {"calling", "finalizing"} => initialize_mutex[on[t]] = t

\* initialize_called tells whether this process has the module initialized.
CalledIsAccurate ==
    \A m \in Modules :
        /\ initialize_called[m] <= forkid
        /\ initialize_called[m] = forkid <=> lower[m] = "ours"

\* Threads that did not survive a fork are in no call.
OnlyAliveCall == \A t \in Threads : pc[t] # "idle" => t \in alive

Inv ==
    /\ TypeOK
    /\ MutexHeld
    /\ CalledIsAccurate
    /\ OnlyAliveCall
    /\ CallsMatchModuleState

(* The state in which the library is loaded satisfies the invariant.         *)
LEMMA InitInv == Init => Inv
  <1> SUFFICES ASSUME Init PROVE Inv
    BY Zenon
  <1>1. TypeOK
    BY ModulesAssumption, BoundsAssumption DEF Init, TypeOK, LowerStates, PCs
  <1>2. MutexHeld /\ OnlyAliveCall /\ CallsMatchModuleState
    BY Zenon DEF Init, MutexHeld, OnlyAliveCall, CallsMatchModuleState
  <1>3. CalledIsAccurate
    BY DEF Init, CalledIsAccurate
  <1> QED BY <1>1, <1>2, <1>3, Zenon DEF Inv

(* free_modules_when_no_refs_unlocked, with any reference counts, leaves     *)
(* well-typed module state.                                                  *)
LEMMA FreeType ==
    ASSUME TypeOK, NEW refs \in [Modules -> Int], FreeModulesWhenNoRefs(refs)
    PROVE  /\ present' \subseteq Modules
           /\ ref_count' \in [Modules -> Int]
           /\ init_count' \in [Modules -> Int]
           /\ initialize_called' \in [Modules -> 0 .. MaxFork + 1]
           /\ initialize_thread' \in [Modules -> Threads \cup {NoThread}]
           /\ lower' \in [Modules -> LowerStates]
  BY BoundsAssumption, SMTT(30) DEF TypeOK, FreeModulesWhenNoRefs, LowerStates

(* Every step of every thread preserves the types.                           *)
LEMMA TypeStep == TypeOK /\ [Next]_vars => TypeOK'
  <1> SUFFICES ASSUME TypeOK, [Next]_vars PROVE TypeOK'
    BY Zenon
  <1> USE DEF TypeOK, Goto, ForgetLocals, PCs, InitPCs, FinPCs
  <1>1. ASSUME NEW t \in Threads, NEW m \in Modules, Load(t, m) PROVE TypeOK'
    BY <1>1 DEF Load
  <1>2. ASSUME NEW t \in Threads, NEW m \in Modules, Release(t, m) PROVE TypeOK'
    <2>1. [ref_count EXCEPT ![m] = @ - 2] \in [Modules -> Int]
      OBVIOUS
    <2>2. /\ present' \subseteq Modules
          /\ ref_count' \in [Modules -> Int]
          /\ init_count' \in [Modules -> Int]
          /\ initialize_called' \in [Modules -> 0 .. MaxFork + 1]
          /\ initialize_thread' \in [Modules -> Threads \cup {NoThread}]
          /\ lower' \in [Modules -> LowerStates]
      <3>1. CASE FreeModulesWhenNoRefs([ref_count EXCEPT ![m] = @ - 2])
        BY <2>1, <3>1, FreeType, Zenon
      <3>2. CASE /\ ref_count' = [ref_count EXCEPT ![m] = @ - 2]
                 /\ UNCHANGED <<present, init_count, initialize_called,
                                initialize_thread, lower>>
        BY <2>1, <3>2, Zenon
      <3> QED BY <1>2, <3>1, <3>2, Zenon DEF Release
    <2> QED BY <1>2, <2>2, BoundsAssumption DEF Release
  <1>3. ASSUME NEW t \in Threads, NEW m \in Modules, InitializeEnter(t, m)
        PROVE  TypeOK'
    BY <1>3 DEF InitializeEnter, TakeRef
  <1>4. ASSUME NEW t \in Threads, NEW m \in Modules, FinalizeEnter(t, m)
        PROVE  TypeOK'
    BY <1>4, Zenon DEF FinalizeEnter, modvars
  <1>5. ASSUME NEW t \in Threads, NEW m \in Modules, FinalizeWrongProcess(t, m)
        PROVE  TypeOK'
    BY <1>5, BoundsAssumption DEF FinalizeWrongProcess, modvars
  <1>6. ASSUME NEW t \in Threads, InitializeMutex(t) PROVE TypeOK'
    BY <1>6, Zenon DEF InitializeMutex
  <1>7. ASSUME NEW t \in Threads, InitializeRecursive(t) PROVE TypeOK'
    BY <1>7 DEF InitializeRecursive, TakeRef
  <1>8. ASSUME NEW t \in Threads, InitializeReturn(t) PROVE TypeOK'
    <2>1. /\ lower' \in [Modules -> LowerStates]
          /\ initialize_called' \in [Modules -> 0 .. MaxFork + 1]
          /\ init_count' \in [Modules -> Int]
          /\ rv' \in [Threads -> {"ok", "failed"}]
      <3>1. on[t] \in Modules /\ forkid \in 0 .. MaxFork + 1 /\ 0 \in 0 .. MaxFork + 1
        BY BoundsAssumption
      <3>2. lower' \in [Modules -> LowerStates]
        <4>1. \/ UNCHANGED lower
              \/ lower' = [lower EXCEPT ![on[t]] = "ours"]
          BY <1>8, Zenon DEF InitializeReturn
        <4> QED BY <3>1, <4>1, Zenon DEF LowerStates
      <3>3. initialize_called' \in [Modules -> 0 .. MaxFork + 1]
        BY <1>8, <3>1, ZenonT(40) DEF InitializeReturn
      <3>4. init_count' \in [Modules -> Int]
        BY <1>8, <3>1 DEF InitializeReturn
      <3>5. rv' \in [Threads -> {"ok", "failed"}]
        BY <1>8, Zenon DEF InitializeReturn
      <3> QED BY <3>2, <3>3, <3>4, <3>5, Zenon
    <2> QED BY <1>8, <2>1, Zenon DEF InitializeReturn
  <1>9. ASSUME NEW t \in Threads, InitializeLock(t) PROVE TypeOK'
    BY <1>9 DEF InitializeLock, FirstRef, TakeRef
  <1>10. ASSUME NEW t \in Threads, InitializeCount(t) PROVE TypeOK'
    BY <1>10, BoundsAssumption DEF InitializeCount, DropRef
  <1>11. ASSUME NEW t \in Threads, FinalizeCount(t) PROVE TypeOK'
    <2>1. init_count' \in [Modules -> Int]
      BY <1>11 DEF FinalizeCount
    <2>2. initialized' \in [Threads -> [Modules -> 0 .. MaxFork + 1]]
      <3>1. \/ UNCHANGED initialized
            \/ initialized' = [initialized EXCEPT ![t][on[t]] = 0]
        BY <1>11, Zenon DEF FinalizeCount
      <3>2. CASE UNCHANGED initialized
        BY <3>2, Zenon
      <3>3. CASE initialized' = [initialized EXCEPT ![t][on[t]] = 0]
        BY <3>3, BoundsAssumption
      <3> QED BY <3>1, <3>2, <3>3, Zenon
    <2>3. pc' \in [Threads -> PCs]
      BY <1>11, Zenon DEF FinalizeCount
    <2> QED BY <1>11, <2>1, <2>2, <2>3 DEF FinalizeCount
  <1>12. ASSUME NEW t \in Threads, FinalizeMutex(t) PROVE TypeOK'
    BY <1>12, ZenonT(40) DEF FinalizeMutex
  <1>13. ASSUME NEW t \in Threads, FinalizeReturn(t) PROVE TypeOK'
    BY <1>13, BoundsAssumption DEF FinalizeReturn, LowerStates
  <1>14. ASSUME NEW t \in Threads, FinalizeLock(t) PROVE TypeOK'
    <2>1. DropRef(on[t]) \in [Modules -> Int]
      BY DEF DropRef
    <2>2. FreeModulesWhenNoRefs(DropRef(on[t]))
      BY <1>14, Zenon DEF FinalizeLock
    <2> QED BY <1>14, <2>1, <2>2, FreeType, BoundsAssumption DEF FinalizeLock
  <1>15. ASSUME NEW t \in Threads, Fork(t) PROVE TypeOK'
    BY <1>15, BoundsAssumption DEF Fork, NextForkId, LowerStates
  <1>16. CASE UNCHANGED vars
    BY <1>16, Zenon DEF vars, modvars
  <1> QED
    BY <1>1, <1>2, <1>3, <1>4, <1>5, <1>6, <1>7, <1>8, <1>9, <1>10, <1>11,
       Zenon,
       <1>12, <1>13, <1>14, <1>15, <1>16 DEF Next, ThreadStep, CallerStep

(* The steps that neither call into a PKCS#11 module nor free one.  They     *)
(* leave lower, initialize_called and forkid alone, take no thread into a    *)
(* call and forget no Module.                                                *)
Quiet(t) ==
    /\ UNCHANGED <<lower, initialize_called, initialize_mutex, forkid, alive>>
    /\ present \subseteq present'
    /\ \A u \in Threads : u # t => pc'[u] = pc[u] /\ on'[u] = on[u]
    /\ pc'[t] \notin {"calling", "finalizing"}
    /\ pc'[t] = "idle" \/ t \in alive

(* A quiet step preserves the invariant.                                     *)
LEMMA QuietStep ==
    ASSUME Inv, TypeOK', NEW t \in Threads, Quiet(t), NoUseAfterFree
    PROVE  Inv'
  <1>1. MutexHeld'
    BY Zenon DEF Inv, TypeOK, MutexHeld, Quiet
  <1>2. CalledIsAccurate'
    BY Zenon DEF Inv, CalledIsAccurate, Quiet
  <1>3. OnlyAliveCall'
    BY Zenon DEF Inv, OnlyAliveCall, Quiet
  <1>4. ASSUME NEW u \in Threads, pc'[u] \in {"calling", "finalizing"}
        PROVE  pc'[u] = pc[u] /\ on'[u] = on[u] /\ on[u] \in present
    <2>1. u # t
      BY <1>4, Zenon DEF Quiet
    <2>2. pc'[u] = pc[u] /\ on'[u] = on[u]
      BY <2>1, Zenon DEF Quiet
    <2>3. u \in alive /\ on[u] \in Modules
      BY <1>4, <2>2, Zenon DEF Inv, OnlyAliveCall, TypeOK
    <2>4. Initializing(u, on[u]) \/ Finalizing(u, on[u])
      BY <1>4, <2>2, Zenon DEF Initializing, Finalizing, InitPCs, FinPCs
    <2> QED BY <2>2, <2>3, <2>4, Zenon DEF NoUseAfterFree
  <1>5. CallsMatchModuleState'
    BY <1>4, Zenon DEF Inv, CallsMatchModuleState, Quiet
  <1> QED BY <1>1, <1>2, <1>3, <1>5, Zenon DEF Inv

(* free_modules_when_no_refs_unlocked either forgets every Module, and then  *)
(* p11-kit has none initialized, or touches none of this.                    *)
LEMMA FreeEffect ==
    ASSUME TypeOK, CalledIsAccurate, NEW refs, FreeModulesWhenNoRefs(refs)
    PROVE  \/ UNCHANGED <<present, initialize_called, lower>>
           \/ /\ present' = {}
              /\ \A m \in Modules : initialize_called'[m] = 0 /\ lower'[m] # "ours"
  BY Zenon DEF TypeOK, FreeModulesWhenNoRefs, LowerStates

(* A thread inside a call holds a Module that exists.                        *)
LEMMA InCallIsPresent ==
    ASSUME Inv, NoUseAfterFree, NEW u \in Threads,
           pc[u] \in {"calling", "finalizing"}
    PROVE  u \in alive /\ on[u] \in Modules /\ on[u] \in present
  <1>1. u \in alive /\ on[u] \in Modules
    BY Zenon DEF Inv, OnlyAliveCall, TypeOK
  <1>2. Initializing(u, on[u]) \/ Finalizing(u, on[u])
    BY Zenon DEF Initializing, Finalizing, InitPCs, FinPCs
  <1> QED BY <1>1, <1>2, Zenon DEF NoUseAfterFree

(* A thread takes the free mutex of a module and enters C_Initialize or      *)
(* C_Finalize as initialize_called tells it.                                 *)
LEMMA OwnedStep ==
    ASSUME Inv, TypeOK', NEW t \in Threads, NEW call \in {"calling", "finalizing"},
           initialize_mutex[on[t]] = NoThread,
           initialize_mutex' = [initialize_mutex EXCEPT ![on[t]] = t],
           pc' = [pc EXCEPT ![t] = call],
           UNCHANGED <<lower, initialize_called, forkid, alive, present, on>>,
           t \in alive,
           call = "calling" => initialize_called[on[t]] # forkid,
           call = "finalizing" => initialize_called[on[t]] = forkid
    PROVE  Inv'
  <1>1. MutexHeld'
    BY ThreadsAssumption DEF Inv, TypeOK, MutexHeld
  <1>2. CalledIsAccurate' /\ OnlyAliveCall'
    BY Zenon DEF Inv, TypeOK, CalledIsAccurate, OnlyAliveCall
  <1>3. /\ call = "calling" => lower[on[t]] # "ours"
        /\ call = "finalizing" => lower[on[t]] = "ours"
    BY Zenon DEF Inv, TypeOK, CalledIsAccurate
  <1>4. CallsMatchModuleState'
    <2>1. ASSUME NEW u \in Threads, on[u] \in present
          PROVE  /\ pc'[u] = "calling" => lower[on[u]] # "ours"
                 /\ pc'[u] = "finalizing" => lower[on[u]] = "ours"
      <3>1. CASE u = t
        BY <1>3, <3>1, Zenon DEF Inv, TypeOK
      <3>2. CASE u # t
        BY <2>1, <3>2, Zenon DEF Inv, TypeOK, CallsMatchModuleState
      <3> QED BY <3>1, <3>2, Zenon
    <2> QED BY <2>1, Zenon DEF CallsMatchModuleState
  <1> QED BY <1>1, <1>2, <1>4, Zenon DEF Inv

(* A thread leaves C_Initialize or C_Finalize and its module's mutex; no     *)
(* other thread is in a call of that module.                                 *)
LEMMA ReturnStep ==
    ASSUME Inv, TypeOK', NEW t \in Threads, NEW to,
           to \notin {"calling", "finalizing"},
           pc[t] \in {"calling", "finalizing"},
           initialize_mutex' = [initialize_mutex EXCEPT ![on[t]] = NoThread],
           pc' = [pc EXCEPT ![t] = to],
           UNCHANGED <<forkid, alive, present, on>>, t \in alive,
           \A m \in Modules : m # on[t] => lower'[m] = lower[m]
                           /\ initialize_called'[m] = initialize_called[m],
           initialize_called'[on[t]] \in {0, forkid},
           initialize_called'[on[t]] = forkid <=> lower'[on[t]] = "ours"
    PROVE  Inv'
  <1>1. ASSUME NEW u \in Threads, u # t, pc[u] \in {"calling", "finalizing"}
        PROVE  on[u] # on[t]
    BY <1>1, Zenon DEF Inv, MutexHeld
  <1>2. MutexHeld'
    BY <1>1, Zenon DEF Inv, TypeOK, MutexHeld
  <1>3. CalledIsAccurate'
    <2>1. ASSUME NEW m \in Modules
          PROVE  /\ initialize_called'[m] <= forkid
                 /\ initialize_called'[m] = forkid <=> lower'[m] = "ours"
      <3>1. forkid \in Nat
        BY BoundsAssumption DEF Inv, TypeOK
      <3>2. CASE m = on[t]
        BY <3>1, <3>2
      <3>3. CASE m # on[t]
        BY <3>3, Zenon DEF Inv, CalledIsAccurate
      <3> QED BY <3>2, <3>3, Zenon
    <2> QED BY <2>1, Zenon DEF CalledIsAccurate
  <1>4. OnlyAliveCall'
    BY Zenon DEF Inv, TypeOK, OnlyAliveCall
  <1>5. CallsMatchModuleState'
    BY <1>1 DEF Inv, TypeOK, CallsMatchModuleState
  <1> QED BY <1>2, <1>3, <1>4, <1>5, Zenon DEF Inv

(* Every step of every thread preserves the invariant: one case per action.  *)
LEMMA InvStep == Inv /\ [Next]_vars => Inv'
  <1> SUFFICES ASSUME Inv, [Next]_vars PROVE Inv'
    BY Zenon
  <1>0. TypeOK /\ TypeOK'
    BY TypeStep, Zenon DEF Inv
  <1>1. ASSUME NEW t \in Threads, NEW m \in Modules, Load(t, m) PROVE Inv'
    <2>1. Quiet(t) /\ NoUseAfterFree
      BY <1>0, <1>1, Zenon DEF Load, Quiet, Running, TypeOK
    <2> QED BY <1>0, <2>1, QuietStep, Zenon
  <1>2. ASSUME NEW t \in Threads, NEW m \in Modules, InitializeEnter(t, m)
        PROVE  Inv'
    <2>1. Quiet(t) /\ NoUseAfterFree
      BY <1>0, <1>2, Zenon DEF InitializeEnter, Quiet, Running, TypeOK, Goto
    <2> QED BY <1>0, <2>1, QuietStep, Zenon
  <1>3. ASSUME NEW t \in Threads, NEW m \in Modules, FinalizeEnter(t, m)
        PROVE  Inv'
    <2>1. Quiet(t) /\ NoUseAfterFree
      BY <1>0, <1>3, Zenon
         DEF FinalizeEnter, Quiet, Running, TypeOK, Goto, modvars
    <2> QED BY <1>0, <2>1, QuietStep, Zenon
  <1>4. ASSUME NEW t \in Threads, NEW m \in Modules, FinalizeWrongProcess(t, m)
        PROVE  Inv'
    <2>1. Quiet(t) /\ NoUseAfterFree
      BY <1>0, <1>4, Zenon
         DEF FinalizeWrongProcess, Quiet, Running, TypeOK, modvars
    <2> QED BY <1>0, <2>1, QuietStep, Zenon
  <1>5. ASSUME NEW t \in Threads, InitializeRecursive(t) PROVE Inv'
    <2>1. Quiet(t) /\ NoUseAfterFree
      BY <1>0, <1>5, Zenon DEF InitializeRecursive, Quiet, Running, TypeOK, Goto
    <2> QED BY <1>0, <2>1, QuietStep, Zenon
  <1>6. ASSUME NEW t \in Threads, InitializeLock(t) PROVE Inv'
    <2>1. Quiet(t) /\ NoUseAfterFree
      BY <1>0, <1>6, Zenon DEF InitializeLock, Quiet, Running, TypeOK, Goto
    <2> QED BY <1>0, <2>1, QuietStep, Zenon
  <1>7. ASSUME NEW t \in Threads, InitializeCount(t) PROVE Inv'
    <2>1. Quiet(t) /\ NoUseAfterFree
      BY <1>0, <1>7, Zenon DEF InitializeCount, Quiet, Running, TypeOK, Goto
    <2> QED BY <1>0, <2>1, QuietStep, Zenon
  <1>8. ASSUME NEW t \in Threads, FinalizeCount(t) PROVE Inv'
    <2>1. Quiet(t) /\ NoUseAfterFree
      BY <1>0, <1>8 DEF FinalizeCount, IsLast, Quiet, Running, TypeOK, Goto
    <2> QED BY <1>0, <2>1, QuietStep, Zenon
  <1>9. ASSUME NEW t \in Threads, InitializeMutex(t) PROVE Inv'
    <2>1. CASE ~CallNeeded(on[t])
      <3>1. Quiet(t) /\ NoUseAfterFree
        BY <1>0, <1>9, <2>1 DEF InitializeMutex, Quiet, Running, TypeOK, Goto
      <3> QED BY <1>0, <3>1, QuietStep, Zenon
    <2>2. CASE CallNeeded(on[t])
      <3>1. /\ initialize_mutex[on[t]] = NoThread
            /\ initialize_mutex' = [initialize_mutex EXCEPT ![on[t]] = t]
            /\ pc' = [pc EXCEPT ![t] = "calling"]
            /\ UNCHANGED <<lower, initialize_called, forkid, alive, present, on>>
            /\ t \in alive
        BY <1>9, <2>2, Zenon DEF InitializeMutex, MutexFree, Running, Goto
      <3>2. initialize_called[on[t]] # forkid
        BY <2>2, Zenon DEF CallNeeded
      <3> QED BY <1>0, <3>1, <3>2, OwnedStep, Zenon
    <2> QED BY <2>1, <2>2, Zenon
  <1>10. ASSUME NEW t \in Threads, FinalizeMutex(t) PROVE Inv'
    <2>1. CASE initialize_called[on[t]] # forkid
      <3>1. Quiet(t) /\ NoUseAfterFree
        BY <1>0, <1>10, <2>1, Zenon
           DEF FinalizeMutex, Quiet, Running, TypeOK, Goto
      <3> QED BY <1>0, <3>1, QuietStep, Zenon
    <2>2. CASE initialize_called[on[t]] = forkid
      <3>1. /\ initialize_mutex[on[t]] = NoThread
            /\ initialize_mutex' = [initialize_mutex EXCEPT ![on[t]] = t]
            /\ pc' = [pc EXCEPT ![t] = "finalizing"]
            /\ UNCHANGED <<lower, initialize_called, forkid, alive, present, on>>
            /\ t \in alive
        BY <1>10, <2>2, Zenon DEF FinalizeMutex, MutexFree, Running, Goto
      <3> QED BY <1>0, <2>2, <3>1, OwnedStep, Zenon
    <2> QED BY <2>1, <2>2, Zenon
  <1>11. ASSUME NEW t \in Threads, InitializeReturn(t) PROVE Inv'
    <2>1. /\ initialize_mutex' = [initialize_mutex EXCEPT ![on[t]] = NoThread]
          /\ pc' = [pc EXCEPT ![t] = "init.lock"]
          /\ pc[t] = "calling"
          /\ UNCHANGED <<forkid, alive, present, on>>
          /\ t \in alive /\ NoUseAfterFree
      BY <1>11, Zenon DEF InitializeReturn, Running, Goto
    <2>2. lower[on[t]] # "ours"
      BY <1>0, <2>1, InCallIsPresent, Zenon DEF Inv, CallsMatchModuleState
    <2>3. /\ \A m \in Modules : m # on[t] => lower'[m] = lower[m]
                            /\ initialize_called'[m] = initialize_called[m]
          /\ initialize_called'[on[t]] \in {0, forkid}
          /\ initialize_called'[on[t]] = forkid <=> lower'[on[t]] = "ours"
      <3>1. forkid # 0 /\ on[t] \in Modules
        BY <1>0 DEF TypeOK
      <3>2. CASE lower[on[t]] # "down"
        BY <1>0, <1>11, <2>2, <3>1, <3>2 DEF InitializeReturn, TypeOK
      <3>3. CASE lower[on[t]] = "down" /\ lower' = lower
        BY <1>0, <1>11, <3>1, <3>3 DEF InitializeReturn, TypeOK
      <3>4. CASE lower[on[t]] = "down" /\ lower' # lower
        BY <1>0, <1>11, <3>1, <3>4, SMTT(30) DEF InitializeReturn, TypeOK
      <3> QED BY <3>2, <3>3, <3>4, Zenon
    <2> QED BY <1>0, <2>1, <2>3, ReturnStep, Zenon
  <1>12. ASSUME NEW t \in Threads, FinalizeReturn(t) PROVE Inv'
    <2>1. /\ initialize_mutex' = [initialize_mutex EXCEPT ![on[t]] = NoThread]
          /\ pc' = [pc EXCEPT ![t] = "fin.lock"]
          /\ pc[t] = "finalizing"
          /\ UNCHANGED <<forkid, alive, present, on>>
          /\ t \in alive /\ NoUseAfterFree
      BY <1>12, Zenon DEF FinalizeReturn, Running, Goto
    <2>2. /\ \A m \in Modules : m # on[t] => lower'[m] = lower[m]
                            /\ initialize_called'[m] = initialize_called[m]
          /\ initialize_called'[on[t]] \in {0, forkid}
          /\ initialize_called'[on[t]] = forkid <=> lower'[on[t]] = "ours"
      BY <1>0, <1>12 DEF FinalizeReturn, TypeOK
    <2> QED BY <1>0, <2>1, <2>2, ReturnStep, Zenon
  <1>13. ASSUME NEW t \in Threads, NEW m \in Modules, Release(t, m) PROVE Inv'
    <2>1. /\ UNCHANGED <<initialize_mutex, forkid, alive, pc, on>>
          /\ NoUseAfterFree
      BY <1>13, Zenon DEF Release, Running
    <2>2. \/ UNCHANGED <<present, initialize_called, lower>>
          \/ /\ present' = {}
             /\ \A n \in Modules : initialize_called'[n] = 0 /\ lower'[n] # "ours"
      BY <1>0, <1>13, FreeEffect, Zenon DEF Release, Inv
    <2> QED BY <1>0, <2>1, <2>2 DEF Inv, TypeOK, MutexHeld, CalledIsAccurate,
               OnlyAliveCall, CallsMatchModuleState
  <1>14. ASSUME NEW t \in Threads, FinalizeLock(t) PROVE Inv'
    <2>1. /\ UNCHANGED <<initialize_mutex, forkid, alive, on>>
          /\ pc' = [pc EXCEPT ![t] = "idle"]
      BY <1>14, Zenon DEF FinalizeLock, Goto
    <2>2. \/ UNCHANGED <<present, initialize_called, lower>>
          \/ /\ present' = {}
             /\ \A n \in Modules : initialize_called'[n] = 0 /\ lower'[n] # "ours"
      <3>1. FreeModulesWhenNoRefs(DropRef(on[t]))
        BY <1>14, Zenon DEF FinalizeLock
      <3> QED BY <1>0, <3>1, FreeEffect, Zenon DEF Inv
    <2> QED BY <1>0, <2>1, <2>2 DEF Inv, TypeOK, MutexHeld, CalledIsAccurate,
               OnlyAliveCall, CallsMatchModuleState
  <1>15. ASSUME NEW t \in Threads, Fork(t) PROVE Inv'
    <2>1. \A u \in Threads : pc'[u] = "idle"
      BY <1>15, Zenon DEF Fork
    <2>2. CalledIsAccurate'
      BY <1>0, <1>15 DEF Fork, NextForkId, TypeOK, Inv, CalledIsAccurate
    <2> QED BY <1>0, <2>1, <2>2, Zenon DEF Inv, MutexHeld, OnlyAliveCall,
               CallsMatchModuleState
  <1>16. CASE UNCHANGED vars
    BY <1>0, <1>16, Zenon DEF vars, modvars, Inv, MutexHeld, CalledIsAccurate,
       OnlyAliveCall, CallsMatchModuleState
  <1> QED
    BY <1>1, <1>2, <1>3, <1>4, <1>5, <1>6, <1>7, <1>8, <1>9, <1>10, <1>11,
       <1>12, <1>13, <1>14, <1>15, <1>16, Zenon DEF Next, ThreadStep, CallerStep

(* Type correctness and the invariant of modules.c's initialization.         *)
THEOREM InvAlways == Spec => []Inv
  BY InitInv, InvStep, PTL DEF Spec

(* The values of every field keep their type, for any number of threads,     *)
(* modules and forks.                                                        *)
THEOREM TypeCorrect == Spec => []TypeOK
  <1>1. Inv => TypeOK
    BY Zenon DEF Inv
  <1> QED BY <1>1, InvAlways, PTL

(* p11-kit calls C_Initialize only on modules it has not got initialized,    *)
(* and C_Finalize only on modules it has: for any number of callers, however *)
(* their calls overlap, and across forks.                                    *)
THEOREM CallsAlwaysMatch == Spec => []CallsMatchModuleState
  <1>1. Inv => CallsMatchModuleState
    BY Zenon DEF Inv
  <1> QED BY <1>1, InvAlways, PTL

(* No two threads are inside C_Initialize or C_Finalize of one module.       *)
THEOREM CallsAreExclusive == Spec => []OneCallAtATime
  <1>1. Inv => OneCallAtATime
    BY Zenon DEF Inv, TypeOK, MutexHeld, OneCallAtATime
  <1> QED BY <1>1, InvAlways, PTL
-----------------------------------------------------------------------------
(* The accounts behind the counts: which callers init_count, the references  *)
(* of a Module and the state of the module below stand for, and how the      *)
(* steps that only begin or end a call move them.                            *)

\* The modules nobody outside p11-kit has initialized.
Ours == Modules \ External

\* Where the calls are: a closure's call is about a module it holds, the count
\* is written back by the owner of p11_lock(), and C_Initialize and C_Finalize
\* of one module are apart.
Calls ==
    /\ \A t \in Threads :
          /\ pc[t] \in {"init.count", "fin.count"} <=> lock = t
          /\ pc[t] # "idle" => on[t] \in loaded[t]
          /\ pc[t] \in InitPCs => initialized[t][on[t]] # forkid
          /\ pc[t] \in FinPCs \cup {"fin.count"} => initialized[t][on[t]] = forkid
    /\ \A t \in Threads, m \in Modules :
          /\ initialized[t][m] <= forkid
          /\ initialized[t][m] = forkid => m \in loaded[t]
    /\ \A t, u \in Threads :
          pc[t] \in InitPCs /\ on[t] = on[u] => pc[u] \notin FinPCs \cup {"fin.count"}

Counted(m) == Users(m) \cup Deciding(m)
Starting(m) ==
    {t \in alive : on[t] = m /\ pc[t] \in {"init.lock", "init.count"} /\ rv[t] = "ok"}
Stopping(m) == {t \in alive : on[t] = m /\ pc[t] \in {"fin.mutex", "finalizing"}}

\* A module is up as long as somebody counts on it, and no longer than that.
Needed(m) ==
    /\ lower[m] # "theirs"
    /\ Counted(m) \cup Starting(m) # {} => lower[m] = "ours"
    /\ lower[m] = "ours" => Counted(m) \cup Starting(m) \cup Stopping(m) # {}
    /\ Leaving(m) # {} => Counted(m) = {}

\* init_count is exact in the process that has initialized the module, and is
\* what the thread that is about to write it has read.
CountIs(m) ==
    /\ lower[m] = "ours" \/ forkid = 1 => init_count[m] = Cardinality(Counted(m))
    /\ \A t \in Deciding(m) \cup Writing(m) : seen[t] = init_count[m]

\* There are at least the references that are due, and no more before a fork.
RefsAre(m) ==
    /\ ref_count[m] >= RefsDue(m)
    /\ forkid = 1 /\ m \notin Reentrant => ref_count[m] = RefsDue(m)

Kept(m) == Needed(m) /\ CountIs(m) /\ RefsAre(m)

CInv == Inv /\ Calls /\ \A m \in Ours : Kept(m)
-----------------------------------------------------------------------------
(* The sets that account for the counts are finite.                          *)
LEMMA Finite ==
    ASSUME TypeOK, NEW m \in Modules
    PROVE  /\ IsFiniteSet(Counted(m)) /\ Cardinality(Counted(m)) \in Nat
           /\ IsFiniteSet(Closures(m)) /\ Cardinality(Closures(m)) \in Nat
           /\ IsFiniteSet(Entering(m)) /\ Cardinality(Entering(m)) \in Nat
           /\ IsFiniteSet(Leaving(m)) /\ Cardinality(Leaving(m)) \in Nat
  <1>1. IsFiniteSet(alive)
    BY ThreadsAssumption, FS_Subset, Zenon DEF TypeOK
  <1>2. /\ Counted(m) \subseteq alive /\ Closures(m) \subseteq alive
        /\ Entering(m) \subseteq alive /\ Leaving(m) \subseteq alive
    BY Zenon DEF Counted, Users, Deciding, Closures, Entering, Leaving
  <1> QED BY <1>1, <1>2, FS_Subset, FS_CardinalityType, Zenon

(* Two sets that differ in one thread at most.                               *)
LEMMA SameSet ==
    ASSUME NEW A, NEW B, NEW t, A \ {t} = B \ {t}, t \in A <=> t \in B
    PROVE  A = B
  OBVIOUS

LEMMA Joined ==
    ASSUME NEW A, NEW B, NEW t, A \ {t} = B \ {t}, t \in A, t \notin B
    PROVE  A = B \cup {t}
  BY Zenon

LEMMA Left ==
    ASSUME NEW A, NEW B, NEW t, A \ {t} = B \ {t}, t \notin A
    PROVE  A = B \ {t}
  BY Zenon

(* One thread more or less in a set changes its size by one.                 *)
LEMMA OneMore ==
    ASSUME NEW S, IsFiniteSet(S), NEW t, t \notin S
    PROVE  Cardinality(S \cup {t}) = Cardinality(S) + 1
  BY FS_AddElement, Zenon

LEMMA OneLess ==
    ASSUME NEW S, IsFiniteSet(S), NEW t, t \in S
    PROVE  Cardinality(S \ {t}) = Cardinality(S) - 1
  BY FS_RemoveElement, Zenon

\* A step of thread t: what belongs to the other threads stays.
Others(t) ==
    /\ UNCHANGED <<alive, forkid>>
    /\ \A u \in Threads \ {t} :
          /\ loaded'[u] = loaded[u] /\ initialized'[u] = initialized[u]
          /\ pc'[u] = pc[u] /\ on'[u] = on[u] /\ rv'[u] = rv[u] /\ seen'[u] = seen[u]

\* The other threads account for a module as they did.
OthersAccount(t, m) ==
    /\ alive' = alive /\ forkid' = forkid
    /\ Users(m)' \ {t} = Users(m) \ {t}
    /\ Deciding(m)' \ {t} = Deciding(m) \ {t}
    /\ Starting(m)' \ {t} = Starting(m) \ {t}
    /\ Stopping(m)' \ {t} = Stopping(m) \ {t}
    /\ Leaving(m)' \ {t} = Leaving(m) \ {t}
    /\ Entering(m)' \ {t} = Entering(m) \ {t}
    /\ Closures(m)' \ {t} = Closures(m) \ {t}
    /\ Writing(m)' \ {t} = Writing(m) \ {t}
    /\ \A u \in alive \ {t} : seen'[u] = seen[u]

(* What a thread does leaves the other threads' part of the accounts alone.  *)
LEMMA OthersKeep ==
    ASSUME TypeOK, NEW t \in Threads, NEW m \in Modules, Others(t)
    PROVE  OthersAccount(t, m)
  <1>1. /\ alive' = alive /\ forkid' = forkid
        /\ \A u \in alive \ {t} :
              /\ loaded'[u] = loaded[u] /\ initialized'[u] = initialized[u]
              /\ pc'[u] = pc[u] /\ on'[u] = on[u] /\ rv'[u] = rv[u]
              /\ seen'[u] = seen[u]
    BY Zenon DEF Others, TypeOK
  <1>2. Users(m)' \ {t} = Users(m) \ {t}
    BY <1>1, Zenon DEF Users, Finalizing
  <1>3. Deciding(m)' \ {t} = Deciding(m) \ {t}
    BY <1>1, Zenon DEF Deciding
  <1>4. Starting(m)' \ {t} = Starting(m) \ {t}
    BY <1>1, Zenon DEF Starting
  <1>5. Stopping(m)' \ {t} = Stopping(m) \ {t}
    BY <1>1, Zenon DEF Stopping
  <1>6. Leaving(m)' \ {t} = Leaving(m) \ {t}
    BY <1>1, Zenon DEF Leaving
  <1>7. Entering(m)' \ {t} = Entering(m) \ {t}
    BY <1>1, Zenon DEF Entering, Initializing
  <1>8. Closures(m)' \ {t} = Closures(m) \ {t}
    BY <1>1, Zenon DEF Closures
  <1>9. Writing(m)' \ {t} = Writing(m) \ {t}
    BY <1>1, Zenon DEF Writing
  <1> QED BY <1>1, <1>2, <1>3, <1>4, <1>5, <1>6, <1>7, <1>8, <1>9, Zenon
             DEF OthersAccount

(* A set of the accounts that thread t neither joins nor leaves is the same. *)
LEMMA AccountStays ==
    ASSUME NEW t \in Threads, NEW m \in Modules, OthersAccount(t, m)
    PROVE  /\ (t \in Users(m)' <=> t \in Users(m)) => Users(m)' = Users(m)
           /\ (t \in Deciding(m)' <=> t \in Deciding(m)) => Deciding(m)' = Deciding(m)
           /\ (t \in Starting(m)' <=> t \in Starting(m)) => Starting(m)' = Starting(m)
           /\ (t \in Stopping(m)' <=> t \in Stopping(m)) => Stopping(m)' = Stopping(m)
           /\ (t \in Leaving(m)' <=> t \in Leaving(m)) => Leaving(m)' = Leaving(m)
           /\ (t \in Entering(m)' <=> t \in Entering(m)) => Entering(m)' = Entering(m)
           /\ (t \in Closures(m)' <=> t \in Closures(m)) => Closures(m)' = Closures(m)
           /\ (t \in Writing(m)' <=> t \in Writing(m)) => Writing(m)' = Writing(m)
           /\ /\ t \in Users(m)' <=> t \in Users(m)
              /\ t \in Deciding(m)' <=> t \in Deciding(m)
              => Counted(m)' = Counted(m)
  <1>1. (t \in Users(m)' <=> t \in Users(m)) => Users(m)' = Users(m)
    BY SameSet, Zenon DEF OthersAccount
  <1>2. (t \in Deciding(m)' <=> t \in Deciding(m)) => Deciding(m)' = Deciding(m)
    BY SameSet, Zenon DEF OthersAccount
  <1>3. (t \in Starting(m)' <=> t \in Starting(m)) => Starting(m)' = Starting(m)
    BY SameSet, Zenon DEF OthersAccount
  <1>4. (t \in Stopping(m)' <=> t \in Stopping(m)) => Stopping(m)' = Stopping(m)
    BY SameSet, Zenon DEF OthersAccount
  <1>5. (t \in Leaving(m)' <=> t \in Leaving(m)) => Leaving(m)' = Leaving(m)
    BY SameSet, Zenon DEF OthersAccount
  <1>6. (t \in Entering(m)' <=> t \in Entering(m)) => Entering(m)' = Entering(m)
    BY SameSet, Zenon DEF OthersAccount
  <1>7. (t \in Closures(m)' <=> t \in Closures(m)) => Closures(m)' = Closures(m)
    BY SameSet, Zenon DEF OthersAccount
  <1>8. (t \in Writing(m)' <=> t \in Writing(m)) => Writing(m)' = Writing(m)
    BY SameSet, Zenon DEF OthersAccount
  <1>9. /\ t \in Users(m)' <=> t \in Users(m)
        /\ t \in Deciding(m)' <=> t \in Deciding(m)
        => Counted(m)' = Counted(m)
    BY <1>1, <1>2, Zenon DEF Counted
  <1> QED BY <1>1, <1>2, <1>3, <1>4, <1>5, <1>6, <1>7, <1>8, <1>9, Zenon

LEMMA AccountLeft ==
    ASSUME NEW t \in Threads, NEW m \in Modules, OthersAccount(t, m)
    PROVE  /\ t \notin Deciding(m)' => Deciding(m)' = Deciding(m) \ {t}
           /\ t \notin Starting(m)' => Starting(m)' = Starting(m) \ {t}
           /\ t \notin Writing(m)' => Writing(m)' = Writing(m) \ {t}
  <1>1. t \notin Deciding(m)' => Deciding(m)' = Deciding(m) \ {t}
    BY Left, Zenon DEF OthersAccount
  <1>2. t \notin Starting(m)' => Starting(m)' = Starting(m) \ {t}
    BY Left, Zenon DEF OthersAccount
  <1>3. t \notin Writing(m)' => Writing(m)' = Writing(m) \ {t}
    BY Left, Zenon DEF OthersAccount
  <1> QED BY <1>1, <1>2, <1>3, Zenon

\* The accounts of a module are as they were.
SameAccounts(m) ==
    /\ alive' = alive /\ forkid' = forkid
    /\ UNCHANGED <<Users(m), Deciding(m), Starting(m), Stopping(m), Leaving(m),
                   Entering(m), Closures(m), Writing(m)>>
    /\ \A u \in Deciding(m) \cup Writing(m) : seen'[u] = seen[u]

(* A module whose accounts and counts are as they were is kept as it was.    *)
LEMMA SameKeeps ==
    ASSUME NEW m \in Modules, Kept(m), SameAccounts(m),
           lower'[m] = lower[m], init_count'[m] = init_count[m],
           ref_count'[m] = ref_count[m]
    PROVE  Kept(m)'
  <1>1. Counted(m)' = Counted(m)
    BY Zenon DEF SameAccounts, Counted
  <1>2. Needed(m)'
    BY <1>1, Zenon DEF Kept, Needed, SameAccounts
  <1>3. CountIs(m)'
    BY <1>1, Zenon DEF Kept, CountIs, SameAccounts
  <1>4. RefsDue(m)' = RefsDue(m)
    <2>1. FirstPending(m)' = FirstPending(m)
      BY Zenon DEF SameAccounts, FirstPending
    <2> QED BY <2>1, Zenon DEF SameAccounts, RefsDue
  <1>5. RefsAre(m)'
    BY <1>4, Zenon DEF Kept, RefsAre, SameAccounts
  <1> QED BY <1>2, <1>3, <1>5, Zenon DEF Kept

\* Thread t is in no call on the module.
Away(t, m) == pc[t] = "idle" \/ on[t] # m

(* A step of a thread that is in no call on the module, before or after, and *)
(* leaves its closure of the module alone.                                   *)
LEMMA AwayKeeps ==
    ASSUME TypeOK, NEW t \in Threads, NEW m \in Modules, Kept(m), Others(t),
           Away(t, m), Away(t, m)',
           m \in loaded'[t] <=> m \in loaded[t],
           initialized'[t][m] = forkid <=> initialized[t][m] = forkid,
           lower'[m] = lower[m], init_count'[m] = init_count[m],
           ref_count'[m] = ref_count[m]
    PROVE  Kept(m)'
  <1>1. OthersAccount(t, m)
    BY OthersKeep, Zenon
  <1>2. /\ t \in Users(m)' <=> t \in Users(m)
        /\ t \in Closures(m)' <=> t \in Closures(m)
        /\ t \notin Deciding(m) \cup Starting(m) \cup Stopping(m) \cup Leaving(m)
              \cup Entering(m) \cup Writing(m)
        /\ t \notin Deciding(m)' /\ t \notin Starting(m)' /\ t \notin Stopping(m)'
        /\ t \notin Leaving(m)' /\ t \notin Entering(m)' /\ t \notin Writing(m)'
    BY Zenon
       DEF Others, Away, Users, Deciding, Starting, Stopping, Leaving, Entering,
           Closures, Writing, Initializing, Finalizing, InitPCs, FinPCs
  <1>3. SameAccounts(m)
    <2>1. UNCHANGED <<Users(m), Deciding(m), Starting(m), Stopping(m), Leaving(m),
                      Entering(m), Closures(m), Writing(m)>>
      BY <1>1, <1>2, AccountStays, Zenon
    <2>2. Deciding(m) \cup Writing(m) \subseteq alive \ {t}
      BY <1>2, Zenon DEF Deciding, Writing
    <2> QED BY <1>1, <2>1, <2>2, Zenon DEF SameAccounts, OthersAccount
  <1> QED BY <1>3, SameKeeps, Zenon
-----------------------------------------------------------------------------
(* Calls keep where they are: one case per action.                           *)
LEMMA CallsStep ==
    ASSUME Inv, Calls, ~Overlap, [Next]_vars
    PROVE  Calls'
  <1>0. TypeOK /\ TypeOK'
    BY TypeStep, Zenon DEF Inv
  <1> USE ThreadsAssumption DEF Calls, TypeOK, Goto, Running, LockFree, InitPCs, FinPCs
  <1>1. ASSUME NEW t \in Threads, NEW m \in Modules, Load(t, m) PROVE Calls'
    BY <1>0, <1>1 DEF Load
  <1>2. ASSUME NEW t \in Threads, NEW m \in Modules, Release(t, m) PROVE Calls'
    BY <1>0, <1>2 DEF Release
  <1>3. ASSUME NEW t \in Threads, NEW m \in Modules, InitializeEnter(t, m) PROVE Calls'
    BY <1>0, <1>3 DEF InitializeEnter, MayInitialize, Finalizing
  <1>4. ASSUME NEW t \in Threads, NEW m \in Modules, FinalizeEnter(t, m) PROVE Calls'
    BY <1>0, <1>4 DEF FinalizeEnter, MayFinalize, Initializing, modvars
  <1>5. ASSUME NEW t \in Threads, NEW m \in Modules, FinalizeWrongProcess(t, m) PROVE Calls'
    BY <1>0, <1>5 DEF FinalizeWrongProcess, modvars
  <1>6. ASSUME NEW t \in Threads, InitializeMutex(t) PROVE Calls'
    <2>1. CASE CallNeeded(on[t])
      BY <1>0, <1>6, <2>1 DEF InitializeMutex
    <2>2. CASE ~CallNeeded(on[t])
      BY <1>0, <1>6, <2>2 DEF InitializeMutex
    <2> QED BY <2>1, <2>2, Zenon
  <1>7. ASSUME NEW t \in Threads, InitializeRecursive(t) PROVE Calls'
    BY <1>0, <1>7, SMTT(30) DEF InitializeRecursive
  <1>8. ASSUME NEW t \in Threads, InitializeReturn(t) PROVE Calls'
    BY <1>0, <1>8, SMTT(30) DEF InitializeReturn
  <1>9. ASSUME NEW t \in Threads, InitializeLock(t) PROVE Calls'
    BY <1>0, <1>9, SMTT(30) DEF InitializeLock
  <1>10. ASSUME NEW t \in Threads, InitializeCount(t) PROVE Calls'
    BY <1>0, <1>10 DEF InitializeCount, ForgetLocals
  <1>11. ASSUME NEW t \in Threads, FinalizeCount(t) PROVE Calls'
    <2>0. /\ pc[t] = "fin.count" /\ lock' = NoThread
          /\ UNCHANGED <<on, loaded, forkid>>
      BY <1>11, Zenon DEF FinalizeCount
    <2>1. CASE IsLast(t)
      <3>1. pc' = [pc EXCEPT ![t] = "fin.mutex"] /\ UNCHANGED initialized
        BY <1>11, <2>1, Zenon DEF FinalizeCount
      <3> QED BY <1>0, <2>0, <3>1
    <2>2. CASE ~IsLast(t)
      <3>1. /\ pc' = [pc EXCEPT ![t] = "idle"]
            /\ initialized' = [initialized EXCEPT ![t][on[t]] = 0]
        BY <1>11, <2>2, Zenon DEF FinalizeCount
      <3> QED BY <1>0, <2>0, <3>1
    <2> QED BY <2>1, <2>2, Zenon
  <1>12. ASSUME NEW t \in Threads, FinalizeMutex(t) PROVE Calls'
    <2>1. /\ pc[t] = "fin.mutex" /\ UNCHANGED <<on, loaded, forkid, initialized, lock>>
          /\ \/ pc' = [pc EXCEPT ![t] = "finalizing"]
             \/ pc' = [pc EXCEPT ![t] = "fin.lock"]
      BY <1>12, Zenon DEF FinalizeMutex
    <2>2. CASE pc' = [pc EXCEPT ![t] = "finalizing"]
      BY <1>0, <2>1, <2>2
    <2>3. CASE pc' = [pc EXCEPT ![t] = "fin.lock"]
      BY <1>0, <2>1, <2>3
    <2> QED BY <2>1, <2>2, <2>3, Zenon
  <1>13. ASSUME NEW t \in Threads, FinalizeReturn(t) PROVE Calls'
    BY <1>0, <1>13 DEF FinalizeReturn
  <1>14. ASSUME NEW t \in Threads, FinalizeLock(t) PROVE Calls'
    BY <1>0, <1>14, SMTT(30) DEF FinalizeLock
  <1>15. ASSUME NEW t \in Threads, Fork(t) PROVE Calls'
    BY <1>0, <1>15, SMTT(30) DEF Fork, NextForkId
  <1>16. CASE UNCHANGED vars
    BY <1>16, Zenon DEF vars
  <1> QED
    BY <1>1, <1>2, <1>3, <1>4, <1>5, <1>6, <1>7, <1>8, <1>9, <1>10, <1>11,
       <1>12, <1>13, <1>14,
       <1>15, <1>16, ZenonT(40)
    DEF Next, ThreadStep, CallerStep
-----------------------------------------------------------------------------
Is(b) == IF b THEN 1 ELSE 0

(* The size of a set to which one thread at most was added or removed.       *)
LEMMA SizeStep ==
    ASSUME NEW A, NEW B, NEW t, IsFiniteSet(B), A \ {t} = B \ {t}
    PROVE  Cardinality(A) = Cardinality(B) + Is(t \in A) - Is(t \in B)
  <1>0. Cardinality(B) \in Nat
    BY FS_CardinalityType, Zenon
  <1>1. CASE t \in A <=> t \in B
    <2>1. A = B
      BY <1>1, SameSet, Zenon
    <2> QED BY <1>0, <1>1, <2>1 DEF Is
  <1>2. CASE t \in A /\ t \notin B
    <2>1. A = B \cup {t}
      BY <1>2, Joined, Zenon
    <2>2. Cardinality(A) = Cardinality(B) + 1
      BY <1>2, <2>1, OneMore, Zenon
    <2> QED BY <1>0, <1>2, <2>2 DEF Is
  <1>3. CASE t \notin A /\ t \in B
    <2>1. A = B \ {t}
      BY <1>3, Left, Zenon
    <2>2. Cardinality(A) = Cardinality(B) - 1
      BY <1>3, <2>1, OneLess, Zenon
    <2> QED BY <1>0, <1>3, <2>2 DEF Is
  <1> QED BY <1>1, <1>2, <1>3, Zenon

\* What the references are due to, as numbers.
Pending(m) == Is(init_count[m] > 0 \/ FirstPending(m))

(* How a step of one thread changes what is counted and what is due.         *)
LEMMA DueStep ==
    ASSUME TypeOK, TypeOK', NEW t \in Threads, NEW m \in Modules, OthersAccount(t, m)
    PROVE  /\ Cardinality(Counted(m))' = Cardinality(Counted(m))
                 + Is(t \in Counted(m)') - Is(t \in Counted(m))
           /\ RefsDue(m)' = RefsDue(m)
                 + 2 * (Is(t \in Closures(m)') - Is(t \in Closures(m)))
                 + Is(t \in Entering(m)') - Is(t \in Entering(m))
                 + Is(t \in Leaving(m)') - Is(t \in Leaving(m))
                 + Pending(m)' - Pending(m)
           /\ RefsDue(m) \in Nat /\ RefsDue(m)' \in Nat
           /\ Pending(m) \in {0, 1} /\ Pending(m)' \in {0, 1}
           /\ Cardinality(Counted(m)) \in Nat
  <1>1. Counted(m)' \ {t} = Counted(m) \ {t}
    BY Zenon DEF Counted, OthersAccount
  <1>2. Cardinality(Counted(m)') = Cardinality(Counted(m))
           + Is(t \in Counted(m)') - Is(t \in Counted(m))
    BY <1>1, Finite, SizeStep, Zenon
  <1>3. Cardinality(Closures(m)') = Cardinality(Closures(m))
           + Is(t \in Closures(m)') - Is(t \in Closures(m))
    BY Finite, SizeStep, Zenon DEF OthersAccount
  <1>4. Cardinality(Entering(m)') = Cardinality(Entering(m))
           + Is(t \in Entering(m)') - Is(t \in Entering(m))
    BY Finite, SizeStep, Zenon DEF OthersAccount
  <1>5. Cardinality(Leaving(m)') = Cardinality(Leaving(m))
           + Is(t \in Leaving(m)') - Is(t \in Leaving(m))
    BY Finite, SizeStep, Zenon DEF OthersAccount
  <1>6. /\ Cardinality(Closures(m)) \in Nat /\ Cardinality(Entering(m)) \in Nat
        /\ Cardinality(Leaving(m)) \in Nat
        /\ \A b \in BOOLEAN : Is(b) \in {0, 1}
    BY Finite, Zenon DEF Is
  <1>7. /\ RefsDue(m) = 2 * Cardinality(Closures(m)) + Cardinality(Entering(m))
                           + Cardinality(Leaving(m)) + Pending(m)
        /\ Pending(m) \in {0, 1}
    BY Zenon DEF RefsDue, Pending, Is
  <1>8. /\ RefsDue(m)' = 2 * Cardinality(Closures(m)') + Cardinality(Entering(m)')
                           + Cardinality(Leaving(m)') + Pending(m)'
        /\ Pending(m)' \in {0, 1}
    BY Zenon DEF RefsDue, Pending, Is
  <1>9. /\ Is(t \in Closures(m)') \in {0, 1} /\ Is(t \in Closures(m)) \in {0, 1}
        /\ Is(t \in Entering(m)') \in {0, 1} /\ Is(t \in Entering(m)) \in {0, 1}
        /\ Is(t \in Leaving(m)') \in {0, 1} /\ Is(t \in Leaving(m)) \in {0, 1}
    BY Zenon DEF Is
  <1>10. /\ Cardinality(Closures(m)') \in Nat /\ Cardinality(Entering(m)') \in Nat
         /\ Cardinality(Leaving(m)') \in Nat
    <2>1. \A X \in {Closures(m)', Entering(m)', Leaving(m)'} : X \subseteq alive'
      BY Zenon DEF Closures, Entering, Leaving
    <2>2. IsFiniteSet(alive')
      BY ThreadsAssumption, FS_Subset, Zenon DEF TypeOK
    <2> QED BY <2>1, <2>2, FS_Subset, FS_CardinalityType, Zenon
  <1> QED BY <1>2, <1>3, <1>4, <1>5, <1>6, <1>7, <1>8, <1>9, <1>10, Finite,
             SMTT(30)

(* p11_kit_module_load takes two references for a new closure.               *)
LEMMA LoadKeeps ==
    ASSUME CInv, TypeOK', NEW t \in Threads, NEW m \in Modules, Load(t, m),
           NEW n \in Ours
    PROVE  Kept(n)'
  <1>0. TypeOK /\ Kept(n) /\ n \in Modules /\ t \in alive
    BY Zenon DEF CInv, Inv, Ours, Load, Running
  <1>1. Others(t) /\ OthersAccount(t, n)
    <2>1. Others(t)
      BY <1>0, Zenon DEF Load, Others, TypeOK
    <2> QED BY <1>0, <2>1, OthersKeep, Zenon
  <1>2. CASE n # m
    BY <1>0, <1>1, <1>2, AwayKeeps, ZenonT(40) DEF Load, Running, Away, TypeOK
  <1>3. CASE n = m
    <2> USE <1>3
    <2>1. /\ t \notin Closures(n) /\ t \in Closures(n)'
          /\ t \in Users(n)' <=> t \in Users(n)
          /\ t \notin Deciding(n) \cup Starting(n) \cup Stopping(n) \cup Leaving(n)
                \cup Entering(n) \cup Writing(n)
          /\ t \notin Deciding(n)' \cup Starting(n)' \cup Stopping(n)' \cup Leaving(n)'
                \cup Entering(n)' \cup Writing(n)'
      BY <1>0, Zenon
         DEF Load, Running, TypeOK, Users, Deciding, Starting, Stopping,
         Leaving,
         Entering, Closures, Writing, Initializing, Finalizing, InitPCs, FinPCs
    <2>2. UNCHANGED <<lower, init_count, forkid, seen>>
          /\ ref_count'[n] = ref_count[n] + 2 /\ ref_count[n] \in Int
      BY <1>0, Zenon DEF Load, TypeOK
    <2>3. Counted(n)' = Counted(n) /\ Starting(n)' = Starting(n)
          /\ Stopping(n)' = Stopping(n) /\ Leaving(n)' = Leaving(n)
          /\ Writing(n)' = Writing(n) /\ Deciding(n)' = Deciding(n)
      BY <1>0, <1>1, <2>1, AccountStays, Zenon
    <2>4. Needed(n)' /\ CountIs(n)'
      BY <1>0, <2>2, <2>3, Zenon DEF Kept, Needed, CountIs
    <2>5. Pending(n)' = Pending(n)
      BY <2>2, <2>3, Zenon DEF Pending, FirstPending
    <2>6. RefsDue(n)' = RefsDue(n) + 2 /\ RefsDue(n) \in Nat
      BY <1>0, <1>1, <2>1, <2>5, DueStep DEF Is
    <2> QED BY <1>0, <2>2, <2>4, <2>6 DEF Kept, RefsAre
  <1> QED BY <1>2, <1>3, Zenon

(* initialize_module_inlock_reentrant enters with a temporary reference.     *)
LEMMA InitializeEnterKeeps ==
    ASSUME CInv, TypeOK', NEW t \in Threads, NEW m \in Modules, InitializeEnter(t, m),
           NEW n \in Ours
    PROVE  Kept(n)'
  <1>0. TypeOK /\ Kept(n) /\ n \in Modules /\ t \in alive
    BY Zenon DEF CInv, Inv, Ours, InitializeEnter, Running
  <1>1. Others(t) /\ OthersAccount(t, n)
    <2>1. Others(t)
      BY <1>0, Zenon
         DEF InitializeEnter, Others, TypeOK, Goto, ForgetLocals, modvars
    <2> QED BY <1>0, <2>1, OthersKeep, Zenon
  <1>2. CASE n # m
    BY <1>0, <1>1, <1>2, AwayKeeps, ZenonT(40)
       DEF InitializeEnter, Running, Goto, Away, TypeOK,
       modvars, TakeRef
  <1>3. CASE n = m
    <2> USE <1>3
    <2>1. /\ t \notin Entering(n) /\ t \in Entering(n)'
          /\ t \in Closures(n)' <=> t \in Closures(n)
          /\ t \notin Users(n) \cup Deciding(n) \cup Starting(n) \cup Stopping(n)
                \cup Leaving(n) \cup Writing(n)
          /\ t \notin Users(n)' \cup Deciding(n)' \cup Starting(n)' \cup Stopping(n)'
                \cup Leaving(n)' \cup Writing(n)'
      BY <1>0, Zenon
         DEF InitializeEnter, Running, Goto, TypeOK, Users, Deciding, Starting,
         Stopping,
         Leaving, Entering, Closures, Writing, Initializing, Finalizing,
         InitPCs,
         FinPCs
    <2>2. /\ UNCHANGED <<lower, init_count, forkid, seen>>
          /\ ref_count'[n] = ref_count[n] + 1 /\ ref_count[n] \in Int
      BY <1>0, Zenon DEF InitializeEnter, TakeRef, TypeOK
    <2>3. /\ Counted(n)' = Counted(n) /\ Starting(n)' = Starting(n)
          /\ Stopping(n)' = Stopping(n) /\ Leaving(n)' = Leaving(n)
          /\ Writing(n)' = Writing(n) /\ Deciding(n)' = Deciding(n)
      BY <1>0, <1>1, <2>1, AccountStays, Zenon
    <2>4. Needed(n)' /\ CountIs(n)'
      BY <1>0, <2>2, <2>3, Zenon DEF Kept, Needed, CountIs
    <2>5. Pending(n)' = Pending(n)
      BY <2>2, <2>3, Zenon DEF Pending, FirstPending
    <2>6. RefsDue(n)' = RefsDue(n) + 1 /\ RefsDue(n) \in Nat
      BY <1>0, <1>1, <2>1, <2>5, DueStep DEF Is
    <2> QED BY <1>0, <2>2, <2>4, <2>6, SMTT(30) DEF Kept, RefsAre
  <1> QED BY <1>2, <1>3, Zenon

(* A thread that need not call C_Initialize finds the module up.             *)
LEMMA InitializeMutexKeeps ==
    ASSUME CInv, TypeOK', NEW t \in Threads, NEW m \in Modules, m = on[t], InitializeMutex(t),
           NEW n \in Ours
    PROVE  Kept(n)'
  <1>0. TypeOK /\ Kept(n) /\ n \in Modules /\ t \in alive
    BY Zenon DEF CInv, Inv, Ours, InitializeMutex, Running
  <1>1. Others(t) /\ OthersAccount(t, n)
    <2>1. Others(t)
      BY <1>0, Zenon
         DEF InitializeMutex, Others, TypeOK, Goto, ForgetLocals, modvars
    <2> QED BY <1>0, <2>1, OthersKeep, Zenon
  <1>2. CASE n # m
    BY <1>0, <1>1, <1>2, AwayKeeps, Zenon
       DEF InitializeMutex, Running, Goto, Away, TypeOK, modvars
  <1>3. CASE n = m
    <2> USE <1>3
    <2>1. /\ t \in Entering(n) /\ t \in Entering(n)'
          /\ t \in Closures(n)' <=> t \in Closures(n)
          /\ t \in Users(n)' <=> t \in Users(n)
          /\ t \notin Deciding(n) \cup Starting(n) \cup Stopping(n)
                \cup Leaving(n) \cup Writing(n)
          /\ t \notin Deciding(n)' \cup Stopping(n)' \cup Leaving(n)' \cup Writing(n)'
      BY <1>0
         DEF InitializeMutex, Running, Goto, TypeOK, Users, Deciding, Starting,
         Stopping,
         Leaving, Entering, Closures, Writing, Initializing, Finalizing,
         InitPCs,
         FinPCs
    <2>2. /\ UNCHANGED <<lower, init_count, forkid, seen, ref_count>>
          /\ ref_count[n] \in Int
      BY <1>0, Zenon DEF InitializeMutex, TypeOK
    <2>3. t \in Starting(n)' => lower[n] = "ours"
      <3>1. t \in Starting(n)' => ~CallNeeded(n)
        BY <1>0, Zenon DEF InitializeMutex, Goto, TypeOK, Starting
      <3> QED BY <1>0, <3>1, Zenon DEF CallNeeded, CInv, Inv, CalledIsAccurate
    <2>4. /\ Counted(n)' = Counted(n)
          /\ Starting(n) \subseteq Starting(n)' /\ Starting(n)' \subseteq Starting(n) \cup {t}
          /\ Stopping(n)' = Stopping(n) /\ Leaving(n)' = Leaving(n)
          /\ Writing(n)' = Writing(n) /\ Deciding(n)' = Deciding(n)
      <3>1. Starting(n)' \ {t} = Starting(n) \ {t} /\ t \notin Starting(n)
        BY <1>1, <2>1, Zenon DEF OthersAccount
      <3>2. /\ Starting(n) \subseteq Starting(n)'
            /\ Starting(n)' \subseteq Starting(n) \cup {t}
        BY <3>1, Zenon
      <3>3. /\ Counted(n)' = Counted(n)
            /\ Stopping(n)' = Stopping(n) /\ Leaving(n)' = Leaving(n)
            /\ Writing(n)' = Writing(n) /\ Deciding(n)' = Deciding(n)
        BY <1>0, <1>1, <2>1, AccountStays, Zenon
      <3> QED BY <3>2, <3>3, Zenon
    <2>5. Needed(n)'
      BY <1>0, <2>2, <2>3, <2>4, SMTT(30) DEF Kept, Needed
    <2>6. CountIs(n)'
      BY <1>0, <2>2, <2>4, Zenon DEF Kept, CountIs
    <2>7. Pending(n)' = Pending(n)
      BY <2>2, <2>4, Zenon DEF Pending, FirstPending
    <2>8. RefsDue(n)' = RefsDue(n) /\ RefsDue(n) \in Nat
      BY <1>0, <1>1, <2>1, <2>7, DueStep DEF Is
    <2> QED BY <1>0, <2>2, <2>5, <2>6, <2>8, ZenonT(40) DEF Kept, RefsAre
  <1> QED BY <1>2, <1>3, Zenon

(* A recursive call leaves its reference behind, which is never too few.     *)
LEMMA InitializeRecursiveKeeps ==
    ASSUME CInv, TypeOK', NEW t \in Threads, NEW m \in Modules, m = on[t], InitializeRecursive(t),
           NEW n \in Ours
    PROVE  Kept(n)'
  <1>0. TypeOK /\ Kept(n) /\ n \in Modules /\ t \in alive
    BY Zenon DEF CInv, Inv, Ours, InitializeRecursive, Running
  <1>1. Others(t) /\ OthersAccount(t, n)
    <2>1. Others(t)
      BY <1>0, Zenon
         DEF InitializeRecursive, Others, TypeOK, Goto, ForgetLocals, modvars
    <2> QED BY <1>0, <2>1, OthersKeep, Zenon
  <1>2. CASE n # m
    BY <1>0, <1>1, <1>2, AwayKeeps, ZenonT(40)
       DEF InitializeRecursive, Running, Goto, Away,
       TypeOK, modvars, TakeRef
  <1>3. CASE n = m
    <2> USE <1>3
    <2>1. /\ t \in Entering(n) /\ t \in Entering(n)'
          /\ t \in Closures(n)' <=> t \in Closures(n)
          /\ t \in Users(n)' <=> t \in Users(n)
          /\ t \notin Deciding(n) \cup Starting(n) \cup Stopping(n)
                \cup Leaving(n) \cup Writing(n)
          /\ t \notin Deciding(n)' \cup Starting(n)' \cup Stopping(n)'
                \cup Leaving(n)' \cup Writing(n)'
      BY <1>0, Zenon
         DEF InitializeRecursive, Running, Goto, TypeOK, Users, Deciding,
         Starting,
         Stopping,
         Leaving, Entering, Closures, Writing, Initializing, Finalizing,
         InitPCs,
         FinPCs
    <2>2. /\ UNCHANGED <<lower, init_count, forkid, seen>> /\ n \in Reentrant
          /\ ref_count'[n] = ref_count[n] + 1 /\ ref_count[n] \in Int
      BY <1>0, Zenon DEF InitializeRecursive, TakeRef, TypeOK
    <2>3. /\ Counted(n)' = Counted(n) /\ Starting(n)' = Starting(n)
          /\ Stopping(n)' = Stopping(n) /\ Leaving(n)' = Leaving(n)
          /\ Writing(n)' = Writing(n) /\ Deciding(n)' = Deciding(n)
      BY <1>0, <1>1, <2>1, AccountStays, Zenon
    <2>4. Needed(n)' /\ CountIs(n)'
      BY <1>0, <2>2, <2>3, Zenon DEF Kept, Needed, CountIs
    <2>5. Pending(n)' = Pending(n)
      BY <2>2, <2>3, Zenon DEF Pending, FirstPending
    <2>6. RefsDue(n)' = RefsDue(n) /\ RefsDue(n) \in Nat
      BY <1>0, <1>1, <2>1, <2>5, DueStep DEF Is
    <2> QED BY <1>0, <2>2, <2>4, <2>6 DEF Kept, RefsAre
  <1> QED BY <1>2, <1>3, Zenon

(* C_Initialize resets init_count, which was 0 but in the child of a fork.    *)
LEMMA InitializeReturnKeeps ==
    ASSUME CInv, TypeOK', NEW t \in Threads, NEW m \in Modules, m = on[t], InitializeReturn(t),
           NEW n \in Ours
    PROVE  Kept(n)'
  <1>0. TypeOK /\ Kept(n) /\ n \in Modules /\ t \in alive
    BY Zenon DEF CInv, Inv, Ours, InitializeReturn, Running
  <1>1. Others(t) /\ OthersAccount(t, n)
    <2>1. Others(t)
      BY <1>0, ZenonT(40)
         DEF InitializeReturn, Others, TypeOK, Goto, ForgetLocals, modvars
    <2> QED BY <1>0, <2>1, OthersKeep, Zenon
  <1>2. CASE n # m
    <2>1. /\ lower'[n] = lower[n] /\ init_count'[n] = init_count[n]
          /\ UNCHANGED <<ref_count, loaded, initialized, on>>
      BY <1>0, <1>2 DEF InitializeReturn, TypeOK
    <2> QED BY <1>0, <1>1, <1>2, <2>1, AwayKeeps, Zenon DEF Away
  <1>3. CASE n = m
    <2> USE <1>3
    <2>0. /\ pc[t] = "calling" /\ NoUseAfterFree /\ pc' = [pc EXCEPT ![t] = "init.lock"]
          /\ UNCHANGED <<forkid, alive, loaded, initialized, on, seen, ref_count>>
      BY Zenon DEF InitializeReturn, Running, Goto
    <2>1. /\ t \in Entering(n) /\ t \in Entering(n)'
          /\ t \in Closures(n)' <=> t \in Closures(n)
          /\ t \in Users(n)' <=> t \in Users(n)
          /\ t \notin Deciding(n) \cup Starting(n) \cup Stopping(n)
                \cup Leaving(n) \cup Writing(n)
          /\ t \notin Deciding(n)' \cup Stopping(n)' \cup Leaving(n)' \cup Writing(n)'
          /\ t \in Starting(n)' <=> rv'[t] = "ok"
      BY <1>0, <2>0, ZenonT(40) DEF TypeOK, Users, Deciding, Starting, Stopping,
         Leaving, Entering, Closures, Writing, Initializing, Finalizing,
         InitPCs,
         FinPCs
    <2>2. /\ Counted(n)' = Counted(n)
          /\ Stopping(n)' = Stopping(n) /\ Leaving(n)' = Leaving(n)
          /\ Writing(n)' = Writing(n) /\ Deciding(n)' = Deciding(n)
      BY <1>0, <1>1, <2>1, AccountStays, Zenon
    <2>3. lower[n] = "down"
      <3>1. lower[n] # "ours"
        BY <2>0, InCallIsPresent, Zenon DEF CInv, Inv, CallsMatchModuleState
      <3>2. lower[n] # "theirs"
        BY <1>0, Zenon DEF Kept, Needed
      <3> QED BY <1>0, <3>1, <3>2, Zenon DEF TypeOK, LowerStates
    <2>4. Counted(n) = {} /\ Starting(n) = {} /\ Writing(n) = {} /\ Deciding(n) = {}
      <3>1. Counted(n) \cup Starting(n) = {}
        BY <1>0, <2>3, Zenon DEF Kept, Needed
      <3> QED BY <3>1, ZenonT(40) DEF Counted, Writing, Starting
    <2>5. Cardinality(Counted(n)) = 0
      BY <2>4, FS_EmptySet, Zenon
    <2>6. CASE rv'[t] = "ok"
      <3>1. lower'[n] = "ours" /\ init_count'[n] = 0
        BY <1>0, <2>3, <2>6, Zenon DEF InitializeReturn, TypeOK
      <3>2. Needed(n)'
        BY <1>0, <2>1, <2>2, <2>4, <2>6, <3>1, Zenon DEF Kept, Needed
      <3>3. CountIs(n)'
        BY <2>2, <2>4, <2>5, <3>1, ZenonT(40) DEF CountIs
      <3>4. Pending(n)' = 0
        <4>1. ~FirstPending(n)'
          BY <2>2, <2>4, Zenon DEF FirstPending
        <4> QED BY <3>1, <4>1 DEF Pending, Is
      <3>5. forkid = 1 => Pending(n) = 0
        <4>1. forkid = 1 => init_count[n] = 0
          BY <1>0, <2>5, Zenon DEF Kept, CountIs
        <4>2. ~FirstPending(n)
          BY <2>4, Zenon DEF FirstPending
        <4> QED BY <4>1, <4>2 DEF Pending, Is
      <3>6. /\ RefsDue(n)' = RefsDue(n) - Pending(n) /\ RefsDue(n) \in Nat
            /\ Pending(n) \in {0, 1}
        BY <1>0, <1>1, <2>1, <3>4, DueStep DEF Is
      <3>7. RefsAre(n)'
        <4>1. ref_count[n] \in Int /\ ref_count'[n] = ref_count[n] /\ forkid' = forkid
          BY <1>0, <2>0, Zenon DEF TypeOK
        <4> QED BY <1>0, <3>5, <3>6, <4>1 DEF Kept, RefsAre
      <3> QED BY <3>2, <3>3, <3>7, Zenon DEF Kept
    <2>7. CASE rv'[t] # "ok"
      <3>1. UNCHANGED <<lower, init_count>>
        BY <1>0, <2>3, <2>7, ZenonT(40) DEF InitializeReturn, TypeOK
      <3>2. SameAccounts(n)
        BY <1>1, <2>0, <2>1, <2>2, <2>7 DEF SameAccounts, OthersAccount
      <3> QED BY <1>0, <2>0, <3>1, <3>2, SameKeeps, Zenon
    <2> QED BY <2>6, <2>7, Zenon
  <1> QED BY <1>2, <1>3, Zenon
=============================================================================
