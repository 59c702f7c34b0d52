------------------------- MODULE ModuleCountsProofs -------------------------
(***************************************************************************)
(* For any number of callers, modules and forks, as long as no caller      *)
(* initializes a module while another one finalizes it: the counts of      *)
(* modules.c are exact, no Module is freed under a caller, and the protocol*)
(* implements ManagedModule.                                               *)
(*                                                                         *)
(* ModuleInitProofs has the accounts behind the counts and the steps that  *)
(* only begin or end a call.  Here are the steps that write the counts or  *)
(* decide by them, the theorems, and the refinement.                       *)
(***************************************************************************)
EXTENDS ModuleInitProofs

(* The steps that write init_count or decide what to do from it: each keeps  *)
(* the accounts of every module right.                                       *)

(* The first successful initialization takes a reference of its own.         *)
LEMMA InitializeLockKeeps ==
    ASSUME CInv, TypeOK', NEW t \in Threads, NEW m \in Modules, m = on[t], InitializeLock(t),
           NEW n \in Ours
    PROVE  Kept(n)'
  <1>0. TypeOK /\ Kept(n) /\ n \in Modules /\ t \in alive
    BY Zenon DEF CInv, Inv, Ours, InitializeLock, Running
  <1>1. Others(t) /\ OthersAccount(t, n)
    <2>1. Others(t)
      BY <1>0, Zenon
         DEF InitializeLock, Others, TypeOK, Goto, ForgetLocals, modvars
    <2> QED BY <1>0, <2>1, OthersKeep, Zenon
  <1>2. CASE n # m
    <2>1. /\ ref_count'[n] = ref_count[n]
          /\ UNCHANGED <<lower, init_count, loaded, initialized, on>>
      BY <1>0, <1>2, Zenon DEF InitializeLock, FirstRef, TakeRef, TypeOK
    <2> QED BY <1>0, <1>1, <1>2, <2>1, AwayKeeps, Zenon DEF Away
  <1>3. CASE n = m
    <2> USE <1>3
    <2>0. /\ pc[t] = "init.lock" /\ pc' = [pc EXCEPT ![t] = "init.count"]
          /\ lock = NoThread
          /\ seen' = [seen EXCEPT ![t] = init_count[n]]
          /\ ref_count' = FirstRef(t, n)
          /\ UNCHANGED <<forkid, alive, loaded, initialized, on, rv, lower, init_count>>
      BY Zenon DEF InitializeLock, Running, Goto, LockFree
    <2>1. /\ t \in Entering(n) /\ t \in Entering(n)'
          /\ t \in Closures(n)' <=> t \in Closures(n)
          /\ t \in Users(n)' <=> t \in Users(n)
          /\ t \in Starting(n)' <=> t \in Starting(n)
          /\ t \notin Deciding(n) \cup Stopping(n) \cup Leaving(n)
          /\ t \notin Deciding(n)' \cup Stopping(n)' \cup Leaving(n)'
          /\ t \in Writing(n)' <=> rv[t] = "ok"
          /\ t \in Starting(n) <=> rv[t] = "ok"
          /\ seen'[t] = init_count[n]
      BY <1>0, <2>0, Zenon DEF TypeOK, Users, Deciding, Starting, Stopping,
         Leaving, Entering, Closures, Writing, Initializing, Finalizing,
         InitPCs,
         FinPCs
    <2>2. /\ Counted(n)' = Counted(n) /\ Starting(n)' = Starting(n)
          /\ Stopping(n)' = Stopping(n) /\ Leaving(n)' = Leaving(n)
          /\ Deciding(n)' = Deciding(n)
      BY <1>0, <1>1, <2>1, AccountStays, Zenon
    <2>3. Writing(n) = {} /\ Deciding(n) = {} /\ Writing(n)' \subseteq {t}
      <3>1. Writing(n) = {} /\ Deciding(n) = {}
        BY <1>0, <2>0, ThreadsAssumption, SMTT(30)
           DEF CInv, Calls, TypeOK, Writing, Deciding
      <3> QED BY <1>1, <3>1, Zenon DEF OthersAccount
    <2>4. Needed(n)'
      BY <1>0, <2>0, <2>2, Zenon DEF Kept, Needed
    <2>5. CountIs(n)'
      BY <1>0, <2>0, <2>1, <2>2, <2>3, SMTT(30) DEF Kept, CountIs
    <2>6. /\ RefsDue(n)' = RefsDue(n) + Pending(n)' - Pending(n)
          /\ RefsDue(n) \in Nat /\ Cardinality(Counted(n)) \in Nat
          /\ Pending(n) \in {0, 1} /\ Pending(n)' \in {0, 1}
      BY <1>0, <1>1, <2>1, DueStep, SMTT(30) DEF Is
    <2>7. ref_count'[n] = ref_count[n] + Pending(n)' - Pending(n)
      <3>0. ref_count[n] \in Int /\ init_count[n] \in Int
        BY <1>0, Zenon DEF TypeOK
      <3>1. CASE rv[t] = "ok" /\ init_count[n] = 0
        <4>1. Pending(n) = 0
          BY <2>3, <3>1 DEF Pending, FirstPending, Is
        <4>2. Pending(n)' = 1
          BY <2>1, <3>1, Zenon DEF Pending, FirstPending, Is
        <4>3. ref_count'[n] = ref_count[n] + 1
          BY <1>0, <2>0, <3>1, Zenon DEF FirstRef, TakeRef, TypeOK
        <4> QED BY <3>0, <4>1, <4>2, <4>3, SMTT(30)
      <3>2. CASE rv[t] = "ok" /\ init_count[n] # 0
        <4>1. init_count[n] > 0
          BY <1>0, <2>1, <2>6, <3>0, <3>2, SMTT(30) DEF Kept, Needed, CountIs
        <4>2. Pending(n) = 1 /\ Pending(n)' = 1
          BY <2>0, <4>1, Zenon DEF Pending, Is
        <4> QED BY <2>0, <3>0, <3>2, <4>2 DEF FirstRef
      <3>3. CASE rv[t] # "ok"
        <4>1. Writing(n)' = {}
          BY <2>1, <2>3, <3>3, Zenon
        <4>2. Pending(n)' = Pending(n)
          BY <2>0, <2>3, <4>1, Zenon DEF Pending, FirstPending
        <4> QED BY <2>0, <2>6, <3>0, <3>3, <4>2, SMTT(30) DEF FirstRef
      <3> QED BY <3>1, <3>2, <3>3, Zenon
    <2>8. RefsAre(n)'
      <3>1. ref_count[n] \in Int /\ forkid' = forkid
        BY <1>0, <2>0, Zenon DEF TypeOK
      <3> QED BY <1>0, <2>6, <2>7, <3>1, SMTT(30) DEF Kept, RefsAre
    <2> QED BY <2>4, <2>5, <2>8, Zenon DEF Kept
  <1> QED BY <1>2, <1>3, Zenon

(* The new caller is counted, and the temporary reference dropped.           *)
LEMMA InitializeCountKeeps ==
    ASSUME CInv, TypeOK', NEW t \in Threads, NEW m \in Modules, m = on[t], InitializeCount(t),
           NEW n \in Ours
    PROVE  Kept(n)'
  <1>0. TypeOK /\ Kept(n) /\ n \in Modules /\ t \in alive
    BY Zenon DEF CInv, Inv, Ours, InitializeCount, Running
  <1>1. Others(t) /\ OthersAccount(t, n)
    <2>1. Others(t)
      BY <1>0, ZenonT(40)
         DEF InitializeCount, Others, TypeOK, Goto, ForgetLocals, modvars
    <2> QED BY <1>0, <2>1, OthersKeep, Zenon
  <1>2. CASE n # m
    <2>1. /\ ref_count'[n] = ref_count[n] /\ init_count'[n] = init_count[n]
          /\ initialized'[t][n] = initialized[t][n]
          /\ UNCHANGED <<lower, loaded, on>>
      BY <1>0, <1>2 DEF InitializeCount, DropRef, TypeOK
    <2> QED BY <1>0, <1>1, <1>2, <2>1, AwayKeeps, Zenon DEF Away
  <1>3. CASE n = m
    <2> USE <1>3
    <2>0. /\ pc[t] = "init.count" /\ pc' = [pc EXCEPT ![t] = "idle"]
          /\ lock = t /\ initialized[t][n] # forkid
          /\ ref_count[n] \in Int /\ ref_count'[n] = ref_count[n] - 1
          /\ UNCHANGED <<forkid, alive, loaded, on, lower>>
      BY <1>0, ZenonT(40)
         DEF InitializeCount, Running, Goto, DropRef, TypeOK, CInv, Calls,
         InitPCs
    <2>1. /\ t \in Entering(n) /\ t \notin Entering(n)'
          /\ t \in Closures(n)' <=> t \in Closures(n)
          /\ t \notin Users(n) \cup Deciding(n) \cup Stopping(n) \cup Leaving(n)
          /\ t \notin Deciding(n)' \cup Stopping(n)' \cup Leaving(n)'
                \cup Starting(n)' \cup Writing(n)'
          /\ t \in Writing(n) <=> rv[t] = "ok"
          /\ t \in Starting(n) <=> rv[t] = "ok"
          /\ t \in Users(n)' <=> initialized'[t][n] = forkid
      BY <1>0, <2>0, Zenon DEF TypeOK, Users, Deciding, Starting, Stopping,
         Leaving, Entering, Closures, Writing, Initializing, Finalizing,
         InitPCs,
         FinPCs
    <2>2. /\ Stopping(n)' = Stopping(n) /\ Leaving(n)' = Leaving(n)
          /\ Deciding(n)' = Deciding(n)
          /\ Starting(n)' = Starting(n) \ {t} /\ Writing(n)' = Writing(n) \ {t}
          /\ Counted(n)' \ {t} = Counted(n) \ {t}
          /\ t \in Counted(n)' <=> initialized'[t][n] = forkid
          /\ t \notin Counted(n)
      <3>1. /\ Stopping(n)' = Stopping(n) /\ Leaving(n)' = Leaving(n)
            /\ Deciding(n)' = Deciding(n)
        BY <1>0, <1>1, <2>1, AccountStays, Zenon DEF OthersAccount
      <3>2. Starting(n)' = Starting(n) \ {t} /\ Writing(n)' = Writing(n) \ {t}
        BY <1>0, <1>1, <2>1, AccountLeft, Zenon
      <3>3. Counted(n)' \ {t} = Counted(n) \ {t}
        BY <1>1, Zenon DEF OthersAccount, Counted
      <3>4. t \notin Counted(n) /\ (t \in Counted(n)' <=> initialized'[t][n] = forkid)
        BY <2>1, Zenon DEF Counted
      <3> QED BY <3>1, <3>2, <3>3, <3>4, Zenon
    <2>3. Deciding(n) = {} /\ Writing(n)' = {} /\ Leaving(n) = {}
      <3>1. Deciding(n) = {} /\ Writing(n) \subseteq {t}
        BY <1>0, <2>0, Zenon DEF CInv, Calls, TypeOK, Writing, Deciding
      <3>2. Leaving(n) = {}
        BY <1>0, <2>0, Zenon DEF CInv, Calls, TypeOK, Leaving, InitPCs
      <3> QED BY <2>2, <3>1, <3>2, Zenon
    <2>4. /\ Cardinality(Counted(n))' = Cardinality(Counted(n)) + Is(t \in Counted(n)')
          /\ RefsDue(n)' = RefsDue(n) - 1 + Pending(n)' - Pending(n)
          /\ RefsDue(n) \in Nat /\ Cardinality(Counted(n)) \in Nat
          /\ Pending(n) \in {0, 1} /\ Pending(n)' \in {0, 1}
      BY <1>0, <1>1, <2>1, <2>2, DueStep, SMTT(30) DEF Is
    <2>5. Needed(n)' /\ CountIs(n)' /\ Pending(n)' = Pending(n)
      <3>1. CASE rv[t] = "ok"
        <4>1. initialized'[t][n] = forkid /\ init_count'[n] = seen[t] + 1
          BY <1>0, <3>1, Zenon DEF InitializeCount, TypeOK
        <4>2. lower[n] = "ours" /\ t \in Counted(n)'
          BY <1>0, <2>1, <2>2, <3>1, <4>1, Zenon DEF Kept, Needed
        <4>3. Needed(n)'
          BY <1>0, <2>0, <2>2, <2>3, <4>2, Zenon DEF Kept, Needed
        <4>4. seen[t] = init_count[n] /\ init_count[n] = Cardinality(Counted(n))
          BY <1>0, <2>1, <3>1, <4>2, Zenon DEF Kept, CountIs
        <4>5. init_count'[n] = Cardinality(Counted(n))'
          BY <2>4, <4>1, <4>2, <4>4, Zenon DEF Is
        <4>6. CountIs(n)'
          BY <2>2, <2>3, <4>5, SMTT(30) DEF CountIs
        <4>7. Pending(n) = 1
          BY <2>1, <2>4, <3>1, <4>4, SMTT(30) DEF Pending, FirstPending, Is
        <4>8. Pending(n)' = 1
          BY <2>4, <4>1, <4>4, SMTT(30) DEF Pending, Is
        <4> QED BY <4>3, <4>6, <4>7, <4>8, Zenon
      <3>2. CASE rv[t] # "ok"
        <4>1. UNCHANGED <<initialized, init_count>>
          BY <3>2, Zenon DEF InitializeCount
        <4>2. Counted(n)' = Counted(n) /\ Starting(n)' = Starting(n) /\ Writing(n) = {}
          <5>1. t \notin Counted(n)'
            BY <2>0, <2>2, <4>1, Zenon
          <5>2. Counted(n)' = Counted(n)
            BY <2>2, <5>1, SameSet, Zenon
          <5>3. t \notin Starting(n) /\ t \notin Writing(n)
            BY <2>1, <3>2, Zenon
          <5>4. Starting(n)' = Starting(n) /\ Writing(n) = {}
            BY <2>2, <2>3, <5>3, SMTT(30)
          <5> QED BY <5>2, <5>4, Zenon
        <4>3. Needed(n)' /\ CountIs(n)'
          BY <1>0, <2>0, <2>2, <2>3, <4>1, <4>2, SMTT(30)
             DEF Kept, Needed, CountIs
        <4>4. Pending(n)' = Pending(n)
          BY <2>3, <4>1, <4>2, Zenon DEF Pending, FirstPending
        <4> QED BY <4>3, <4>4, Zenon
      <3> QED BY <3>1, <3>2, Zenon
    <2>6. RefsAre(n)'
      <3>1. RefsDue(n)' = RefsDue(n) - 1
        BY <2>4, <2>5
      <3> QED BY <1>0, <2>0, <2>4, <3>1, SMTT(30) DEF Kept, RefsAre
    <2> QED BY <2>5, <2>6, Zenon DEF Kept
  <1> QED BY <1>2, <1>3, Zenon

(* A caller that starts to finalize is still counted.                        *)
LEMMA FinalizeEnterKeeps ==
    ASSUME CInv, TypeOK', NEW t \in Threads, NEW m \in Modules, FinalizeEnter(t, m),
           NEW n \in Ours
    PROVE  Kept(n)'
  <1>0. TypeOK /\ Kept(n) /\ n \in Modules /\ t \in alive
    BY Zenon DEF CInv, Inv, Ours, FinalizeEnter, Running
  <1>1. Others(t) /\ OthersAccount(t, n)
    <2>1. Others(t)
      BY <1>0, Zenon
         DEF FinalizeEnter, Others, TypeOK, Goto, ForgetLocals, modvars
    <2> QED BY <1>0, <2>1, OthersKeep, Zenon
  <1>2. CASE n # m
    BY <1>0, <1>1, <1>2, AwayKeeps, Zenon
       DEF FinalizeEnter, Running, Goto, Away, TypeOK, modvars
  <1>3. CASE n = m
    <2> USE <1>3
    <2>0. /\ pc[t] = "idle" /\ pc' = [pc EXCEPT ![t] = "fin.count"]
          /\ lock = NoThread /\ initialized[t][n] = forkid
          /\ on' = [on EXCEPT ![t] = n]
          /\ seen' = [seen EXCEPT ![t] = init_count[n]]
          /\ UNCHANGED <<forkid, alive, loaded, initialized, rv, lower, init_count,
                         ref_count>>
      BY <1>0, Zenon DEF FinalizeEnter, Running, Goto, LockFree, modvars
    <2>1. /\ t \in Users(n) /\ t \notin Users(n)' /\ t \in Deciding(n)'
          /\ t \in Closures(n)' <=> t \in Closures(n)
          /\ t \notin Deciding(n) \cup Starting(n) \cup Stopping(n) \cup Leaving(n)
                \cup Entering(n) \cup Writing(n)
          /\ t \notin Starting(n)' \cup Stopping(n)' \cup Leaving(n)'
                \cup Entering(n)' \cup Writing(n)'
          /\ seen'[t] = init_count[n]
      BY <1>0, <2>0, Zenon DEF TypeOK, Users, Deciding, Starting, Stopping,
         Leaving, Entering, Closures, Writing, Initializing, Finalizing,
         InitPCs,
         FinPCs
    <2>2. /\ Starting(n)' = Starting(n) /\ Stopping(n)' = Stopping(n)
          /\ Leaving(n)' = Leaving(n) /\ Writing(n)' = Writing(n)
      <3>1. Starting(n)' = Starting(n) /\ Stopping(n)' = Stopping(n)
        BY <1>1, <2>1, SameSet, Zenon DEF OthersAccount
      <3>2. Leaving(n)' = Leaving(n) /\ Writing(n)' = Writing(n)
        BY <1>1, <2>1, SameSet, ZenonT(40) DEF OthersAccount
      <3> QED BY <3>1, <3>2, Zenon
    <2>3. Counted(n)' = Counted(n) /\ t \in Counted(n)
      <3>1. Counted(n)' \ {t} = Counted(n) \ {t}
        BY <1>1, Zenon DEF OthersAccount, Counted
      <3>2. t \in Counted(n) /\ t \in Counted(n)'
        BY <2>1, Zenon DEF Counted
      <3> QED BY <3>1, <3>2, SameSet, Zenon
    <2>4. Writing(n) = {} /\ Deciding(n)' \subseteq {t}
      <3>1. Writing(n) = {} /\ Deciding(n) = {}
        BY <1>0, <2>0, ThreadsAssumption, SMTT(30)
           DEF CInv, Calls, TypeOK, Writing, Deciding
      <3> QED BY <1>1, <3>1, Zenon DEF OthersAccount
    <2>5. Needed(n)'
      BY <1>0, <2>0, <2>2, <2>3, Zenon DEF Kept, Needed
    <2>6. CountIs(n)'
      BY <1>0, <2>0, <2>1, <2>2, <2>3, <2>4, SMTT(30) DEF Kept, CountIs
    <2>7. Pending(n)' = Pending(n)
      BY <2>0, <2>2, <2>4, Zenon DEF Pending, FirstPending
    <2>8. RefsDue(n)' = RefsDue(n) /\ RefsDue(n) \in Nat
      BY <1>0, <1>1, <2>1, <2>7, DueStep, SMTT(30) DEF Is
    <2> QED BY <1>0, <2>0, <2>5, <2>6, <2>8, ZenonT(40) DEF Kept, RefsAre
  <1> QED BY <1>2, <1>3, Zenon

(* The last caller to finalize is the only one that was counted.             *)
LEMMA FinalizeCountKeeps ==
    ASSUME CInv, TypeOK', NEW t \in Threads, NEW m \in Modules, m = on[t], FinalizeCount(t),
           NEW n \in Ours
    PROVE  Kept(n)'
  <1>0. TypeOK /\ Kept(n) /\ n \in Modules /\ t \in alive
    BY Zenon DEF CInv, Inv, Ours, FinalizeCount, Running
  <1>1. Others(t) /\ OthersAccount(t, n)
    <2>1. Others(t)
      BY <1>0, SMTT(30)
         DEF FinalizeCount, Others, TypeOK, Goto, ForgetLocals, modvars
    <2> QED BY <1>0, <2>1, OthersKeep, Zenon
  <1>2. CASE n # m
    <2>1. /\ init_count'[n] = init_count[n]
          /\ initialized'[t][n] = initialized[t][n]
          /\ UNCHANGED <<lower, loaded, on, ref_count>>
      BY <1>0, <1>2 DEF FinalizeCount, TypeOK
    <2> QED BY <1>0, <1>1, <1>2, <2>1, AwayKeeps, Zenon DEF Away
  <1>3. CASE n = m
    <2> USE <1>3
    <2>0. /\ pc[t] = "fin.count" /\ pc'[t] \in {"fin.mutex", "idle"}
          /\ pc'[t] = "fin.mutex" <=> IsLast(t)
          /\ pc'[t] = "idle" => initialized'[t][n] = 0
          /\ init_count'[n] = seen[t] - 1
          /\ lock = t
          /\ ref_count[n] \in Int /\ init_count[n] \in Int /\ forkid # 0
          /\ UNCHANGED <<forkid, alive, loaded, on, lower, ref_count>>
      BY <1>0, SMTT(30) DEF FinalizeCount, Running, Goto, TypeOK, CInv, Calls
    <2>1. /\ t \in Deciding(n) /\ t \notin Users(n)
          /\ t \in Closures(n)' <=> t \in Closures(n)
          /\ t \notin Users(n)' \cup Deciding(n)'
          /\ t \notin Starting(n) \cup Stopping(n) \cup Leaving(n)
                \cup Entering(n) \cup Writing(n)
          /\ t \notin Starting(n)' \cup Entering(n)' \cup Writing(n)'
          /\ t \in Stopping(n)' <=> IsLast(t)
          /\ t \in Leaving(n)' <=> IsLast(t)
      BY <1>0, <2>0, ZenonT(40) DEF TypeOK, Users, Deciding, Starting, Stopping,
         Leaving, Entering, Closures, Writing, Initializing, Finalizing,
         InitPCs,
         FinPCs
    <2>2. /\ Starting(n)' = Starting(n) /\ Writing(n)' = Writing(n)
          /\ Leaving(n)' \ {t} = Leaving(n) \ {t}
      BY <1>0, <1>1, <2>1, AccountStays, Zenon DEF OthersAccount
    <2>3. Counted(n)' = Counted(n) \ {t} /\ t \in Counted(n)
      <3>1. Counted(n)' \ {t} = Counted(n) \ {t}
        BY <1>1, Zenon DEF OthersAccount, Counted
      <3>2. t \in Counted(n) /\ t \notin Counted(n)'
        BY <2>1, Zenon DEF Counted
      <3> QED BY <3>1, <3>2, Left, Zenon
    <2>4. Writing(n) = {} /\ Writing(n)' = {} /\ Deciding(n)' = {}
      <3>1. Writing(n) = {} /\ Deciding(n) \subseteq {t}
        BY <1>0, <2>0, ZenonT(40) DEF CInv, Calls, TypeOK, Writing, Deciding
      <3>2. Deciding(n)' = Deciding(n) \ {t}
        BY <1>0, <1>1, <2>1, AccountLeft, Zenon
      <3> QED BY <2>2, <3>1, <3>2, Zenon
    <2>5. lower[n] = "ours" /\ Leaving(n) = {}
      BY <1>0, <2>3, Zenon DEF Kept, Needed
    <2>6. seen[t] = init_count[n] /\ init_count[n] = Cardinality(Counted(n))
      BY <1>0, <2>1, <2>5, Zenon DEF Kept, CountIs
    <2>7. /\ Cardinality(Counted(n))' = Cardinality(Counted(n)) - 1
          /\ RefsDue(n)' = RefsDue(n) + Is(t \in Leaving(n)') + Pending(n)' - Pending(n)
          /\ RefsDue(n) \in Nat /\ Cardinality(Counted(n)) \in Nat
          /\ Pending(n) \in {0, 1} /\ Pending(n)' \in {0, 1}
      <3>1. /\ Is(t \in Counted(n)) = 1 /\ Is(t \in Counted(n)') = 0
            /\ Is(t \in Closures(n)) = Is(t \in Closures(n)')
            /\ Is(t \in Closures(n)) \in {0, 1}
            /\ Is(t \in Entering(n)) = 0 /\ Is(t \in Entering(n)') = 0
            /\ Is(t \in Leaving(n)) = 0 /\ Is(t \in Leaving(n)') \in {0, 1}
        BY <2>1, <2>3, Zenon DEF Is
      <3> QED BY <1>0, <1>1, <3>1, DueStep, SMTT(30)
    <2>8. /\ Cardinality(Counted(n))' \in Nat
          /\ Cardinality(Counted(n))' = 0 <=> Counted(n)' = {}
      <3>1. IsFiniteSet(Counted(n)')
        BY <1>0, <2>3, Finite, FS_Subset, Zenon
      <3> QED BY <3>1, FS_EmptySet, FS_CardinalityType, Zenon
    <2>9. IsLast(t) <=> Counted(n)' = {}
      BY <2>6, <2>7, <2>8 DEF IsLast
    <2>10. Needed(n)'
      <3>1. Leaving(n)' # {} => IsLast(t)
        BY <2>1, <2>2, <2>5, Zenon
      <3> QED BY <1>0, <2>0, <2>1, <2>2, <2>5, <2>9, <3>1, ZenonT(40)
                 DEF Kept, Needed
    <2>11. CountIs(n)'
      BY <2>0, <2>4, <2>6, <2>7, ZenonT(40) DEF CountIs
    <2>12. Pending(n) = 1
      BY <2>6, <2>7, <2>8, SMTT(30) DEF Pending, Is
    <2>13. Pending(n)' = 1 - Is(t \in Leaving(n)')
      <3>1. init_count'[n] > 0 <=> ~IsLast(t)
        BY <2>0, <2>6, SMTT(30) DEF IsLast
      <3> QED BY <2>1, <2>4, <3>1, SMTT(30) DEF Pending, FirstPending, Is
    <2>14. RefsDue(n)' = RefsDue(n)
      BY <2>7, <2>12, <2>13 DEF Is
    <2> QED BY <1>0, <2>0, <2>10, <2>11, <2>14, ZenonT(40) DEF Kept, RefsAre
  <1> QED BY <1>2, <1>3, Zenon

(* A thread that need not call C_Finalize finds the module down.             *)
LEMMA FinalizeMutexKeeps ==
    ASSUME CInv, TypeOK', NEW t \in Threads, NEW m \in Modules, m = on[t], FinalizeMutex(t),
           NEW n \in Ours
    PROVE  Kept(n)'
  <1>0. TypeOK /\ Kept(n) /\ n \in Modules /\ t \in alive
    BY Zenon DEF CInv, Inv, Ours, FinalizeMutex, Running
  <1>1. Others(t) /\ OthersAccount(t, n)
    <2>1. Others(t)
      BY <1>0, Zenon
         DEF FinalizeMutex, Others, TypeOK, Goto, ForgetLocals, modvars
    <2> QED BY <1>0, <2>1, OthersKeep, Zenon
  <1>2. CASE n # m
    BY <1>0, <1>1, <1>2, AwayKeeps, Zenon
       DEF FinalizeMutex, Running, Goto, Away, TypeOK, modvars
  <1>3. CASE n = m
    <2> USE <1>3
    <2>0. /\ pc[t] = "fin.mutex" /\ pc'[t] \in {"finalizing", "fin.lock"}
          /\ pc'[t] = "fin.lock" => initialize_called[n] # forkid
          /\ UNCHANGED <<forkid, alive, loaded, initialized, on, rv, lower, seen,
                         init_count, ref_count>>
      BY <1>0, ZenonT(40) DEF FinalizeMutex, Running, Goto, TypeOK
    <2>1. /\ t \in Leaving(n) /\ t \in Leaving(n)' /\ t \in Stopping(n)
          /\ t \in Closures(n)' <=> t \in Closures(n)
          /\ t \notin Users(n) \cup Deciding(n) \cup Starting(n) \cup Entering(n)
                \cup Writing(n)
          /\ t \notin Users(n)' \cup Deciding(n)' \cup Starting(n)' \cup Entering(n)'
                \cup Writing(n)'
          /\ t \in Stopping(n)' <=> pc'[t] = "finalizing"
      BY <1>0, <2>0, Zenon DEF TypeOK, Users, Deciding, Starting, Stopping,
         Leaving, Entering, Closures, Writing, Initializing, Finalizing,
         InitPCs,
         FinPCs
    <2>2. /\ Counted(n)' = Counted(n) /\ Starting(n)' = Starting(n)
          /\ Leaving(n)' = Leaving(n)
          /\ Writing(n)' = Writing(n) /\ Deciding(n)' = Deciding(n)
      BY <1>0, <1>1, <2>1, AccountStays, Zenon
    <2>3. pc'[t] = "fin.lock" => lower[n] # "ours"
      BY <1>0, <2>0, Zenon DEF CInv, Inv, CalledIsAccurate
    <2>4. Needed(n)'
      <3>1. lower[n] = "ours" => t \in Stopping(n)'
        BY <2>0, <2>1, <2>3, Zenon
      <3> QED BY <1>0, <2>0, <2>2, <3>1, Zenon DEF Kept, Needed
    <2>5. CountIs(n)'
      BY <1>0, <2>0, <2>2, Zenon DEF Kept, CountIs
    <2>6. Pending(n)' = Pending(n)
      BY <2>0, <2>2, Zenon DEF Pending, FirstPending
    <2>7. RefsDue(n)' = RefsDue(n) /\ RefsDue(n) \in Nat
      BY <1>0, <1>1, <2>1, <2>6, DueStep, SMTT(30) DEF Is
    <2> QED BY <1>0, <2>0, <2>4, <2>5, <2>7, Zenon DEF Kept, RefsAre
  <1> QED BY <1>2, <1>3, Zenon

(* C_Finalize takes down a module nobody counts on.                          *)
LEMMA FinalizeReturnKeeps ==
    ASSUME CInv, TypeOK', NEW t \in Threads, NEW m \in Modules, m = on[t], FinalizeReturn(t),
           NEW n \in Ours
    PROVE  Kept(n)'
  <1>0. TypeOK /\ Kept(n) /\ n \in Modules /\ t \in alive
    BY Zenon DEF CInv, Inv, Ours, FinalizeReturn, Running
  <1>1. Others(t) /\ OthersAccount(t, n)
    <2>1. Others(t)
      BY <1>0, Zenon
         DEF FinalizeReturn, Others, TypeOK, Goto, ForgetLocals, modvars
    <2> QED BY <1>0, <2>1, OthersKeep, Zenon
  <1>2. CASE n # m
    BY <1>0, <1>1, <1>2, AwayKeeps, Zenon
       DEF FinalizeReturn, Running, Goto, Away, TypeOK, modvars
  <1>3. CASE n = m
    <2> USE <1>3
    <2>0. /\ pc[t] = "finalizing" /\ pc' = [pc EXCEPT ![t] = "fin.lock"]
          /\ lower'[n] = "down" /\ NoUseAfterFree
          /\ UNCHANGED <<forkid, alive, loaded, initialized, on, rv, seen,
                         init_count, ref_count>>
      BY <1>0, Zenon DEF FinalizeReturn, Running, Goto, TypeOK
    <2>1. /\ t \in Leaving(n) /\ t \in Leaving(n)'
          /\ t \in Closures(n)' <=> t \in Closures(n)
          /\ t \notin Users(n) \cup Deciding(n) \cup Starting(n) \cup Entering(n)
                \cup Writing(n)
          /\ t \notin Users(n)' \cup Deciding(n)' \cup Starting(n)' \cup Entering(n)'
                \cup Writing(n)'
      BY <1>0, <2>0, Zenon DEF TypeOK, Users, Deciding, Starting, Stopping,
         Leaving, Entering, Closures, Writing, Initializing, Finalizing,
         InitPCs,
         FinPCs
    <2>2. /\ Counted(n)' = Counted(n) /\ Starting(n)' = Starting(n)
          /\ Leaving(n)' = Leaving(n)
          /\ Writing(n)' = Writing(n) /\ Deciding(n)' = Deciding(n)
      BY <1>0, <1>1, <2>1, AccountStays, Zenon
    <2>3. Counted(n) = {} /\ Starting(n) = {}
      <3>1. Counted(n) = {}
        BY <1>0, <2>1, Zenon DEF Kept, Needed
      <3>2. Starting(n) = {}
        BY <1>0, <2>0, SMTT(30)
           DEF CInv, Calls, TypeOK, Starting, InitPCs, FinPCs
      <3> QED BY <3>1, <3>2, Zenon
    <2>4. Needed(n)'
      BY <2>0, <2>2, <2>3, Zenon DEF Needed
    <2>5. CountIs(n)'
      BY <1>0, <2>0, <2>2, Zenon DEF Kept, CountIs
    <2>6. Pending(n)' = Pending(n)
      BY <2>0, <2>2, Zenon DEF Pending, FirstPending
    <2>7. RefsDue(n)' = RefsDue(n) /\ RefsDue(n) \in Nat
      BY <1>0, <1>1, <2>1, <2>6, DueStep, SMTT(30) DEF Is
    <2> QED BY <1>0, <2>0, <2>4, <2>5, <2>7, Zenon DEF Kept, RefsAre
  <1> QED BY <1>2, <1>3, Zenon

(* A closure of the parent process is not counted, before or after.          *)
LEMMA FinalizeWrongProcessKeeps ==
    ASSUME CInv, TypeOK', NEW t \in Threads, NEW m \in Modules, FinalizeWrongProcess(t, m),
           NEW n \in Ours
    PROVE  Kept(n)'
  <1>0. TypeOK /\ Kept(n) /\ n \in Modules /\ t \in alive
    BY Zenon DEF CInv, Inv, Ours, FinalizeWrongProcess, Running
  <1>1. Others(t) /\ OthersAccount(t, n)
    <2>1. Others(t)
      BY <1>0, Zenon
         DEF FinalizeWrongProcess, Others, TypeOK, Goto, ForgetLocals, modvars
    <2> QED BY <1>0, <2>1, OthersKeep, Zenon
  <1>2. /\ pc[t] = "idle" /\ initialized[t][m] # forkid
        /\ initialized' = [initialized EXCEPT ![t][m] = 0]
        /\ UNCHANGED <<lower, init_count, ref_count, loaded, pc, forkid>>
    BY Zenon DEF FinalizeWrongProcess, Running, modvars
  <1>3. initialized'[t][n] = forkid <=> initialized[t][n] = forkid
    BY <1>0, <1>2, SMTT(30) DEF TypeOK
  <1> QED BY <1>0, <1>1, <1>2, <1>3, AwayKeeps, Zenon DEF Away
-----------------------------------------------------------------------------
(* Everybody a module's counts account for holds a closure of it.            *)
LEMMA AccountsHold ==
    ASSUME TypeOK, Calls, NEW n \in Modules
    PROVE  /\ Users(n) \subseteq Closures(n) /\ Deciding(n) \subseteq Closures(n)
           /\ Starting(n) \subseteq Closures(n) /\ Stopping(n) \subseteq Closures(n)
           /\ Leaving(n) \subseteq Closures(n) /\ Entering(n) \subseteq Closures(n)
           /\ Writing(n) \subseteq Closures(n)
  <1>1. \A u \in alive : (initialized[u][n] = forkid => n \in loaded[u])
                      /\ (pc[u] # "idle" /\ on[u] = n => n \in loaded[u])
    BY Zenon DEF TypeOK, Calls
  <1> QED BY <1>1, Zenon DEF Users, Deciding, Starting, Stopping,
         Leaving, Entering, Closures, Writing, Initializing, Finalizing, InitPCs,
         FinPCs

LEMMA AccountsHoldNext ==
    ASSUME TypeOK', Calls', NEW n \in Modules
    PROVE  /\ Users(n)' \subseteq Closures(n)' /\ Deciding(n)' \subseteq Closures(n)'
           /\ Starting(n)' \subseteq Closures(n)' /\ Stopping(n)' \subseteq Closures(n)'
           /\ Leaving(n)' \subseteq Closures(n)' /\ Entering(n)' \subseteq Closures(n)'
           /\ Writing(n)' \subseteq Closures(n)'
  <1>1. \A u \in alive' : (initialized'[u][n] = forkid' => n \in loaded'[u])
                       /\ (pc'[u] # "idle" /\ on'[u] = n => n \in loaded'[u])
    BY Zenon DEF TypeOK, Calls
  <1> QED BY <1>1, Zenon DEF Users, Deciding, Starting, Stopping,
         Leaving, Entering, Closures, Writing, Initializing, Finalizing, InitPCs,
         FinPCs

(* A module that nobody holds, down and not counted, is kept.                *)
LEMMA NobodyHolds ==
    ASSUME TypeOK, Calls, NEW n \in Modules, Closures(n) = {},
           ref_count[n] = 0, init_count[n] = 0, lower[n] = "down"
    PROVE  Kept(n)
  <1>1. /\ Counted(n) = {} /\ Starting(n) = {} /\ Stopping(n) = {} /\ Leaving(n) = {}
        /\ Entering(n) = {} /\ Writing(n) = {} /\ Deciding(n) = {}
    BY AccountsHold, Zenon DEF Counted
  <1>2. Cardinality({}) = 0
    BY FS_EmptySet, Zenon
  <1>3. RefsDue(n) = 0
    BY <1>1, <1>2 DEF RefsDue, FirstPending
  <1> QED BY <1>1, <1>2, <1>3, SMTT(30) DEF Kept, Needed, CountIs, RefsAre

LEMMA NobodyHoldsNext ==
    ASSUME TypeOK', Calls', NEW n \in Modules, Closures(n)' = {},
           ref_count'[n] = 0, init_count'[n] = 0, lower'[n] = "down"
    PROVE  Kept(n)'
  <1>1. /\ Counted(n)' = {} /\ Starting(n)' = {} /\ Stopping(n)' = {} /\ Leaving(n)' = {}
        /\ Entering(n)' = {} /\ Writing(n)' = {} /\ Deciding(n)' = {}
    BY AccountsHoldNext, Zenon DEF Counted
  <1>2. Cardinality({}) = 0
    BY FS_EmptySet, Zenon
  <1>3. RefsDue(n)' = 0
    BY <1>1, <1>2, SMTT(30) DEF RefsDue, FirstPending
  <1> QED BY <1>1, <1>2, <1>3, SMTT(30) DEF Kept, Needed, CountIs, RefsAre

(* A closure keeps the module's reference count up.                          *)
LEMMA HeldIsReferenced ==
    ASSUME TypeOK, NEW n \in Modules, RefsAre(n)
    PROVE  /\ ref_count[n] \in Int
           /\ ref_count[n] >= 2 * Cardinality(Closures(n))
           /\ Cardinality(Closures(n)) \in Nat
           /\ Closures(n) # {} => Cardinality(Closures(n)) >= 1
           /\ Leaving(n) # {} => ref_count[n] >= 2 * Cardinality(Closures(n)) + 1
  <1>1. /\ Cardinality(Closures(n)) \in Nat /\ Cardinality(Entering(n)) \in Nat
        /\ Cardinality(Leaving(n)) \in Nat /\ ref_count[n] \in Int
    BY Finite, Zenon DEF TypeOK
  <1>2. Closures(n) # {} => Cardinality(Closures(n)) # 0
    BY Finite, FS_EmptySet, Zenon
  <1>3. Leaving(n) # {} => Cardinality(Leaving(n)) # 0
    BY Finite, FS_EmptySet, Zenon
  <1> QED BY <1>1, <1>2, <1>3, SMTT(30) DEF RefsAre, RefsDue

(* A module nobody but an idle caller that has not initialized it holds is   *)
(* down.                                                                     *)
LEMMA UnusedIsDown ==
    ASSUME CInv, NEW t \in Threads, NEW n \in Ours, Closures(n) \subseteq {t},
           t \notin Counted(n) \cup Starting(n) \cup Stopping(n)
    PROVE  lower[n] = "down"
  <1>1. TypeOK /\ Calls /\ Kept(n) /\ n \in Modules
    BY Zenon DEF CInv, Inv, Ours
  <1>2. Counted(n) \cup Starting(n) \cup Stopping(n) = {}
    BY <1>1, AccountsHold, Zenon DEF Counted
  <1> QED BY <1>1, <1>2, Zenon DEF Kept, Needed, TypeOK, LowerStates
-----------------------------------------------------------------------------
(* Every step, and the theorems.                                             *)

(* p11_kit_modules_release frees modules only when nobody holds any of ours. *)
LEMMA ReleaseKeeps ==
    ASSUME CInv, TypeOK', Calls', NEW t \in Threads, NEW m \in Modules, Release(t, m),
           NEW n \in Ours
    PROVE  Kept(n)' /\ lower'[n] = lower[n]
  <1>0. TypeOK /\ Kept(n) /\ n \in Modules /\ t \in alive
    BY Zenon DEF CInv, Inv, Ours, Release, Running
  <1>1. Others(t) /\ OthersAccount(t, n)
    <2>1. Others(t)
      BY <1>0, Zenon DEF Release, Others, TypeOK, Goto, ForgetLocals, modvars
    <2> QED BY <1>0, <2>1, OthersKeep, Zenon
  <1> DEFINE refs == [ref_count EXCEPT ![m] = @ - 2]
  <1>2. /\ pc[t] = "idle" /\ m \in loaded[t] /\ initialized[t][m] # forkid
        /\ NoUseAfterFree
        /\ loaded' = [loaded EXCEPT ![t] = @ \ {m}]
        /\ initialized' = [initialized EXCEPT ![t][m] = 0]
        /\ UNCHANGED <<forkid, alive, pc, on, rv, seen>>
        /\ ref_count[n] \in Int /\ refs[n] = IF n = m THEN ref_count[n] - 2 ELSE ref_count[n]
    BY <1>0, Zenon DEF Release, Running, TypeOK
  <1>3. /\ t \in Users(n)' <=> t \in Users(n)
        /\ t \notin Deciding(n) \cup Starting(n) \cup Stopping(n) \cup Leaving(n)
              \cup Entering(n) \cup Writing(n)
        /\ t \notin Deciding(n)' \cup Starting(n)' \cup Stopping(n)' \cup Leaving(n)'
              \cup Entering(n)' \cup Writing(n)'
        /\ n = m => t \in Closures(n) /\ t \notin Closures(n)' /\ t \notin Users(n)
        /\ n # m => (t \in Closures(n)' <=> t \in Closures(n))
    BY <1>0, <1>2, SMTT(30) DEF TypeOK, Users, Deciding, Starting, Stopping,
         Leaving, Entering, Closures, Writing, Initializing, Finalizing,
       InitPCs,
         FinPCs
  <1>4. CASE /\ ref_count' = refs
             /\ UNCHANGED <<present, init_count, initialize_called, initialize_thread, lower>>
    <2>1. CASE n # m
      BY <1>0, <1>1, <1>2, <1>4, <2>1, AwayKeeps, ZenonT(40) DEF Away, TypeOK
    <2>2. CASE n = m
      <3>1. /\ Counted(n)' = Counted(n) /\ Starting(n)' = Starting(n)
            /\ Stopping(n)' = Stopping(n) /\ Leaving(n)' = Leaving(n)
            /\ Writing(n)' = Writing(n) /\ Deciding(n)' = Deciding(n)
        BY <1>0, <1>1, <1>3, AccountStays, Zenon
      <3>2. Needed(n)' /\ CountIs(n)'
        BY <1>0, <1>2, <1>4, <3>1, Zenon DEF Kept, Needed, CountIs
      <3>3. Pending(n)' = Pending(n)
        BY <1>2, <1>4, <3>1, Zenon DEF Pending, FirstPending
      <3>4. RefsDue(n)' = RefsDue(n) - 2 /\ RefsDue(n) \in Nat
        BY <1>0, <1>1, <1>3, <2>2, <3>3, DueStep, SMTT(30) DEF Is
      <3> QED BY <1>0, <1>2, <1>4, <2>2, <3>2, <3>4 DEF Kept, RefsAre
    <2> QED BY <1>4, <2>1, <2>2, Zenon
  <1>5. CASE FreeModulesWhenNoRefs(refs) /\ \A k \in present : refs[k] = 0
    <2>1. /\ ref_count'[n] = 0 /\ init_count'[n] = 0
          /\ lower'[n] = IF lower[n] = "ours" THEN "down" ELSE lower[n]
      BY <1>0, <1>5, Zenon DEF FreeModulesWhenNoRefs
    <2>2. n \in present => ref_count[n] = IF n = m THEN 2 ELSE 0
      BY <1>2, <1>5
    <2>3. Closures(n) # {} => n \in present
      BY <1>0, <1>2, Zenon DEF Closures, NoUseAfterFree
    <2>4. Closures(n) # {} => n = m /\ Cardinality(Closures(n)) = 1
      BY <1>0, <2>2, <2>3, HeldIsReferenced DEF Kept
    <2>5. Closures(n) \subseteq {t}
      <3>1. CASE Closures(n) # {}
        <4>1. Cardinality(Closures(n) \ {t}) = 0
          BY <1>0, <1>3, <2>4, <3>1, Finite, OneLess
        <4>2. IsFiniteSet(Closures(n) \ {t})
          BY <1>0, Finite, FS_Subset, Zenon
        <4> QED BY <4>1, <4>2, FS_EmptySet, Zenon
      <3> QED BY <3>1, Zenon
    <2>6. Closures(n)' = {}
      BY <1>1, <1>3, <2>4, <2>5, Zenon DEF OthersAccount
    <2>7. t \notin Counted(n) \/ Closures(n) = {}
      BY <1>3, <2>4, Zenon DEF Counted
    <2>8. lower[n] = "down"
      <3>1. t \notin Counted(n) \cup Starting(n) \cup Stopping(n)
        BY <1>0, <1>3, <2>7, AccountsHold, Zenon DEF Counted, CInv
      <3> QED BY <2>5, <3>1, UnusedIsDown, Zenon
    <2> QED BY <1>0, <2>1, <2>6, <2>8, NobodyHoldsNext, Zenon
  <1>6. \/ /\ ref_count' = refs
           /\ UNCHANGED <<present, init_count, initialize_called, initialize_thread, lower>>
        \/ FreeModulesWhenNoRefs(refs) /\ \A k \in present : refs[k] = 0
    BY Zenon DEF Release, FreeModulesWhenNoRefs
  <1> QED BY <1>4, <1>5, <1>6, Zenon

(* finalize_module_inlock_reentrant never frees a module of ours: the        *)
(* closure it was called through still refers to one.                        *)
LEMMA FinalizeLockKeeps ==
    ASSUME CInv, TypeOK', Calls', NEW t \in Threads, NEW m \in Modules, m = on[t], FinalizeLock(t),
           NEW n \in Ours
    PROVE  Kept(n)' /\ lower'[n] = lower[n]
  <1>0. TypeOK /\ Kept(n) /\ n \in Modules /\ t \in alive
    BY Zenon DEF CInv, Inv, Ours, FinalizeLock, Running
  <1>1. Others(t) /\ OthersAccount(t, n)
    <2>1. Others(t)
      BY <1>0, Zenon
         DEF FinalizeLock, Others, TypeOK, Goto, ForgetLocals, modvars
    <2> QED BY <1>0, <2>1, OthersKeep, Zenon
  <1> DEFINE refs == DropRef(m)
  <1>2. /\ pc[t] = "fin.lock" /\ NoUseAfterFree
        /\ pc' = [pc EXCEPT ![t] = "idle"]
        /\ initialized' = [initialized EXCEPT ![t][m] = 0]
        /\ UNCHANGED <<forkid, alive, loaded, on, rv, seen>>
        /\ ref_count[n] \in Int /\ refs[n] = IF n = m THEN ref_count[n] - 1 ELSE ref_count[n]
    BY <1>0, Zenon DEF FinalizeLock, Running, Goto, DropRef, TypeOK
  <1>3. CASE /\ ref_count' = refs
             /\ UNCHANGED <<present, init_count, initialize_called, initialize_thread, lower>>
    <2>1. CASE n # m
      BY <1>0, <1>1, <1>2, <1>3, <2>1, AwayKeeps, ZenonT(40) DEF Away, TypeOK
    <2>2. CASE n = m
      <3>0. /\ t \in Leaving(n) /\ t \notin Leaving(n)'
            /\ t \in Closures(n)' <=> t \in Closures(n)
            /\ t \notin Users(n) \cup Deciding(n) \cup Starting(n) \cup Stopping(n)
                  \cup Entering(n) \cup Writing(n)
            /\ t \notin Users(n)' \cup Deciding(n)' \cup Starting(n)' \cup Stopping(n)'
                  \cup Entering(n)' \cup Writing(n)'
        BY <1>0, <1>2, <2>2, SMTT(30)
           DEF TypeOK, Users, Deciding, Starting, Stopping,
         Leaving, Entering, Closures, Writing, Initializing, Finalizing,
           InitPCs,
         FinPCs
      <3>1. /\ Counted(n)' = Counted(n) /\ Starting(n)' = Starting(n)
            /\ Stopping(n)' = Stopping(n)
            /\ Writing(n)' = Writing(n) /\ Deciding(n)' = Deciding(n)
        BY <1>0, <1>1, <3>0, AccountStays, Zenon
      <3>2. Leaving(n)' \subseteq Leaving(n)
        BY <1>1, <3>0, Zenon DEF OthersAccount
      <3>3. Needed(n)'
        BY <1>0, <1>3, <3>1, <3>2, Zenon DEF Kept, Needed
      <3>4. CountIs(n)'
        BY <1>0, <1>2, <1>3, <3>1, Zenon DEF Kept, CountIs
      <3>5. Pending(n)' = Pending(n)
        BY <1>2, <1>3, <3>1, Zenon DEF Pending, FirstPending
      <3>6. RefsDue(n)' = RefsDue(n) - 1 /\ RefsDue(n) \in Nat
        BY <1>0, <1>1, <3>0, <3>5, DueStep, SMTT(30) DEF Is
      <3> QED BY <1>0, <1>2, <1>3, <2>2, <3>3, <3>4, <3>6 DEF Kept, RefsAre
    <2> QED BY <1>3, <2>1, <2>2, Zenon
  <1>4. CASE FreeModulesWhenNoRefs(refs) /\ \A k \in present : refs[k] = 0
    <2>1. /\ ref_count'[n] = 0 /\ init_count'[n] = 0
          /\ lower'[n] = IF lower[n] = "ours" THEN "down" ELSE lower[n]
      BY <1>0, <1>4, Zenon DEF FreeModulesWhenNoRefs
    <2>2. n \in present => ref_count[n] = IF n = m THEN 1 ELSE 0
      BY <1>2, <1>4
    <2>3. Closures(n) # {} => n \in present
      BY <1>0, <1>2, Zenon DEF Closures, NoUseAfterFree
    <2>4. Closures(n) = {}
      BY <1>0, <2>2, <2>3, HeldIsReferenced DEF Kept
    <2>5. Closures(n)' = {}
      BY <1>2, <2>4, Zenon DEF Closures
    <2>6. lower[n] = "down"
      <3>1. t \notin Counted(n) \cup Starting(n) \cup Stopping(n)
        BY <1>0, <2>4, AccountsHold, Zenon DEF Counted, CInv
      <3> QED BY <2>4, <3>1, UnusedIsDown, Zenon
    <2> QED BY <1>0, <2>1, <2>5, <2>6, NobodyHoldsNext, Zenon
  <1>5. \/ /\ ref_count' = refs
           /\ UNCHANGED <<present, init_count, initialize_called, initialize_thread, lower>>
        \/ FreeModulesWhenNoRefs(refs) /\ \A k \in present : refs[k] = 0
    BY Zenon DEF FinalizeLock, FreeModulesWhenNoRefs
  <1> QED BY <1>3, <1>4, <1>5, Zenon

(* The child of a fork has the references of threads it does not have.       *)
LEMMA ForkKeeps ==
    ASSUME CInv, TypeOK', Calls', NEW t \in Threads, Fork(t), NEW n \in Ours
    PROVE  Kept(n)' /\ lower'[n] = "down" /\ Users(n)' = {}
  <1>0. TypeOK /\ Calls /\ Kept(n) /\ n \in Modules /\ t \in alive
    BY Zenon DEF CInv, Inv, Ours, Fork, Running
  <1>1. /\ \A u \in Threads : pc[u] = "idle"
        /\ forkid' = forkid + 1 /\ forkid \in Nat /\ forkid >= 1
        /\ alive' = {t} /\ lower'[n] = "down"
        /\ UNCHANGED <<ref_count, init_count, loaded, initialized, pc, on, rv, seen>>
    BY <1>0, SMTT(30) DEF Fork, NextForkId, TypeOK
  <1>2. initialized[t][n] # forkid'
    <2>1. initialized[t][n] <= forkid /\ initialized[t][n] \in Nat
      BY <1>0, SMTT(30) DEF Calls, TypeOK
    <2> QED BY <1>1, <2>1
  <1>3. /\ Users(n)' = {} /\ Deciding(n)' = {} /\ Starting(n)' = {} /\ Stopping(n)' = {}
        /\ Leaving(n)' = {} /\ Entering(n)' = {} /\ Writing(n)' = {}
    BY <1>0, <1>1, <1>2, Zenon DEF Users, Deciding, Starting, Stopping,
         Leaving, Entering, Closures, Writing, Initializing, Finalizing,
       InitPCs,
         FinPCs
  <1>4. Leaving(n) = {} /\ Entering(n) = {} /\ Writing(n) = {}
    BY <1>0, <1>1, Zenon
       DEF TypeOK, Leaving, Entering, Writing, Initializing, InitPCs, FinPCs
  <1>5. Closures(n)' \subseteq Closures(n)
    BY <1>0, <1>1, Zenon DEF Closures
  <1>6. /\ Cardinality(Closures(n)') <= Cardinality(Closures(n))
        /\ Cardinality(Closures(n)') \in Nat /\ Cardinality(Closures(n)) \in Nat
    <2>1. IsFiniteSet(Closures(n)) /\ IsFiniteSet(Closures(n)')
      BY <1>0, <1>5, Finite, FS_Subset, Zenon
    <2> QED BY <1>5, <2>1, FS_Subset, FS_CardinalityType, Zenon
  <1>7. Needed(n)' /\ CountIs(n)'
    BY <1>1, <1>3, SMTT(30) DEF Needed, CountIs, Counted
  <1>8. RefsDue(n)' <= RefsDue(n) /\ RefsDue(n) \in Nat /\ RefsDue(n)' \in Nat
    <2>1. Cardinality({}) = 0
      BY FS_EmptySet, Zenon
    <2>2. FirstPending(n)' = FALSE /\ FirstPending(n) = FALSE
      BY <1>3, <1>4, Zenon DEF FirstPending
    <2>3. RefsDue(n) = 2 * Cardinality(Closures(n)) + Is(init_count[n] > 0)
      BY <1>4, <1>6, <2>1, <2>2, SMTT(30) DEF RefsDue, Is
    <2>4. RefsDue(n)' = 2 * Cardinality(Closures(n)') + Is(init_count[n] > 0)
      BY <1>1, <1>3, <1>6, <2>1, <2>2, SMTT(30) DEF RefsDue, Is
    <2>5. Is(init_count[n] > 0) \in {0, 1}
      BY DEF Is
    <2> QED BY <1>6, <2>3, <2>4, <2>5
  <1>9. RefsAre(n)'
    <2>1. ref_count[n] \in Int
      BY <1>0, Zenon DEF TypeOK
    <2> QED BY <1>0, <1>1, <1>8, <2>1, SMTT(30) DEF Kept, RefsAre
  <1> QED BY <1>1, <1>3, <1>7, <1>9, Zenon DEF Kept

(* The state in which the library is loaded.                                 *)
LEMMA InitCInv == Init => CInv
  <1> SUFFICES ASSUME Init PROVE CInv
    BY Zenon
  <1>1. Inv /\ TypeOK
    BY InitInv, Zenon DEF Inv
  <1>2. Calls
    BY ThreadsAssumption DEF Init, Calls, InitPCs, FinPCs
  <1>3. ASSUME NEW n \in Ours PROVE Kept(n)
    <2>1. /\ n \in Modules /\ Closures(n) = {} /\ ref_count[n] = 0
          /\ init_count[n] = 0 /\ lower[n] = "down"
      BY Zenon DEF Init, Ours, Closures
    <2> QED BY <1>1, <1>2, <2>1, NobodyHolds, Zenon
  <1> QED BY <1>1, <1>2, <1>3, Zenon DEF CInv

(* Every step preserves the invariant when initializing and finalizing are   *)
(* kept apart.                                                               *)
LEMMA CInvStep ==
    ASSUME CInv, ~Overlap, [Next]_vars
    PROVE  CInv'
  <1>0. TypeOK /\ TypeOK' /\ Inv' /\ Calls'
    <2>1. Inv'
      BY InvStep, Zenon DEF CInv
    <2>2. Calls'
      BY CallsStep, Zenon DEF CInv
    <2> QED BY <2>1, <2>2, Zenon DEF CInv, Inv
  <1> SUFFICES ASSUME NEW n \in Ours PROVE Kept(n)'
    BY <1>0, Zenon DEF CInv
  <1>1. ASSUME NEW t \in Threads, NEW m \in Modules, Load(t, m) PROVE Kept(n)'
    BY <1>0, <1>1, LoadKeeps, Zenon
  <1>2. ASSUME NEW t \in Threads, NEW m \in Modules, Release(t, m) PROVE Kept(n)'
    BY <1>0, <1>2, ReleaseKeeps, Zenon
  <1>3. ASSUME NEW t \in Threads, NEW m \in Modules, InitializeEnter(t, m) PROVE Kept(n)'
    BY <1>0, <1>3, InitializeEnterKeeps, Zenon
  <1>4. ASSUME NEW t \in Threads, NEW m \in Modules, FinalizeEnter(t, m) PROVE Kept(n)'
    BY <1>0, <1>4, FinalizeEnterKeeps, Zenon
  <1>5. ASSUME NEW t \in Threads, NEW m \in Modules, FinalizeWrongProcess(t, m) PROVE Kept(n)'
    BY <1>0, <1>5, FinalizeWrongProcessKeeps, Zenon
  <1>6. ASSUME NEW t \in Threads, InitializeMutex(t) PROVE Kept(n)'
    <2>1. PICK m \in Modules : m = on[t]
      BY <1>0, Zenon DEF TypeOK
    <2> QED BY <1>0, <1>6, <2>1, InitializeMutexKeeps, Zenon
  <1>7. ASSUME NEW t \in Threads, InitializeRecursive(t) PROVE Kept(n)'
    <2>1. PICK m \in Modules : m = on[t]
      BY <1>0 DEF TypeOK
    <2> QED BY <1>0, <1>7, <2>1, InitializeRecursiveKeeps, Zenon
  <1>8. ASSUME NEW t \in Threads, InitializeReturn(t) PROVE Kept(n)'
    <2>1. PICK m \in Modules : m = on[t]
      BY <1>0, Zenon DEF TypeOK
    <2> QED BY <1>0, <1>8, <2>1, InitializeReturnKeeps, Zenon
  <1>9. ASSUME NEW t \in Threads, InitializeLock(t) PROVE Kept(n)'
    <2>1. PICK m \in Modules : m = on[t]
      BY <1>0, Zenon DEF TypeOK
    <2> QED BY <1>0, <1>9, <2>1, InitializeLockKeeps, Zenon
  <1>10. ASSUME NEW t \in Threads, InitializeCount(t) PROVE Kept(n)'
    <2>1. PICK m \in Modules : m = on[t]
      BY <1>0, Zenon DEF TypeOK
    <2> QED BY <1>0, <1>10, <2>1, InitializeCountKeeps, Zenon
  <1>11. ASSUME NEW t \in Threads, FinalizeCount(t) PROVE Kept(n)'
    <2>1. PICK m \in Modules : m = on[t]
      BY <1>0, Zenon DEF TypeOK
    <2> QED BY <1>0, <1>11, <2>1, FinalizeCountKeeps, Zenon
  <1>12. ASSUME NEW t \in Threads, FinalizeMutex(t) PROVE Kept(n)'
    <2>1. PICK m \in Modules : m = on[t]
      BY <1>0, Zenon DEF TypeOK
    <2> QED BY <1>0, <1>12, <2>1, FinalizeMutexKeeps, Zenon
  <1>13. ASSUME NEW t \in Threads, FinalizeReturn(t) PROVE Kept(n)'
    <2>1. PICK m \in Modules : m = on[t]
      BY <1>0, Zenon DEF TypeOK
    <2> QED BY <1>0, <1>13, <2>1, FinalizeReturnKeeps, Zenon
  <1>14. ASSUME NEW t \in Threads, FinalizeLock(t) PROVE Kept(n)'
    <2>1. PICK m \in Modules : m = on[t]
      BY <1>0, Zenon DEF TypeOK
    <2> QED BY <1>0, <1>14, <2>1, FinalizeLockKeeps, Zenon
  <1>15. ASSUME NEW t \in Threads, Fork(t) PROVE Kept(n)'
    BY <1>0, <1>15, ForkKeeps, Zenon
  <1>16. CASE UNCHANGED vars
    <2>1. SameAccounts(n)
      BY <1>16, Zenon
         DEF vars, SameAccounts, Users, Deciding, Starting, Stopping,
         Leaving, Entering, Closures, Writing, Initializing, Finalizing,
         InitPCs,
         FinPCs
    <2> QED BY <1>16, <2>1, SameKeeps, Zenon DEF vars, modvars, CInv, Ours
  <1> QED
    BY <1>1, <1>2, <1>3, <1>4, <1>5, <1>6, <1>7, <1>8, Zenon,
       <1>9, <1>10, <1>11, <1>12, <1>13, <1>14, <1>15, <1>16
    DEF Next, ThreadStep, CallerStep

(* The invariant of the counts, for callers that keep C_Initialize and       *)
(* C_Finalize of a module apart.                                             *)
THEOREM CInvAlways ==
    ASSUME ~Overlap
    PROVE  Spec => []CInv
  <1>1. CInv /\ [Next]_vars => CInv'
    BY CInvStep, Zenon
  <1> QED BY <1>1, InitCInv, PTL DEF Spec

(* As long as callers keep C_Initialize and C_Finalize of a module apart, a  *)
(* caller whose C_Initialize has succeeded can use the module until it calls *)
(* C_Finalize itself, whatever the others do, across forks and releases.     *)
THEOREM UsersKeepModule ==
    ASSUME ~Overlap, External = {}
    PROVE  Spec => []InitializedStaysUp
  <1>1. CInv => InitializedStaysUp
    BY Zenon DEF CInv, Ours, Kept, Needed, Counted, InitializedStaysUp
  <1> QED BY <1>1, CInvAlways, PTL

(* A Module is not freed under a caller: only Load and the two steps that    *)
(* free modules change which ones exist.                                     *)
LEMMA InUseIsPresent ==
    ASSUME CInv, CInv', External = {}, NoUseAfterFree, [Next]_vars
    PROVE  NoUseAfterFree'
  <1>0. TypeOK /\ TypeOK' /\ Calls'
    BY Zenon DEF CInv, Inv
  <1> SUFFICES ASSUME NEW u \in alive', NEW n \in Modules, n \in loaded'[u]
               PROVE  n \in present'
    <2>1. \A v \in alive', k \in Modules :
             (Initializing(v, k) \/ Finalizing(v, k))' => k \in loaded'[v]
      BY <1>0, ZenonT(40)
         DEF Calls, TypeOK, Initializing, Finalizing, InitPCs, FinPCs
    <2> QED BY <2>1, Zenon DEF NoUseAfterFree
  <1>1. u \in Threads /\ n \in Ours /\ Kept(n)' /\ u \in Closures(n)'
    BY <1>0, Zenon DEF CInv, Ours, Closures, TypeOK
  <1>2. ref_count'[n] # 0
    <2>1. ref_count'[n] >= RefsDue(n)'
      BY <1>1, Zenon DEF Kept, RefsAre
    <2>2. IsFiniteSet(alive') /\ Closures(n)' \subseteq alive'
          /\ Entering(n)' \subseteq alive' /\ Leaving(n)' \subseteq alive'
      BY <1>0, ThreadsAssumption, FS_Subset, Zenon
         DEF TypeOK, Closures, Entering, Leaving
    <2>3. IsFiniteSet(Closures(n)') /\ IsFiniteSet(Entering(n)') /\ IsFiniteSet(Leaving(n)')
      BY <2>2, FS_Subset, Zenon
    <2>4. /\ Cardinality(Closures(n)') \in Nat /\ Cardinality(Closures(n)') # 0
          /\ Cardinality(Entering(n)') \in Nat /\ Cardinality(Leaving(n)') \in Nat
      BY <1>1, <2>3, FS_EmptySet, FS_CardinalityType, Zenon
    <2>5. ref_count'[n] \in Int
      BY <1>0, Zenon DEF TypeOK
    <2> QED BY <2>1, <2>4, <2>5 DEF RefsDue
  <1>3. ASSUME NEW t \in Threads, NEW m \in Modules, Load(t, m) PROVE n \in present'
    BY <1>0, <1>1, <1>3, Zenon DEF Load, NoUseAfterFree, TypeOK
  <1>4. ASSUME NEW t \in Threads, NEW m \in Modules, Release(t, m) PROVE n \in present'
    <2>1. present' = present \/ ref_count'[n] = 0
      BY <1>4, Zenon DEF Release, FreeModulesWhenNoRefs
    <2>2. n \in loaded[u] /\ u \in alive
      BY <1>0, <1>1, <1>4, ZenonT(40) DEF Release, TypeOK
    <2> QED BY <1>2, <2>1, <2>2, Zenon DEF NoUseAfterFree
  <1>5. ASSUME NEW t \in Threads, FinalizeLock(t) PROVE n \in present'
    <2>1. present' = present \/ ref_count'[n] = 0
      BY <1>5, Zenon DEF FinalizeLock, FreeModulesWhenNoRefs
    <2>2. n \in loaded[u] /\ u \in alive
      BY <1>1, <1>5, Zenon DEF FinalizeLock
    <2> QED BY <1>2, <2>1, <2>2, Zenon DEF NoUseAfterFree
  <1>6. CASE UNCHANGED <<present, loaded>> /\ alive' \subseteq alive
    BY <1>1, <1>6, Zenon DEF NoUseAfterFree
  <1>7. ASSUME NEW t \in Threads, NEW m \in Modules,
               InitializeEnter(t, m) \/ FinalizeEnter(t, m) \/ FinalizeWrongProcess(t, m)
        PROVE  UNCHANGED <<present, loaded>> /\ alive' \subseteq alive
    BY <1>7, Zenon
       DEF InitializeEnter, FinalizeEnter, FinalizeWrongProcess, modvars
  <1>8. ASSUME NEW t \in Threads,
               \/ InitializeMutex(t) \/ InitializeRecursive(t) \/ InitializeReturn(t)
               \/ InitializeLock(t) \/ InitializeCount(t) \/ FinalizeCount(t)
               \/ FinalizeMutex(t) \/ FinalizeReturn(t) \/ Fork(t)
        PROVE  UNCHANGED <<present, loaded>> /\ alive' \subseteq alive
    BY <1>8, Zenon
       DEF InitializeMutex, InitializeRecursive, InitializeReturn,
       InitializeLock,
       InitializeCount, FinalizeCount, FinalizeMutex, FinalizeReturn, Fork,
       Running
  <1>9. CASE UNCHANGED vars
    BY <1>6, <1>9, Zenon DEF vars, modvars
  <1> QED BY <1>3, <1>4, <1>5, <1>6, <1>7, <1>8, <1>9, Zenon
             DEF Next, ThreadStep, CallerStep

(* init_count and ref_count are what the callers account for, until the      *)
(* process forks, and nobody uses a Module that was freed: for callers that  *)
(* keep C_Initialize and C_Finalize apart, and modules nobody else has       *)
(* initialized and that do not call back into p11-kit.                       *)
THEOREM CountsAlwaysHold ==
    ASSUME ~Overlap, External = {}, Reentrant = {}
    PROVE  Spec => []CountsHold
  <1>1. CInv /\ NoUseAfterFree => CountsHold
    BY Zenon
       DEF CInv, Inv, Ours, Kept, CountIs, RefsAre, Counted, CountsHold,
       CountsAreExact
  <1>2. Init => NoUseAfterFree
    BY Zenon DEF Init, NoUseAfterFree, Initializing, Finalizing, InitPCs, FinPCs
  <1>3. CInv /\ CInv' /\ NoUseAfterFree /\ [Next]_vars => NoUseAfterFree'
    BY InUseIsPresent, Zenon
  <1> QED BY <1>1, <1>2, <1>3, CInvAlways, PTL DEF Spec
-----------------------------------------------------------------------------
(* What a step does to the callers that use a module, from what it does to   *)
(* the closure of the thread that takes it.                                  *)
LEMMA UsersStep ==
    ASSUME TypeOK, NEW t \in alive, NEW n \in Modules, Others(t)
    PROVE  /\ Users(n)' \ {t} = Users(n) \ {t}
           /\ t \in Users(n)' <=> initialized'[t][n] = forkid /\ ~Finalizing(t, n)'
           /\ t \in Users(n) <=> initialized[t][n] = forkid /\ ~Finalizing(t, n)
  <1>1. t \in Threads /\ t \in alive' /\ forkid' = forkid
    BY Zenon DEF TypeOK, Others
  <1>2. Users(n)' \ {t} = Users(n) \ {t}
    BY <1>1, OthersKeep, Zenon DEF OthersAccount
  <1> QED BY <1>1, <1>2, Zenon DEF Users

(* A step that changes neither who uses a module nor whether it is up does   *)
(* nothing that ManagedModule sees.                                          *)
LEMMA Unseen ==
    ASSUME \A n \in Ours : Users(n)' = Users(n) /\ lower'[n] = lower[n]
    PROVE  UNCHANGED Promise!vars
  BY Zenon DEF Ours, Promise!vars

(* The steps that are seen: C_Initialize succeeds, a caller is counted, a    *)
(* caller begins to finalize, C_Finalize returns, the process forks.         *)
LEMMA SeenStart ==
    ASSUME NEW m \in Ours, \A n \in Ours : Users(n)' = Users(n),
           \A n \in Ours : n # m => lower'[n] = lower[n],
           lower[m] = "down", lower'[m] = "ours", Users(m) = {}
    PROVE  Promise!Start(m)
  BY Zenon DEF Ours, Promise!Start

LEMMA SeenStop ==
    ASSUME NEW m \in Ours, \A n \in Ours : Users(n)' = Users(n),
           \A n \in Ours : n # m => lower'[n] = lower[n],
           lower[m] = "ours", lower'[m] = "down", Users(m) = {}
    PROVE  Promise!Stop(m)
  BY Zenon DEF Ours, Promise!Stop

LEMMA SeenJoin ==
    ASSUME NEW m \in Ours, NEW t, \A n \in Ours : lower'[n] = lower[n],
           \A n \in Ours : n # m => Users(n)' = Users(n),
           t \notin Users(m), Users(m)' = Users(m) \cup {t}, lower[m] = "ours"
    PROVE  Promise!Join(t, m)
  BY Zenon DEF Ours, Promise!Join

LEMMA SeenLeave ==
    ASSUME NEW m \in Ours, NEW t, \A n \in Ours : lower'[n] = lower[n],
           \A n \in Ours : n # m => Users(n)' = Users(n),
           t \in Users(m), Users(m)' = Users(m) \ {t}
    PROVE  Promise!Leave(t, m)
  BY Zenon DEF Ours, Promise!Leave

LEMMA SeenRestart ==
    ASSUME \A n \in Ours : Users(n)' = {} /\ lower'[n] = "down"
    PROVE  Promise!Restart
  BY Zenon DEF Ours, Promise!Restart

(* Every step is a step of ManagedModule or changes nothing it sees.         *)
LEMMA PromiseStep ==
    ASSUME CInv, CInv', [Next]_vars
    PROVE  [Promise!Next]_(Promise!vars)
  <1>0. TypeOK /\ TypeOK' /\ Calls /\ Calls' /\ Ours \subseteq Modules
    BY Zenon DEF CInv, Inv, Ours
  <1>1. ASSUME NEW t \in Threads, NEW m \in Modules, Load(t, m)
        PROVE  UNCHANGED Promise!vars
    <2>1. t \in alive /\ Others(t) /\ UNCHANGED lower
      BY <1>0, <1>1, Zenon DEF Load, Running, Others, TypeOK, Goto, modvars
    <2>2. ASSUME NEW n \in Ours PROVE Users(n)' = Users(n)
      <3>1. t \in Users(n)' <=> t \in Users(n)
        BY <1>0, <1>1, <2>1, UsersStep, ZenonT(40)
           DEF Load, Running, Goto, TypeOK, Ours,
           Finalizing, InitPCs, FinPCs
      <3> QED BY <1>0, <2>1, <3>1, UsersStep, SameSet, Zenon DEF Ours
    <2> QED BY <2>1, <2>2, Unseen, Zenon
  <1>2. ASSUME NEW t \in Threads, NEW m \in Modules, InitializeEnter(t, m)
        PROVE  UNCHANGED Promise!vars
    <2>1. t \in alive /\ Others(t) /\ UNCHANGED lower
      BY <1>0, <1>2, ZenonT(40)
         DEF InitializeEnter, Running, Others, TypeOK, Goto, modvars
    <2>2. ASSUME NEW n \in Ours PROVE Users(n)' = Users(n)
      <3>1. t \in Users(n)' <=> t \in Users(n)
        BY <1>0, <1>2, <2>1, UsersStep, ZenonT(40)
           DEF InitializeEnter, Running, Goto, TypeOK, Ours,
           Finalizing, InitPCs, FinPCs
      <3> QED BY <1>0, <2>1, <3>1, UsersStep, SameSet, Zenon DEF Ours
    <2> QED BY <2>1, <2>2, Unseen, Zenon
  <1>3. ASSUME NEW t \in Threads, NEW m \in Modules, FinalizeWrongProcess(t, m)
        PROVE  UNCHANGED Promise!vars
    <2>1. t \in alive /\ Others(t) /\ UNCHANGED lower
      BY <1>0, <1>3, ZenonT(40)
         DEF FinalizeWrongProcess, Running, Others, TypeOK, Goto, modvars
    <2>2. ASSUME NEW n \in Ours PROVE Users(n)' = Users(n)
      <3>1. t \in Users(n)' <=> t \in Users(n)
        BY <1>0, <1>3, <2>1, UsersStep, SMTT(30)
           DEF FinalizeWrongProcess, Running, Goto, TypeOK,
           Ours,
           Finalizing, InitPCs, FinPCs
      <3> QED BY <1>0, <2>1, <3>1, UsersStep, SameSet, Zenon DEF Ours
    <2> QED BY <2>1, <2>2, Unseen, Zenon
  <1>4. ASSUME NEW t \in Threads, InitializeMutex(t) PROVE UNCHANGED Promise!vars
    <2>1. t \in alive /\ Others(t) /\ UNCHANGED lower
      BY <1>0, <1>4, Zenon
         DEF InitializeMutex, Running, Others, TypeOK, Goto, ForgetLocals
    <2>2. ASSUME NEW n \in Ours PROVE Users(n)' = Users(n)
      <3>1. t \in Users(n)' <=> t \in Users(n)
        <4>1. /\ pc[t] = "init.mutex" /\ pc'[t] \in {"calling", "init.lock"}
              /\ UNCHANGED <<on, initialized>>
          BY <1>0, <1>4, ZenonT(40) DEF InitializeMutex, Running, Goto, TypeOK
        <4> QED BY <1>0, <2>1, <4>1, UsersStep, ZenonT(40)
                   DEF Finalizing, FinPCs, Ours
      <3> QED BY <1>0, <2>1, <3>1, UsersStep, SameSet, Zenon DEF Ours
    <2> QED BY <2>1, <2>2, Unseen, Zenon
  <1>5. ASSUME NEW t \in Threads, InitializeRecursive(t) PROVE UNCHANGED Promise!vars
    <2>1. t \in alive /\ Others(t) /\ UNCHANGED lower
      BY <1>0, <1>5, ZenonT(40)
         DEF InitializeRecursive, Running, Others, TypeOK, Goto, ForgetLocals
    <2>2. ASSUME NEW n \in Ours PROVE Users(n)' = Users(n)
      <3>1. t \in Users(n)' <=> t \in Users(n)
        BY <1>0, <1>5, <2>1, UsersStep, ZenonT(40)
           DEF InitializeRecursive, Running, Goto,
           TypeOK, Ours,
           Finalizing, InitPCs, FinPCs
      <3> QED BY <1>0, <2>1, <3>1, UsersStep, SameSet, Zenon DEF Ours
    <2> QED BY <2>1, <2>2, Unseen, Zenon
  <1>6. ASSUME NEW t \in Threads, InitializeLock(t) PROVE UNCHANGED Promise!vars
    <2>1. t \in alive /\ Others(t) /\ UNCHANGED lower
      BY <1>0, <1>6, ZenonT(40)
         DEF InitializeLock, Running, Others, TypeOK, Goto, ForgetLocals
    <2>2. ASSUME NEW n \in Ours PROVE Users(n)' = Users(n)
      <3>1. t \in Users(n)' <=> t \in Users(n)
        BY <1>0, <1>6, <2>1, UsersStep, ZenonT(40)
           DEF InitializeLock, Running, Goto, TypeOK, Ours,
           Finalizing, InitPCs, FinPCs
      <3> QED BY <1>0, <2>1, <3>1, UsersStep, SameSet, Zenon DEF Ours
    <2> QED BY <2>1, <2>2, Unseen, Zenon
  <1>7. ASSUME NEW t \in Threads, FinalizeMutex(t) PROVE UNCHANGED Promise!vars
    <2>1. t \in alive /\ Others(t) /\ UNCHANGED lower
      BY <1>0, <1>7, ZenonT(40)
         DEF FinalizeMutex, Running, Others, TypeOK, Goto, ForgetLocals
    <2>2. ASSUME NEW n \in Ours PROVE Users(n)' = Users(n)
      <3>1. t \in Users(n)' <=> t \in Users(n)
        BY <1>0, <1>7, <2>1, UsersStep, ZenonT(40)
           DEF FinalizeMutex, Running, Goto, TypeOK, Ours,
           Finalizing, InitPCs, FinPCs
      <3> QED BY <1>0, <2>1, <3>1, UsersStep, SameSet, Zenon DEF Ours
    <2> QED BY <2>1, <2>2, Unseen, Zenon
  <1>8. ASSUME NEW t \in Threads, FinalizeCount(t) PROVE UNCHANGED Promise!vars
    <2>1. t \in alive /\ Others(t) /\ UNCHANGED lower
      BY <1>0, <1>8, SMTT(30)
         DEF FinalizeCount, Running, Others, TypeOK, Goto, ForgetLocals
    <2>2. ASSUME NEW n \in Ours PROVE Users(n)' = Users(n)
      <3>1. t \in Users(n)' <=> t \in Users(n)
        <4>1. /\ pc[t] = "fin.count" /\ pc'[t] \in {"fin.mutex", "idle"} /\ on' = on
              /\ pc'[t] = "idle" => initialized'[t][on[t]] = 0
              /\ n # on[t] => initialized'[t][n] = initialized[t][n]
              /\ forkid # 0
          BY <1>0, <1>8, SMTT(30) DEF FinalizeCount, Running, Goto, TypeOK, Ours
        <4> QED BY <1>0, <2>1, <4>1, UsersStep, Zenon
                   DEF Finalizing, FinPCs, Ours
      <3> QED BY <1>0, <2>1, <3>1, UsersStep, SameSet, Zenon DEF Ours
    <2> QED BY <2>1, <2>2, Unseen, Zenon
  <1>9. ASSUME NEW t \in Threads, NEW m \in Modules, Release(t, m)
        PROVE  UNCHANGED Promise!vars
    <2>1. t \in alive /\ Others(t)
      BY <1>0, <1>9, Zenon DEF Release, Running, Others, TypeOK
    <2>2. ASSUME NEW n \in Ours PROVE Users(n)' = Users(n)
      <3>1. t \in Users(n)' <=> t \in Users(n)
        <4>1. /\ UNCHANGED <<pc, on>> /\ forkid # 0 /\ initialized[t][m] # forkid
              /\ initialized'[t][n] = IF n = m THEN 0 ELSE initialized[t][n]
          BY <1>0, <1>9, SMTT(30) DEF Release, TypeOK, Ours
        <4> QED BY <1>0, <2>1, <4>1, UsersStep, ZenonT(40) DEF Finalizing, Ours
      <3> QED BY <1>0, <2>1, <3>1, UsersStep, SameSet, Zenon DEF Ours
    <2>3. \A n \in Ours : lower'[n] = lower[n]
      BY <1>0, <1>9, ReleaseKeeps, Zenon
    <2> QED BY <2>2, <2>3, Unseen, Zenon
  <1>10. ASSUME NEW t \in Threads, FinalizeLock(t) PROVE UNCHANGED Promise!vars
    <2>1. t \in alive /\ Others(t)
      BY <1>0, <1>10, Zenon DEF FinalizeLock, Running, Others, TypeOK, Goto
    <2>2. ASSUME NEW n \in Ours PROVE Users(n)' = Users(n)
      <3>1. t \in Users(n)' <=> t \in Users(n)
        <4>1. /\ on' = on /\ forkid # 0 /\ pc[t] = "fin.lock" /\ pc'[t] = "idle"
              /\ initialized'[t][n] = IF n = on[t] THEN 0 ELSE initialized[t][n]
          BY <1>0, <1>10, SMTT(30) DEF FinalizeLock, Running, Goto, TypeOK, Ours
        <4> QED BY <1>0, <2>1, <4>1, UsersStep, ZenonT(40)
                   DEF Finalizing, FinPCs, Ours
      <3> QED BY <1>0, <2>1, <3>1, UsersStep, SameSet, Zenon DEF Ours
    <2>3. \A n \in Ours : lower'[n] = lower[n]
      <3>1. PICK m \in Modules : m = on[t]
        BY <1>0, Zenon DEF TypeOK
      <3> QED BY <1>0, <1>10, <3>1, FinalizeLockKeeps, Zenon
    <2> QED BY <2>2, <2>3, Unseen, Zenon
  <1>11. ASSUME NEW t \in Threads, InitializeReturn(t)
         PROVE  UNCHANGED Promise!vars \/ \E m \in Ours : Promise!Start(m)
    <2>1. /\ t \in alive /\ Others(t) /\ pc[t] = "calling" /\ pc'[t] = "init.lock"
          /\ UNCHANGED <<initialized, on>> /\ NoUseAfterFree
          /\ lower' = lower \/ lower' = [lower EXCEPT ![on[t]] = "ours"]
          /\ lower[on[t]] # "down" => lower' = lower
      BY <1>0, <1>11, ZenonT(40)
         DEF InitializeReturn, Running, Others, TypeOK, Goto
    <2>2. ASSUME NEW n \in Ours PROVE Users(n)' = Users(n)
      <3>1. t \in Users(n)' <=> t \in Users(n)
        BY <1>0, <2>1, UsersStep, Zenon DEF Finalizing, FinPCs, Ours
      <3> QED BY <1>0, <2>1, <3>1, UsersStep, SameSet, Zenon DEF Ours
    <2>3. CASE \A n \in Ours : lower'[n] = lower[n]
      BY <2>2, <2>3, Unseen, Zenon
    <2>4. CASE ~\A n \in Ours : lower'[n] = lower[n]
      <3>1. PICK m \in Ours : lower'[m] # lower[m]
        BY <2>4, Zenon
      <3>2. /\ m = on[t] /\ lower[m] = "down" /\ lower'[m] = "ours"
            /\ \A n \in Ours : n # m => lower'[n] = lower[n]
        BY <1>0, <2>1, <3>1, SMTT(30) DEF TypeOK
      <3>3. Users(m) = {}
        BY <3>2, Zenon DEF CInv, Kept, Needed, Counted
      <3> QED BY <2>2, <3>2, <3>3, SeenStart, Zenon
    <2> QED BY <2>3, <2>4, Zenon
  <1>12. ASSUME NEW t \in Threads, FinalizeReturn(t)
         PROVE  UNCHANGED Promise!vars \/ \E m \in Ours : Promise!Stop(m)
    <2>1. /\ t \in alive /\ Others(t) /\ pc[t] = "finalizing" /\ pc'[t] = "fin.lock"
          /\ UNCHANGED <<initialized, on>> /\ NoUseAfterFree
          /\ lower' = [lower EXCEPT ![on[t]] = "down"]
      BY <1>0, <1>12, Zenon DEF FinalizeReturn, Running, Others, TypeOK, Goto
    <2>2. ASSUME NEW n \in Ours PROVE Users(n)' = Users(n)
      <3>1. t \in Users(n)' <=> t \in Users(n)
        BY <1>0, <2>1, UsersStep, Zenon DEF Finalizing, FinPCs, Ours
      <3> QED BY <1>0, <2>1, <3>1, UsersStep, SameSet, Zenon DEF Ours
    <2>3. CASE on[t] \notin Ours
      <3>1. \A n \in Ours : lower'[n] = lower[n]
        BY <1>0, <2>1, <2>3, Zenon DEF TypeOK
      <3> QED BY <2>2, <3>1, Unseen, Zenon
    <2>4. CASE on[t] \in Ours
      <3>1. PICK m \in Ours : m = on[t]
        BY <2>4, Zenon
      <3>2. /\ lower'[m] = "down"
            /\ \A n \in Ours : n # m => lower'[n] = lower[n]
        BY <1>0, <2>1, <3>1, Zenon DEF TypeOK
      <3>3. lower[m] = "ours"
        BY <2>1, <3>1, InCallIsPresent, Zenon
           DEF CInv, Inv, CallsMatchModuleState
      <3>4. Users(m) = {}
        <4>1. t \in Leaving(m)
          BY <2>1, <3>1, Zenon DEF Leaving, FinPCs
        <4> QED BY <4>1, Zenon DEF CInv, Kept, Needed, Counted
      <3> QED BY <2>2, <3>2, <3>3, <3>4, SeenStop, Zenon
    <2> QED BY <2>3, <2>4, Zenon
  <1>13. ASSUME NEW t \in Threads, InitializeCount(t)
         PROVE  UNCHANGED Promise!vars \/ \E m \in Ours : Promise!Join(t, m)
    <2>1. /\ t \in alive /\ Others(t) /\ pc[t] = "init.count" /\ pc'[t] = "idle"
          /\ UNCHANGED <<on, lower>> /\ initialized[t][on[t]] # forkid
          /\ rv[t] # "ok" => initialized' = initialized
          /\ rv[t] = "ok" => initialized' = [initialized EXCEPT ![t][on[t]] = forkid]
      BY <1>0, <1>13
         DEF InitializeCount, Running, Others, TypeOK, Goto, ForgetLocals,
         Calls, InitPCs
    <2>2. ASSUME NEW n \in Ours, n # on[t] \/ rv[t] # "ok" PROVE Users(n)' = Users(n)
      <3>1. initialized'[t][n] = initialized[t][n]
        BY <1>0, <2>1, <2>2, SMTT(30) DEF TypeOK
      <3>2. t \in Users(n)' <=> t \in Users(n)
        BY <1>0, <2>1, <3>1, UsersStep, Zenon DEF Finalizing, FinPCs, Ours
      <3> QED BY <1>0, <2>1, <3>2, UsersStep, SameSet, SMTT(30) DEF Ours
    <2>3. CASE on[t] \notin Ours \/ rv[t] # "ok"
      BY <2>1, <2>2, <2>3, Unseen, Zenon
    <2>4. CASE on[t] \in Ours /\ rv[t] = "ok"
      <3>1. PICK m \in Ours : m = on[t]
        BY <2>4, Zenon
      <3>2. t \notin Users(m) /\ t \in Users(m)'
        <4>1. initialized'[t][m] = forkid /\ initialized[t][m] # forkid
          BY <1>0, <2>1, <2>4, <3>1, SMTT(30) DEF TypeOK
        <4> QED BY <1>0, <2>1, <4>1, UsersStep, Zenon
                   DEF Finalizing, FinPCs, Ours
      <3>3. Users(m)' = Users(m) \cup {t}
        BY <1>0, <2>1, <3>2, UsersStep, Joined, SMTT(30) DEF Ours
      <3>4. lower[m] = "ours"
        <4>1. t \in Starting(m)
          BY <2>1, <2>4, <3>1, Zenon DEF Starting
        <4> QED BY <4>1, Zenon DEF CInv, Kept, Needed
      <3>5. Promise!Join(t, m)
        BY <2>1, <2>2, <3>1, <3>2, <3>3, <3>4, SeenJoin, Zenon
      <3> QED BY <3>5, Zenon
    <2> QED BY <2>3, <2>4, ZenonT(40)
  <1>14. ASSUME NEW t \in Threads, NEW m \in Modules, FinalizeEnter(t, m)
         PROVE  UNCHANGED Promise!vars \/ \E k \in Ours : Promise!Leave(t, k)
    <2>1. /\ t \in alive /\ Others(t) /\ pc[t] = "idle" /\ pc'[t] = "fin.count"
          /\ UNCHANGED <<lower, initialized>> /\ on'[t] = m /\ initialized[t][m] = forkid
      BY <1>0, <1>14, Zenon
         DEF FinalizeEnter, Running, Others, TypeOK, Goto, modvars
    <2>2. ASSUME NEW n \in Ours, n # m PROVE Users(n)' = Users(n)
      <3>1. t \in Users(n)' <=> t \in Users(n)
        BY <1>0, <2>1, <2>2, UsersStep, Zenon DEF Finalizing, FinPCs, Ours
      <3> QED BY <1>0, <2>1, <3>1, UsersStep, SameSet, Zenon DEF Ours
    <2>3. CASE m \notin Ours
      BY <2>1, <2>2, <2>3, Unseen, Zenon
    <2>4. CASE m \in Ours
      <3>1. t \in Users(m) /\ t \notin Users(m)'
        BY <1>0, <2>1, UsersStep, ZenonT(40) DEF Finalizing, FinPCs
      <3>2. Users(m)' = Users(m) \ {t}
        BY <1>0, <2>1, <3>1, UsersStep, Left, ZenonT(40)
      <3>3. Promise!Leave(t, m)
        BY <2>1, <2>2, <2>4, <3>1, <3>2, SeenLeave, ZenonT(40)
      <3> QED BY <2>4, <3>3, Zenon
    <2> QED BY <2>3, <2>4, Zenon
  <1>15. ASSUME NEW t \in Threads, Fork(t) PROVE Promise!Restart
    BY <1>0, <1>15, ForkKeeps, SeenRestart, Zenon
  <1>16. CASE UNCHANGED vars
    <2>1. \A n \in Ours : Users(n)' = Users(n) /\ lower'[n] = lower[n]
      BY <1>16, Zenon DEF vars, modvars, Users, Finalizing
    <2> QED BY <2>1, Unseen, Zenon
  <1> QED
    BY <1>1, <1>2, <1>3, <1>4, <1>5, <1>6, <1>7, <1>8, <1>9, <1>10, <1>11,
       <1>12,
       <1>13, <1>14, <1>15, <1>16, ZenonT(40)
    DEF Next, ThreadStep, CallerStep, Promise!Next, Ours

(* For callers that keep C_Initialize and C_Finalize of a module apart, the  *)
(* protocol of modules.c implements the promise of ManagedModule.            *)
THEOREM Implementation ==
    ASSUME ~Overlap
    PROVE  Spec => ImplementsManagedModule
  <1>1. Init => Promise!Init
    <2> SUFFICES ASSUME Init PROVE Promise!Init
      BY Zenon
    <2>1. \A n \in Ours : Users(n) = {} /\ lower[n] = "down"
      BY DEF Init, Ours, Users
    <2> QED BY <2>1, Zenon DEF Ours, Promise!Init
  <1>2. CInv /\ CInv' /\ [Next]_vars => [Promise!Next]_(Promise!vars)
    BY PromiseStep, Zenon
  <1> QED BY <1>1, <1>2, CInvAlways, PTL
             DEF Spec, ImplementsManagedModule, Promise!Spec
=============================================================================
