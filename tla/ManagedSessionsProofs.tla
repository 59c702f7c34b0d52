----------------------- MODULE ManagedSessionsProofs -----------------------
(***************************************************************************)
(* For any number of closures, threads per closure, slots and handles: as   *)
(* long as the PKCS#11 module does not give out the handle of a closed      *)
(* session again, the callers' sessions are kept apart and none is left     *)
(* behind.                                                                  *)
(***************************************************************************)
EXTENDS ManagedSessions, TLAPS

\* Whatever a closure tracks, is about to track or has stolen was opened
\* through it.
Owned ==
    /\ \A c \in Closures, h \in Handles :
          sessions[c][h] # None => h \in given /\ opener[h] = c
    /\ \A t \in Threads : \A h \in stolen[t] :
          /\ h \in given /\ opener[h] = ClosureOf[t]
          /\ sessions[ClosureOf[t]][h] = None
    /\ \A t \in Threads : pc[t] = "track" =>
          /\ handle[t] \in given /\ opener[handle[t]] = ClosureOf[t]
          /\ sessions[ClosureOf[t]][handle[t]] = None
          /\ \A u \in Threads :
                /\ handle[t] \notin stolen[u]
                /\ pc[u] = "track" /\ u # t => handle[u] # handle[t]

\* Where the calls in progress are.
Progress ==
    /\ \A h \in Handles : open[h] # None => h \in given
    /\ \A t \in Threads :
          /\ pc[t] = "track" => open[handle[t]] = slot[t]
          /\ pc[t] = "untrack" => handle[t] \in given /\ open[handle[t]] = None
          /\ pc[t] \notin {"closing", "finalizing"} => stolen[t] = {}
          /\ pc[t] # "idle" => initialized[ClosureOf[t]]
          /\ pc[t] = "finalizing" =>
                /\ \A h \in Handles : sessions[ClosureOf[t]][h] = None
                /\ \A u \in Threads :
                      u # t /\ ClosureOf[u] = ClosureOf[t] => pc[u] = "idle"
    /\ \A c \in Closures, h \in Handles :
          ~initialized[c] => sessions[c][h] = None

\* No open session is out of sight of the closure it was opened through, and a
\* tracked session is open unless it is just being closed.
Seen(h) ==
    open[h] # None =>
        \/ sessions[opener[h]][h] = open[h]
        \/ \E t \in Threads :
              /\ ClosureOf[t] = opener[h]
              /\ h \in stolen[t] \/ (pc[t] = "track" /\ handle[t] = h)
Live(c, h) ==
    sessions[c][h] # None =>
        \/ open[h] = sessions[c][h]
        \/ /\ open[h] = None
           /\ \E t \in Threads :
                 ClosureOf[t] = c /\ pc[t] = "untrack" /\ handle[t] = h
Accounted ==
    /\ \A h \in Handles : Seen(h)
    /\ \A c \in Closures, h \in Handles : Live(c, h)

Inv == TypeOK /\ Owned /\ Progress /\ Accounted /\ NoSessionLeft

(* Nothing is initialized or open at first.                                  *)
LEMMA InitInv == Init => Inv
  <1> SUFFICES ASSUME Init PROVE Inv
    OBVIOUS
  <1>1. TypeOK
    BY ClosuresAssumption, HandlesAssumption DEF Init, TypeOK, Empty, Steps
  <1>2. Owned /\ Progress /\ Accounted /\ NoSessionLeft
    BY DEF Init, Empty, Owned, Progress, Accounted, Seen, Live, NoSessionLeft
  <1> QED BY <1>1, <1>2 DEF Inv

(* Every step preserves the types.                                           *)
LEMMA TypeStep == TypeOK /\ [Next]_vars => TypeOK'
  <1> SUFFICES ASSUME TypeOK, [Next]_vars PROVE TypeOK'
    OBVIOUS
  <1> USE ClosuresAssumption DEF TypeOK, Goto, Steps
  <1>1. ASSUME NEW t \in Threads, Initialize(t) PROVE TypeOK'
    BY <1>1 DEF Initialize, Empty
  <1>2. ASSUME NEW t \in Threads, NEW h \in Handles, NEW s \in Slots,
               OpenLower(t, h, s)
        PROVE  TypeOK'
    BY <1>2 DEF OpenLower
  <1>3. ASSUME NEW t \in Threads, OpenTrack(t) PROVE TypeOK'
    BY <1>3 DEF OpenTrack
  <1>4. ASSUME NEW t \in Threads, NEW h \in Handles, CloseLower(t, h)
        PROVE  TypeOK'
    BY <1>4 DEF CloseLower
  <1>5. ASSUME NEW t \in Threads, CloseUntrack(t) PROVE TypeOK'
    BY <1>5 DEF CloseUntrack
  <1>6. ASSUME NEW t \in Threads, NEW s \in Slots, CloseAllSessions(t, s)
        PROVE  TypeOK'
    BY <1>6 DEF CloseAllSessions, StealSessions, Steal
  <1>7. ASSUME NEW t \in Threads, Finalize(t) PROVE TypeOK'
    BY <1>7 DEF Finalize, StealSessions, Steal
  <1>8. ASSUME NEW t \in Threads, NEW h \in Handles, CloseStolen(t, h)
        PROVE  TypeOK'
    BY <1>8 DEF CloseStolen
  <1>9. ASSUME NEW t \in Threads, CloseAllReturn(t) PROVE TypeOK'
    BY <1>9 DEF CloseAllReturn
  <1>10. ASSUME NEW t \in Threads, FinalizeReturn(t) PROVE TypeOK'
    BY <1>10 DEF FinalizeReturn, Empty
  <1>11. CASE UNCHANGED vars
    BY <1>11 DEF vars
  <1> QED
    BY <1>1, <1>2, <1>3, <1>4, <1>5, <1>6, <1>7, <1>8, <1>9, <1>10, <1>11
       DEF Next, ThreadNext

(* managed_steal_sessions_inlock keeps every open session accounted for: the *)
(* ones it takes out of the dictionary are those the thread will close.      *)
LEMMA StealAccounted ==
    ASSUME Inv, TypeOK, NEW t \in Threads, pc[t] = "idle",
           NEW which \in Slots \cup {None}, NEW step \in {"closing", "finalizing"},
           StealSessions(t, which, step)
    PROVE  Accounted'
  <1> DEFINE d == ClosureOf[t]
             taken == Steal(d, which)
  <1> USE ClosuresAssumption
  <1>1. /\ UNCHANGED <<open, opener, handle>>
        /\ \A u \in Threads : u # t => stolen'[u] = stolen[u] /\ pc'[u] = pc[u]
        /\ stolen'[t] = taken /\ stolen[t] = {}
        /\ \A c \in Closures : c # d => sessions'[c] = sessions[c]
        /\ \A h \in Handles : sessions'[d][h] = IF h \in taken THEN None
                                                ELSE sessions[d][h]
    BY ZenonT(40) DEF StealSessions, Goto, TypeOK, Inv, Progress
  <1> HIDE DEF d, taken
  <1>2. ASSUME NEW h \in Handles, open[h] # None
        PROVE  \/ sessions'[opener[h]][h] = open[h]
               \/ \E u \in Threads :
                     /\ ClosureOf[u] = opener[h]
                     /\ h \in stolen'[u] \/ (pc'[u] = "track" /\ handle[u] = h)
    <2>1. opener[h] \in Closures
      BY DEF TypeOK
    <2>2. CASE sessions[opener[h]][h] = open[h]
      <3>1. CASE opener[h] = d /\ h \in taken
        BY <1>1, <3>1 DEF d
      <3>2. CASE ~(opener[h] = d /\ h \in taken)
        BY <1>1, <2>1, <2>2, <3>2
      <3> QED BY <3>1, <3>2
    <2>3. CASE sessions[opener[h]][h] # open[h]
      <3>1. PICK u \in Threads :
                 /\ ClosureOf[u] = opener[h]
                 /\ h \in stolen[u] \/ (pc[u] = "track" /\ handle[u] = h)
        BY <1>2, <2>3 DEF Inv, Accounted, Seen, Live
      <3>2. u # t
        BY <1>1, <3>1
      <3> QED BY <1>1, <3>1, <3>2
    <2> QED BY <2>2, <2>3
  <1>3. ASSUME NEW c \in Closures, NEW h \in Handles, sessions'[c][h] # None
        PROVE  \/ open[h] = sessions'[c][h]
               \/ /\ open[h] = None
                  /\ \E u \in Threads : /\ ClosureOf[u] = c
                                        /\ pc'[u] = "untrack" /\ handle[u] = h
    <2>1. sessions'[c][h] = sessions[c][h]
      BY <1>1, <1>3
    <2>2. CASE open[h] # sessions[c][h]
      <3>1. open[h] = None
        BY <1>3, <2>1, <2>2 DEF Inv, Accounted, Seen, Live
      <3>2. PICK u \in Threads : /\ ClosureOf[u] = c
                                 /\ pc[u] = "untrack" /\ handle[u] = h
        BY <1>3, <2>1, <2>2 DEF Inv, Accounted, Seen, Live
      <3>3. u # t
        BY <3>2
      <3> QED BY <1>1, <3>1, <3>2, <3>3
    <2> QED BY <2>1, <2>2
  <1> QED BY <1>1, <1>2, <1>3 DEF Accounted, Seen, Live

(* As long as handles are not reused, every step preserves the invariant:    *)
(* one case per action.                                                      *)
LEMMA InvStep == ASSUME ~Reuse PROVE Inv /\ [Next]_vars => Inv'
  <1> SUFFICES ASSUME Inv, [Next]_vars PROVE Inv'
    OBVIOUS
  <1>0. TypeOK /\ TypeOK'
    BY TypeStep DEF Inv
  <1> USE ClosuresAssumption DEF TypeOK
  <1>1. ASSUME NEW t \in Threads, Initialize(t)
        PROVE  Inv'
    <2>1. Owned'
      BY <1>0, <1>1 DEF Inv, Owned, Progress, Initialize, Empty, Quiet
    <2>2. Progress'
      BY <1>0, <1>1, SlotsAssumption DEF Inv, Owned, Progress, Initialize,
         Empty, Quiet
    <2>3. Accounted'
      BY <1>0, <1>1, SlotsAssumption
      DEF Inv, Owned, Progress, Accounted, Seen, Live, Initialize, Empty, Quiet
    <2>4. NoSessionLeft'
      BY <1>0, <1>1, SlotsAssumption
      DEF Inv, Progress, NoSessionLeft, Initialize, Empty, Quiet
    <2> QED BY <1>0, <2>1, <2>2, <2>3, <2>4 DEF Inv
  <1>2. ASSUME NEW t \in Threads, NEW h \in Handles, NEW s \in Slots, OpenLower(t, h, s)
        PROVE  Inv'
    <2>1. Owned'
      BY <1>0, <1>2 DEF Inv, Owned, Progress, OpenLower, Usable, Goto
    <2>2. Progress'
      BY <1>0, <1>2, SlotsAssumption DEF Inv, Owned, Progress, OpenLower,
         Usable, Goto
    <2>3. Accounted'
      <3>1. /\ open[h] = None /\ h \notin given /\ pc[t] = "idle" /\ stolen[t] = {}
            /\ open' = [open EXCEPT ![h] = s]
            /\ opener' = [opener EXCEPT ![h] = ClosureOf[t]]
            /\ pc' = [pc EXCEPT ![t] = "track"]
            /\ handle' = [handle EXCEPT ![t] = h]
            /\ UNCHANGED <<sessions, stolen>>
        BY <1>2 DEF OpenLower, Usable, Goto, Inv, Progress
      <3>2. ASSUME NEW g \in Handles
            PROVE  Seen(g)'
        <4>1. CASE g = h
          BY <1>0, <3>1, <4>1 DEF Seen
        <4>2. CASE g # h
          BY <1>0, <3>1, <4>2 DEF Inv, Accounted, Seen
        <4> QED BY <4>1, <4>2
      <3>3. ASSUME NEW c \in Closures, NEW g \in Handles
            PROVE  Live(c, g)'
        <4>1. CASE g = h
          BY <1>0, <3>1, <4>1 DEF Inv, Owned, Live
        <4>2. CASE g # h
          BY <1>0, <3>1, <4>2 DEF Inv, Accounted, Seen, Live, Live
        <4> QED BY <4>1, <4>2
      <3> QED BY <3>2, <3>3 DEF Accounted
    <2>4. NoSessionLeft'
      BY <1>0, <1>2, SlotsAssumption
      DEF Inv, Progress, NoSessionLeft, OpenLower, Usable, Goto
    <2> QED BY <1>0, <2>1, <2>2, <2>3, <2>4 DEF Inv
  <1>3. ASSUME NEW t \in Threads, OpenTrack(t)
        PROVE  Inv'
    <2>1. Owned'
      BY <1>0, <1>3 DEF Inv, Owned, Progress, OpenTrack, Goto
    <2>2. Progress'
      BY <1>0, <1>3, SlotsAssumption DEF Inv, Owned, Progress, OpenTrack, Goto
    <2>3. Accounted'
      BY <1>0, <1>3, SlotsAssumption
      DEF Inv, Owned, Progress, Accounted, Seen, Live, OpenTrack, Goto
    <2>4. NoSessionLeft'
      BY <1>0, <1>3, SlotsAssumption
      DEF Inv, Progress, NoSessionLeft, OpenTrack, Goto
    <2> QED BY <1>0, <2>1, <2>2, <2>3, <2>4 DEF Inv
  <1>4. ASSUME NEW t \in Threads, NEW h \in Handles, CloseLower(t, h)
        PROVE  Inv'
    <2>1. Owned'
      BY <1>0, <1>4 DEF Inv, Owned, Progress, CloseLower, Usable, Known, Goto
    <2>2. Progress'
      BY <1>0, <1>4, SlotsAssumption DEF Inv, Owned, Progress, CloseLower,
         Usable, Known, Goto
    <2>3. Accounted'
      BY <1>0, <1>4, SlotsAssumption, SMTT(30)
      DEF Inv, Owned, Progress, Accounted, Seen, Live, CloseLower, Usable,
         Known, Goto
    <2>4. NoSessionLeft'
      BY <1>0, <1>4, SlotsAssumption
      DEF Inv, Progress, NoSessionLeft, CloseLower, Usable, Known, Goto
    <2> QED BY <1>0, <2>1, <2>2, <2>3, <2>4 DEF Inv
  <1>5. ASSUME NEW t \in Threads, CloseUntrack(t)
        PROVE  Inv'
    <2>1. Owned'
      BY <1>0, <1>5 DEF Inv, Owned, Progress, CloseUntrack, Goto
    <2>2. Progress'
      BY <1>0, <1>5, SlotsAssumption DEF Inv, Owned, Progress, CloseUntrack,
         Goto
    <2>3. Accounted'
      BY <1>0, <1>5, SlotsAssumption
      DEF Inv, Owned, Progress, Accounted, Seen, Live, CloseUntrack, Goto
    <2>4. NoSessionLeft'
      BY <1>0, <1>5, SlotsAssumption
      DEF Inv, Progress, NoSessionLeft, CloseUntrack, Goto
    <2> QED BY <1>0, <2>1, <2>2, <2>3, <2>4 DEF Inv
  <1>6. ASSUME NEW t \in Threads, NEW h \in Handles, CloseStolen(t, h)
        PROVE  Inv'
    <2>1. Owned'
      BY <1>0, <1>6 DEF Inv, Owned, Progress, CloseStolen
    <2>2. Progress'
      BY <1>0, <1>6, SlotsAssumption DEF Inv, Owned, Progress, CloseStolen
    <2>3. Accounted'
      BY <1>0, <1>6, SlotsAssumption
      DEF Inv, Owned, Progress, Accounted, Seen, Live, CloseStolen
    <2>4. NoSessionLeft'
      BY <1>0, <1>6, SlotsAssumption
      DEF Inv, Progress, NoSessionLeft, CloseStolen
    <2> QED BY <1>0, <2>1, <2>2, <2>3, <2>4 DEF Inv
  <1>7. ASSUME NEW t \in Threads, CloseAllReturn(t)
        PROVE  Inv'
    <2>1. Owned'
      BY <1>0, <1>7 DEF Inv, Owned, Progress, CloseAllReturn, Goto
    <2>2. Progress'
      BY <1>0, <1>7, SlotsAssumption DEF Inv, Owned, Progress, CloseAllReturn,
         Goto
    <2>3. Accounted'
      BY <1>0, <1>7, SlotsAssumption
      DEF Inv, Owned, Progress, Accounted, Seen, Live, CloseAllReturn, Goto
    <2>4. NoSessionLeft'
      BY <1>0, <1>7, SlotsAssumption
      DEF Inv, Progress, NoSessionLeft, CloseAllReturn, Goto
    <2> QED BY <1>0, <2>1, <2>2, <2>3, <2>4 DEF Inv
  <1>8. ASSUME NEW t \in Threads, FinalizeReturn(t)
        PROVE  Inv'
    <2>1. Owned'
      BY <1>0, <1>8 DEF Inv, Owned, Progress, FinalizeReturn, Empty, Goto
    <2>2. Progress'
      BY <1>0, <1>8, SlotsAssumption DEF Inv, Owned, Progress, FinalizeReturn,
         Empty, Goto
    <2>3. Accounted'
      BY <1>0, <1>8, SlotsAssumption
      DEF Inv, Owned, Progress, Accounted, Seen, Live, FinalizeReturn, Empty,
         Goto
    <2>4. NoSessionLeft'
      <3> DEFINE c == ClosureOf[t]
      <3>1. ASSUME NEW h \in Handles, opener[h] = c, open[h] # None PROVE FALSE
        <4>1. \A u \in Threads : ClosureOf[u] = c => stolen[u] = {} /\ pc[u] # "track"
          BY <1>8 DEF FinalizeReturn, Inv, Progress
        <4>2. sessions[c][h] = None
          BY <1>8 DEF FinalizeReturn, Inv, Progress
        <4> QED BY <3>1, <4>1, <4>2 DEF Inv, Accounted, Seen, Live
      <3>2. /\ initialized' = [initialized EXCEPT ![c] = FALSE]
            /\ opener' = opener /\ open' \in {open, Empty}
        BY <1>8 DEF FinalizeReturn
      <3> QED BY <1>0, <3>1, <3>2 DEF Inv, NoSessionLeft, Empty
    <2> QED BY <1>0, <2>1, <2>2, <2>3, <2>4 DEF Inv
  <1>9. ASSUME NEW t \in Threads, NEW s \in Slots, CloseAllSessions(t, s)
        PROVE  Inv'
    <2>0. StealSessions(t, s, "closing")
      BY <1>9 DEF CloseAllSessions
    <2>1. Owned'
      BY <1>0, <1>9, <2>0, SMTT(30) DEF Inv, Owned, Progress, StealSessions,
         Steal, Goto, CloseAllSessions,
         Usable
    <2>2. Progress'
      BY <1>0, <1>9, <2>0, SlotsAssumption
      DEF Inv, Progress, StealSessions, Steal, Goto, CloseAllSessions, Usable
    <2>3. Accounted'
      <3>1. pc[t] = "idle"
        BY <1>9 DEF CloseAllSessions, Usable
      <3> QED BY <1>0, <2>0, <3>1, StealAccounted
    <2>4. NoSessionLeft'
      BY <1>0, <2>0 DEF Inv, NoSessionLeft, StealSessions
    <2> QED BY <1>0, <2>1, <2>2, <2>3, <2>4 DEF Inv
  <1>10. ASSUME NEW t \in Threads, Finalize(t)
        PROVE  Inv'
    <2>0. StealSessions(t, None, "finalizing")
      BY <1>10, SMTT(30) DEF Finalize
    <2>1. Owned'
      BY <1>0, <1>10, <2>0, SMTT(30) DEF Inv, Owned, Progress, StealSessions,
         Steal, Goto,
         Finalize, Quiet
    <2>2. Progress'
      BY <1>0, <1>10, <2>0, SlotsAssumption
      DEF Inv, Progress, StealSessions, Steal, Goto, Finalize, Quiet
    <2>3. Accounted'
      <3>1. pc[t] = "idle"
        BY <1>10 DEF Finalize, Quiet
      <3> QED BY <1>0, <2>0, <3>1, StealAccounted
    <2>4. NoSessionLeft'
      BY <1>0, <2>0 DEF Inv, NoSessionLeft, StealSessions
    <2> QED BY <1>0, <2>1, <2>2, <2>3, <2>4 DEF Inv
  <1>11. CASE UNCHANGED vars
    BY <1>0, <1>11
    DEF vars, Inv, Owned, Progress, Accounted, Seen, Live, NoSessionLeft
  <1> QED
    BY <1>1, <1>2, <1>3, <1>4, <1>5, <1>6, <1>7, <1>8, <1>9, <1>10, <1>11
       DEF Next, ThreadNext

(* The invariant of the session tracking, without handle reuse.              *)
THEOREM InvAlways == ASSUME ~Reuse PROVE Spec => []Inv
  BY InitInv, InvStep, PTL DEF Spec

(* The closures, threads and sessions keep their types, whatever the module  *)
(* does with its handles.                                                    *)
THEOREM TypeCorrect == Spec => []TypeOK
  <1>1. Init => TypeOK
    BY InitInv DEF Inv
  <1> QED BY <1>1, TypeStep, PTL DEF Spec

(* For any number of callers and threads, C_CloseAllSessions and C_Finalize  *)
(* never close a session of another caller, if handles are not reused.       *)
THEOREM SessionsKeptApart == ASSUME ~Reuse PROVE Spec => []OnlyOwnSessionsClosed
  <1>1. Inv => OnlyOwnSessionsClosed
    BY DEF Inv, Owned, OnlyOwnSessionsClosed
  <1> QED BY <1>1, InvAlways, PTL

(* For any number of callers and threads, a caller that has finalized has no *)
(* session left in the module, if handles are not reused.                    *)
THEOREM SessionsAllClosed == ASSUME ~Reuse PROVE Spec => []NoSessionLeft
  <1>1. Inv => NoSessionLeft
    BY DEF Inv
  <1> QED BY <1>1, InvAlways, PTL

(* For any number of callers and threads, between calls a closure tracks     *)
(* exactly its open sessions, if handles are not reused.                     *)
THEOREM TrackingAlwaysExact == ASSUME ~Reuse PROVE Spec => []TrackingIsExact
  <1>1. Inv => TrackingIsExact
    <2> SUFFICES ASSUME Inv, NEW c \in Closures, Quiet(c), NEW h \in Handles
                 PROVE  sessions[c][h] = IF opener[h] = c THEN open[h] ELSE None
      BY DEF TrackingIsExact
    <2>1. \A u \in Threads : ClosureOf[u] = c => pc[u] = "idle" /\ stolen[u] = {}
      BY DEF Quiet, Inv, Progress
    <2>2. CASE sessions[c][h] # None
      BY <2>1, <2>2 DEF Inv, Owned, Accounted, Seen, Live
    <2>3. CASE sessions[c][h] = None
      BY <2>1, <2>3 DEF Inv, Accounted, Seen, Live
    <2> QED BY <2>2, <2>3
  <1> QED BY <1>1, InvAlways, PTL
=============================================================================
