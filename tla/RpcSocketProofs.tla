--------------------------- MODULE RpcSocketProofs ---------------------------
(***************************************************************************)
(* For any number of threads and calls, whatever the order of the answers,  *)
(* and whenever the peer hangs up or a thread disconnects: a call that      *)
(* succeeds has the response to its own request.  And until the connection  *)
(* fails, a thread that waits for another one's body has a reader to wait   *)
(* for.                                                                     *)
(***************************************************************************)
EXTENDS RpcSocket, TLAPS, FiniteSetTheorems, SequenceTheorems

Body(c) == [part |-> "body", code |-> c]

\* The thread that holds read_lock is inside rpc_socket_read; it decided what
\* to read by the header that was read last.
Reading ==
    \A t \in Threads :
        /\ pc[t] \in {"loop", "header", "body"} <=> read_lock = t
        /\ At(t, "header") => read_code = 0
        /\ At(t, "body") => read_code = call_code[t]
        /\ ~At(t, "idle") => call_code[t] # 0

\* The stream is a sequence of whole messages, except that the header of the
\* first one may have been read and the body of the last one not been written.
Front == stream # <<>> =>
    IF read_code = 0 THEN stream[1].part = "header" ELSE stream[1] = Body(read_code)
Middle == \A i \in 1 .. Len(stream) - 1 :
    IF stream[i].part = "header" THEN stream[i + 1] = Body(stream[i].code)
                                 ELSE stream[i + 1].part = "header"
Back == IF stream = <<>> THEN answering = read_code
        ELSE answering = IF stream[Len(stream)].part = "header"
                         THEN stream[Len(stream)].code ELSE 0
Framed == Front /\ Middle /\ Back

\* A code is used once: those of the calls in progress differ.
Fresh ==
    /\ \A t \in Threads : call_code[t] < last_code
    /\ \A t, u \in Threads : t # u /\ call_code[t] # 0 => call_code[t] # call_code[u]

\* The threads that are in a call
Busy == {t \in Threads : ~At(t, "idle")}

Inv == TypeOK /\ Reading /\ Framed /\ Fresh /\ ResponseIsOurs /\ RefsCountCalls

(* The connection is fresh and no thread is in a call at first.              *)
LEMMA InitInv == Init => Inv
  <1> SUFFICES ASSUME Init PROVE Inv
    BY Zenon
  <1> USE ThreadsAssumption, TroublesAssumption, CallsAssumption
  <1>1. TypeOK
    BY DEF Init, TypeOK, Steps, Codes
  <1>2. Reading /\ Fresh /\ ResponseIsOurs
    BY DEF Init, Reading, Fresh, ResponseIsOurs, At
  <1>3. Framed
    BY DEF Init, Framed, Front, Middle, Back
  <1>4. RefsCountCalls
    <2>1. {t \in Threads : ~At(t, "idle")} = {}
      BY Zenon DEF Init, At
    <2>2. Cardinality({t \in Threads : ~At(t, "idle")}) = 0
      BY <2>1, FS_EmptySet, Zenon
    <2> QED BY <2>2 DEF Init, RefsCountCalls
  <1> QED BY <1>1, <1>2, <1>3, <1>4, Zenon DEF Inv

(* Every step preserves the types, but for refs, whose value RefsCountCalls  *)
(* tells.                                                                    *)
LEMMA TypeStep == Inv /\ [Next]_vars /\ refs' \in Nat => TypeOK'
  <1> SUFFICES ASSUME Inv, [Next]_vars, refs' \in Nat PROVE TypeOK'
    BY Zenon
  <1> USE ThreadsAssumption, TroublesAssumption, CallsAssumption
      DEF Inv, TypeOK, Goto, Steps, wire, call
  <1>0. /\ MaxCalls[may] \in Nat /\ may \in Troubles
        /\ last_code \in Nat /\ last_code <= MaxCalls[may] => last_code \in Codes
    BY DEF Codes
  <1>a. stream # <<>> => Head(stream).code \in Codes /\ Tail(stream) \in Seq(Messages)
    <2>1. stream # <<>> => Head(stream) \in Messages /\ Tail(stream) \in Seq(Messages)
      BY HeadTailProperties, Zenon
    <2> QED BY <2>1 DEF Messages
  <1>b. UNCHANGED may => UNCHANGED <<Codes, Messages>>
    BY Zenon DEF Codes, Messages
  <1>c. \A c \in Codes : /\ Append(stream, [part |-> "header", code |-> c]) \in Seq(Messages)
                         /\ Append(stream, [part |-> "body", code |-> c]) \in Seq(Messages)
    <2> SUFFICES ASSUME NEW c \in Codes
                 PROVE  /\ [part |-> "header", code |-> c] \in Messages
                        /\ [part |-> "body", code |-> c] \in Messages
      BY AppendProperties, Zenon
    <2> QED BY Zenon DEF Messages
  <1>1. ASSUME NEW t \in Threads, Send(t), UNCHANGED may PROVE TypeOK'
    <2>1. last_code \in Codes /\ last_code' \in 1 .. MaxCalls[may] + 1
      BY <1>0, <1>1 DEF Send
    <2>2. /\ call_code' \in [Threads -> Codes \cup {0}]
          /\ response' \in [Threads -> Codes \cup {0}]
          /\ requests' \subseteq Codes /\ pc' \in [Threads -> Steps]
      BY <1>1, <2>1, ZenonT(40) DEF Send
    <2> QED BY <1>b, <1>1, <2>1, <2>2, Zenon DEF Send
  <1>2. ASSUME NEW t \in Threads, ReadLock(t), UNCHANGED may PROVE TypeOK'
    BY <1>0, <1>b, <1>2, Zenon DEF ReadLock
  <1>3. ASSUME NEW t \in Threads, Loop(t), UNCHANGED may PROVE TypeOK'
    BY <1>0, <1>b, <1>3, Zenon DEF Loop
  <1>4. ASSUME NEW t \in Threads, ReadHeader(t), UNCHANGED may PROVE TypeOK'
    BY <1>0, <1>a, <1>b, <1>4, Zenon DEF ReadHeader, SetReadCode
  <1>5. ASSUME NEW t \in Threads, ReadBody(t), UNCHANGED may PROVE TypeOK'
    BY <1>0, <1>a, <1>b, <1>5, Zenon DEF ReadBody, SetReadCode
  <1>6. ASSUME NEW t \in Threads, ReadFails(t), UNCHANGED may PROVE TypeOK'
    BY <1>0, <1>b, <1>6, Zenon DEF ReadFails
  <1>7. ASSUME NEW t \in Threads, Return(t), UNCHANGED may PROVE TypeOK'
    BY <1>0, <1>b, <1>7, Zenon DEF Return
  <1>8. ASSUME NEW t \in Threads, Disconnect(t), UNCHANGED may PROVE TypeOK'
    BY <1>0, <1>b, <1>8, Zenon DEF Disconnect
  <1>9. CASE AnswerHeader /\ UNCHANGED may
    <2> PICK c \in requests : /\ requests' = requests \ {c} /\ answering' = c
                               /\ stream' = Append(stream, [part |-> "header", code |-> c])
      BY <1>9, Zenon DEF AnswerHeader
    <2>1. c \in Codes /\ requests' \subseteq Codes
      BY Zenon
    <2> QED BY <1>b, <1>c, <1>9, <2>1, Zenon DEF AnswerHeader
  <1>10. CASE AnswerBody /\ UNCHANGED may
    BY <1>0, <1>b, <1>c, <1>10, Zenon DEF AnswerBody
  <1>11. CASE HangUp /\ UNCHANGED may
    BY <1>0, <1>b, <1>11, Zenon DEF HangUp
  <1>12. CASE UNCHANGED vars
    BY <1>b, <1>12, Zenon DEF vars, state
  <1> QED
    BY <1>1, <1>2, <1>3, <1>4, <1>5, <1>6, <1>7, <1>8, <1>9, <1>10, <1>11,
       <1>12, SMTT(30)
       DEF Next, ThreadStep

(* A thread that is inside rpc_socket_read keeps read_lock to itself.        *)
LEMMA ReadingStep == Inv /\ [Next]_vars => Reading' /\ Fresh'
  <1> SUFFICES ASSUME Inv, [Next]_vars PROVE Reading' /\ Fresh'
    BY Zenon
  <1> USE ThreadsAssumption, CallsAssumption
      DEF Inv, TypeOK, Reading, Fresh, At, Goto, Steps, Codes, wire, call
  <1>1. ASSUME NEW t \in Threads, Send(t) PROVE Reading' /\ Fresh'
    <2>1. last_code \in Nat \ {0}
      OBVIOUS
    <2>2. \A u \in Threads : call_code[u] \in Int /\ call_code[u] < last_code
      OBVIOUS
    <2>3. call_code'[t] = last_code /\ \A u \in Threads : u # t => call_code'[u] = call_code[u]
      BY <1>1, Zenon DEF Send
    <2>4. Reading'
      BY <1>1, <2>1, <2>3 DEF Send
    <2>5. Fresh'
      BY <1>1, <2>1, <2>2, <2>3 DEF Send
    <2> QED BY <2>4, <2>5, Zenon
  <1>2. ASSUME NEW t \in Threads, ReadLock(t) PROVE Reading' /\ Fresh'
    BY <1>2, Zenon DEF ReadLock
  <1>3. ASSUME NEW t \in Threads, Loop(t) PROVE Reading' /\ Fresh'
    BY <1>3 DEF Loop, IsOurs
  <1>4. ASSUME NEW t \in Threads, ReadHeader(t) PROVE Reading' /\ Fresh'
    BY <1>4, Zenon DEF ReadHeader, SetReadCode
  <1>5. ASSUME NEW t \in Threads, ReadBody(t) PROVE Reading' /\ Fresh'
    BY <1>5, Zenon DEF ReadBody, SetReadCode
  <1>6. ASSUME NEW t \in Threads, ReadFails(t) PROVE Reading' /\ Fresh'
    BY <1>6, Zenon DEF ReadFails
  <1>7. ASSUME NEW t \in Threads, Return(t) PROVE Reading' /\ Fresh'
    BY <1>7, Zenon DEF Return
  <1>8. ASSUME NEW t \in Threads, Disconnect(t) PROVE Reading' /\ Fresh'
    BY <1>8, Zenon DEF Disconnect
  <1>9. CASE AnswerHeader \/ AnswerBody \/ HangUp
    BY <1>9, Zenon DEF AnswerHeader, AnswerBody, HangUp
  <1>10. CASE UNCHANGED vars
    BY <1>10, Zenon DEF vars, state
  <1> QED
    BY <1>1, <1>2, <1>3, <1>4, <1>5, <1>6, <1>7, <1>8, <1>9, <1>10, Zenon
       DEF Next, ThreadStep

(* The front of the stream is taken off: what follows is in step again.      *)
LEMMA TakeMessage ==
    ASSUME Inv, stream # <<>>, stream' = Tail(stream), UNCHANGED answering,
           read_code' = IF read_code = 0 THEN Head(stream).code ELSE 0
    PROVE  Framed'
  <1> USE DEF Inv, TypeOK
  <1>1. /\ Len(stream) \in Nat /\ Len(stream) # 0
        /\ stream' \in Seq(Messages) /\ Len(stream') = Len(stream) - 1
        /\ \A i \in 1 .. Len(stream) - 1 : stream'[i] = stream[i + 1]
        /\ \A i \in 1 .. Len(stream) : stream[i] \in Messages
        /\ stream' = <<>> <=> Len(stream) = 1
    <2>1. /\ stream' \in Seq(Messages) /\ Len(stream') = Len(stream) - 1
          /\ \A i \in 1 .. Len(stream') : stream'[i] = stream[i + 1]
      BY HeadTailProperties, Zenon
    <2>2. /\ Len(stream) \in Nat /\ Len(stream) # 0 /\ (stream' = <<>> <=> Len(stream') = 0)
          /\ \A i \in 1 .. Len(stream) : stream[i] \in Messages
      BY <2>1, EmptySeq, LenProperties, ElementOfSeq, Zenon
    <2> QED BY <2>1, <2>2
  <1>2. /\ Head(stream) = stream[1]
        /\ \A m \in Messages : m.code \in Nat \ {0} /\ m.part \in {"header", "body"}
    BY <1>1, CallsAssumption, SMTT(30) DEF Messages, Codes
  <1>3. Front'
    BY <1>1, <1>2 DEF Framed, Front, Middle, Body
  <1>4. Middle'
    <2> SUFFICES ASSUME NEW i \in 1 .. Len(stream') - 1
                 PROVE  IF stream'[i].part = "header" THEN stream'[i + 1] = Body(stream'[i].code)
                                                      ELSE stream'[i + 1].part = "header"
      BY SMTT(30) DEF Middle, Body
    <2>1. /\ i + 1 \in 1 .. Len(stream) - 1
          /\ stream'[i] = stream[i + 1] /\ stream'[i + 1] = stream[(i + 1) + 1]
      BY <1>1
    <2> QED BY <2>1, Zenon DEF Framed, Middle
  <1>5. Back'
    <2>1. CASE Len(stream) = 1
      BY <1>1, <1>2, <2>1 DEF Framed, Front, Back, Body
    <2>2. CASE Len(stream) # 1
      BY <1>1, <2>2 DEF Framed, Back
    <2> QED BY <2>1, <2>2, Zenon
  <1> QED BY <1>3, <1>4, <1>5, Zenon DEF Framed

(* The peer writes the next part of a message behind the others.             *)
LEMMA AddMessage ==
    ASSUME Inv, NEW c \in Codes, UNCHANGED read_code,
           \/ /\ answering = 0 /\ answering' = c
              /\ stream' = Append(stream, [part |-> "header", code |-> c])
           \/ /\ answering = c /\ answering' = 0
              /\ stream' = Append(stream, [part |-> "body", code |-> c])
    PROVE  Framed'
  <1> USE DEF Inv, TypeOK
  <1> DEFINE m == stream'[Len(stream) + 1]
  <1>1. /\ [part |-> "header", code |-> c] \in Messages
        /\ [part |-> "body", code |-> c] \in Messages
        /\ c # 0 /\ c \in Nat
    BY CallsAssumption DEF Messages, Codes
  <1>2. /\ Len(stream) \in Nat /\ Len(stream') = Len(stream) + 1
        /\ stream' # <<>> /\ (stream = <<>> <=> Len(stream) = 0)
        /\ \A i \in 1 .. Len(stream) : stream'[i] = stream[i]
        /\ IF answering = 0 THEN m = [part |-> "header", code |-> c] ELSE m = Body(c)
    <2>1. PICK e \in Messages : /\ stream' = Append(stream, e)
                               /\ e = IF answering = 0 THEN [part |-> "header", code |-> c]
                                      ELSE Body(c)
      BY <1>1, Zenon DEF Body
    <2> HIDE DEF Inv, TypeOK
    <2>2. stream \in Seq(Messages)
      BY Zenon DEF Inv, TypeOK
    <2>3. /\ Len(stream) \in Nat /\ Len(stream') = Len(stream) + 1
          /\ \A i \in 1 .. Len(stream) : stream'[i] = stream[i]
          /\ stream'[Len(stream) + 1] = e
      BY <2>1, <2>2, AppendProperties, LenProperties
    <2>4. stream' # <<>> /\ (stream = <<>> <=> Len(stream) = 0)
      BY <2>2, <2>3, EmptySeq
    <2> QED BY <2>1, <2>3, <2>4, Zenon
  <1>3. Front'
    <2>1. CASE stream = <<>>
      BY <1>1, <1>2, <2>1 DEF Framed, Back, Front, Body
    <2>2. CASE stream # <<>>
      BY <1>2, <2>2 DEF Framed, Front, Body
    <2> QED BY <2>1, <2>2, Zenon
  <1>4. Middle'
    <2> SUFFICES ASSUME NEW i \in 1 .. Len(stream)
                 PROVE  IF stream'[i].part = "header" THEN stream'[i + 1] = Body(stream'[i].code)
                                                      ELSE stream'[i + 1].part = "header"
      BY <1>2 DEF Middle, Body
    <2>1. CASE i = Len(stream)
      <3>1. stream'[i] = stream[i] /\ stream'[i + 1] = m /\ stream # <<>>
        BY <1>2, <2>1
      <3>2. answering = IF stream[i].part = "header" THEN stream[i].code ELSE 0
        BY <2>1, <3>1, Zenon DEF Framed, Back
      <3>3. stream[i].part = "header" => stream[i].code # 0
        <4>1. stream[i] \in Messages
          BY ElementOfSeq, Zenon
        <4> QED BY <4>1, CallsAssumption DEF Messages, Codes
      <3> QED BY <1>1, <1>2, <3>1, <3>2, <3>3
    <2>2. CASE i # Len(stream)
      BY <1>2, <2>2, SMTT(30) DEF Framed, Middle
    <2> QED BY <2>1, <2>2, Zenon
  <1>5. Back'
    BY <1>1, <1>2 DEF Back
  <1> QED BY <1>3, <1>4, <1>5, Zenon DEF Framed

(* Whoever reads, and whoever writes, keeps the stream in step.              *)
LEMMA FramedStep == Inv /\ [Next]_vars => Framed'
  <1> SUFFICES ASSUME Inv, [Next]_vars PROVE Framed'
    BY Zenon
  <1> USE DEF Goto, wire, call
  <1>1. ASSUME UNCHANGED <<stream, read_code, answering>> PROVE Framed'
    BY <1>1, Zenon DEF Inv, Framed, Front, Middle, Back, Body
  <1>2. ASSUME NEW t \in Threads, ReadHeader(t) PROVE Framed'
    <2>1. read_code = 0
      BY <1>2, Zenon DEF ReadHeader, Inv, Reading
    <2> QED BY <1>2, <2>1, TakeMessage, Zenon DEF ReadHeader, SetReadCode
  <1>3. ASSUME NEW t \in Threads, ReadBody(t) PROVE Framed'
    <2>1. read_code # 0
      BY <1>3, Zenon DEF ReadBody, Inv, Reading, At
    <2> QED BY <1>3, <2>1, TakeMessage, Zenon DEF ReadBody, SetReadCode
  <1>4. CASE AnswerHeader
    BY <1>4, AddMessage, Zenon DEF AnswerHeader, Inv, TypeOK
  <1>5. CASE AnswerBody
    BY <1>5, AddMessage, Zenon DEF AnswerBody, Inv, TypeOK
  <1>6. ASSUME NEW t \in Threads,
               \/ Send(t) \/ ReadLock(t) \/ Loop(t) \/ ReadFails(t) \/ Return(t)
               \/ Disconnect(t)
        PROVE  UNCHANGED <<stream, read_code, answering>>
    BY <1>6, Zenon DEF Send, ReadLock, Loop, ReadFails, Return, Disconnect
  <1>7. HangUp \/ UNCHANGED vars => UNCHANGED <<stream, read_code, answering>>
    BY Zenon DEF HangUp, vars, state
  <1> QED
    BY <1>1, <1>2, <1>3, <1>4, <1>5, <1>6, <1>7, Zenon DEF Next, ThreadStep

(* A thread that reads a body is given the body of its own header.           *)
LEMMA InStep == Inv => StreamInStep
  BY HeadTailProperties, EmptySeq
     DEF Inv, TypeOK, Framed, Front, Reading, StreamInStep, Body, At

(* What a thread that reads a body takes is the response to its call.        *)
LEMMA ResponseStep == Inv /\ [Next]_vars => ResponseIsOurs'
  <1> SUFFICES ASSUME Inv, [Next]_vars PROVE ResponseIsOurs'
    BY Zenon
  <1> USE DEF Inv, TypeOK, ResponseIsOurs, At, Goto, wire, call
  <1>1. ASSUME NEW t \in Threads, ReadBody(t) PROVE ResponseIsOurs'
    <2>1. Head(stream).code = call_code[t]
      BY <1>1, InStep DEF ReadBody, StreamInStep
    <2> QED BY <1>1, <2>1, Zenon DEF ReadBody, SetReadCode
  <1>2. ASSUME NEW t \in Threads, Send(t) PROVE ResponseIsOurs'
    BY <1>2, Zenon DEF Send
  <1>3. ASSUME NEW t \in Threads, ReadHeader(t) PROVE ResponseIsOurs'
    BY <1>3, Zenon DEF ReadHeader, SetReadCode
  <1>4. ASSUME NEW t \in Threads,
               ReadLock(t) \/ Loop(t) \/ ReadFails(t) \/ Return(t) \/ Disconnect(t)
        PROVE  ResponseIsOurs'
    BY <1>4, Zenon DEF ReadLock, Loop, ReadFails, Return, Disconnect
  <1>5. CASE AnswerHeader \/ AnswerBody \/ HangUp \/ UNCHANGED vars
    BY <1>5, Zenon DEF AnswerHeader, AnswerBody, HangUp, vars, state
  <1> QED
    BY <1>1, <1>2, <1>3, <1>4, <1>5, Zenon DEF Next, ThreadStep

(* A reference is taken with every call that is sent and dropped when the    *)
(* call returns, and the transport's own one when it disconnects.            *)
LEMMA RefsStep == Inv /\ [Next]_vars => RefsCountCalls' /\ refs' \in Nat
  <1> SUFFICES ASSUME Inv, [Next]_vars PROVE RefsCountCalls' /\ refs' \in Nat
    BY Zenon
  <1> USE DEF Goto, wire, call
  <1>0. /\ pc \in [Threads -> Steps] /\ socket \in BOOLEAN
        /\ IsFiniteSet(Busy) /\ Cardinality(Busy) \in Nat
        /\ refs = (IF socket THEN 1 ELSE 0) + Cardinality(Busy)
    BY ThreadsAssumption, FS_Subset, FS_CardinalityType, Zenon DEF Inv, TypeOK,
       RefsCountCalls, Busy
  <1>1. ASSUME Busy' = Busy, UNCHANGED <<socket, refs>>
        PROVE  RefsCountCalls' /\ refs' \in Nat
    BY <1>0, <1>1 DEF RefsCountCalls, Busy
  <1>2. ASSUME NEW t \in Threads, Send(t) PROVE RefsCountCalls' /\ refs' \in Nat
    <2>1. CASE fd /\ peer
      <3>1. t \notin Busy /\ Busy' = Busy \cup {t}
        BY <1>0, <1>2, <2>1, Zenon DEF Send, Busy, At
      <3>2. IsFiniteSet(Busy') /\ Cardinality(Busy') = Cardinality(Busy) + 1
        BY <1>0, <3>1, FS_AddElement, Zenon
      <3> QED BY <1>0, <1>2, <2>1, <3>2 DEF Send, RefsCountCalls, Busy
    <2>2. CASE ~(fd /\ peer)
      <3>1. Busy' = Busy /\ UNCHANGED <<socket, refs>>
        BY <1>2, <2>2, Zenon DEF Send, Busy, At
      <3> QED BY <1>1, <3>1, Zenon
    <2> QED BY <2>1, <2>2, Zenon
  <1>3. ASSUME NEW t \in Threads, Return(t) PROVE RefsCountCalls' /\ refs' \in Nat
    <2>1. t \in Busy /\ Busy' = Busy \ {t}
      BY <1>0, <1>3, Zenon DEF Return, Busy, At
    <2>2. IsFiniteSet(Busy') /\ Cardinality(Busy') = Cardinality(Busy) - 1
          /\ Cardinality(Busy') \in Nat
      BY <1>0, <2>1, FS_RemoveElement, FS_CardinalityType, Zenon
    <2> QED BY <1>0, <1>3, <2>2 DEF Return, RefsCountCalls, Busy
  <1>4. ASSUME NEW t \in Threads, Disconnect(t) PROVE RefsCountCalls' /\ refs' \in Nat
    <2>1. Busy' = Busy
      BY <1>4, Zenon DEF Disconnect, Busy, At
    <2> QED BY <1>0, <1>4, <2>1 DEF Disconnect, RefsCountCalls, Busy
  <1>5. ASSUME NEW t \in Threads, ReadLock(t) \/ Loop(t) \/ ReadFails(t)
        PROVE  Busy' = Busy /\ UNCHANGED <<socket, refs>>
    BY <1>0, <1>5, Zenon DEF ReadLock, Loop, ReadFails, Busy, At
  <1>6. ASSUME NEW t \in Threads, ReadHeader(t) \/ ReadBody(t)
        PROVE  Busy' = Busy /\ UNCHANGED <<socket, refs>>
    BY <1>0, <1>6, Zenon DEF ReadHeader, ReadBody, SetReadCode, Busy, At
  <1>7. CASE AnswerHeader \/ AnswerBody \/ HangUp \/ UNCHANGED vars
    <2>1. Busy' = Busy /\ UNCHANGED <<socket, refs>>
      BY <1>7, Zenon DEF AnswerHeader, AnswerBody, HangUp, vars, state, Busy, At
    <2> QED BY <1>1, <2>1, Zenon
  <1> QED
    BY <1>1, <1>2, <1>3, <1>4, <1>5, <1>6, <1>7, Zenon DEF Next, ThreadStep

(* The inductive invariant holds in every state.                             *)
THEOREM Invariance == Spec => []Inv
  <1>1. Inv /\ [Next]_vars => Inv'
    BY TypeStep, ReadingStep, FramedStep, ResponseStep, RefsStep, Zenon DEF Inv
  <1> QED BY InitInv, <1>1, PTL DEF Spec

(* rpc_transport_buffer gives every call the response to its own request,    *)
(* and no two calls in progress share a code; the stream is never read out   *)
(* of step; and rpc_socket.refs is exact.                                    *)
THEOREM Matching == Spec => []ResponsesMatch
  <1>1. Inv => ResponsesMatch
    BY InStep, Zenon DEF Inv, Reading, Fresh, ResponsesMatch, CodesDiffer
  <1> QED BY Invariance, <1>1, PTL
-----------------------------------------------------------------------------
\* The rest is about the threads that wait for another one to read its body.
\* They have given way to a header that was read and that is not theirs.
GaveWay ==
    \A t \in Threads : At(t, "waiting") => read_code # 0 /\ call_code[t] # read_code

\* A code is in one place only: not answered yet, in a header that was not read
\* yet, or in read_code.
Headers == {i \in 1 .. Len(stream) : stream[i].part = "header"}
Once ==
    /\ read_code \notin requests
    /\ \A i \in Headers : stream[i].code \notin requests /\ stream[i].code # read_code
    /\ \A i, j \in Headers : i # j => stream[i].code # stream[j].code

\* And it is the code of a thread that has not got its response yet.
Unserved == {t \in Threads : pc[t] \in {"read", "loop", "header", "body", "waiting"}}
Claimed == {call_code[t] : t \in Unserved}
Awaited ==
    /\ requests \subseteq Claimed
    /\ \A i \in Headers : stream[i].code \in Claimed
    /\ read_code # 0 => read_code \in Claimed

Up == peer /\ fd
Waits == Up => GaveWay /\ Once /\ Awaited

(* No thread waits and nothing was sent at first.                            *)
LEMMA InitWaits == Init => Waits
  BY DEF Init, Waits, GaveWay, Once, Awaited, Headers, At

(* A step that moves no code and takes no thread out of its call keeps who   *)
(* waits for what.                                                           *)
LEMMA WaitsKept ==
    ASSUME Inv, Waits, Up, UNCHANGED <<stream, read_code, requests, call_code>>,
           Claimed \subseteq Claimed',
           \A t \in Threads : At(t, "waiting")' =>
               At(t, "waiting") \/ (read_code # 0 /\ call_code[t] # read_code)
    PROVE  Waits'
  <1>1. GaveWay'
    BY Zenon DEF Waits, GaveWay, At
  <1>2. Headers' = Headers
    BY Zenon DEF Headers
  <1>3. Once' /\ Awaited'
    BY <1>2, Zenon DEF Waits, Once, Awaited
  <1> QED BY <1>1, <1>3, Zenon DEF Waits

(* rpc_transport_buffer gives a call a code of its own, which the caller     *)
(* waits for.                                                                *)
LEMMA WaitsSend ==
    ASSUME Inv, Waits, Up, Up', NEW t \in Threads, Send(t) PROVE Waits'
  <1>1. /\ call_code \in [Threads -> Codes \cup {0}] /\ pc \in [Threads -> Steps]
        /\ fd /\ peer /\ At(t, "idle")
        /\ call_code' = [call_code EXCEPT ![t] = last_code]
        /\ pc' = [pc EXCEPT ![t] = "read"]
        /\ requests' = requests \cup {last_code}
        /\ UNCHANGED <<stream, read_code>>
    BY Zenon DEF Send, Up, Goto, Inv, TypeOK
  <1>2. last_code \notin Claimed
    <2>1. \A u \in Threads : call_code[u] # last_code
      BY CallsAssumption DEF Inv, TypeOK, Fresh, Codes
    <2> QED BY <2>1, Zenon DEF Claimed, Unserved
  <1>3. Claimed' = Claimed \cup {last_code}
    <2>1. t \notin Unserved /\ Unserved' = Unserved \cup {t}
      BY <1>1, Zenon DEF Unserved, At
    <2>2. call_code'[t] = last_code /\ \A u \in Unserved : call_code'[u] = call_code[u]
      BY <1>1, <2>1, Zenon DEF Unserved
    <2> QED BY <2>1, <2>2, Zenon DEF Claimed
  <1>4. GaveWay'
    BY <1>1, Zenon DEF Waits, GaveWay, At
  <1>5. Headers' = Headers
    BY <1>1, Zenon DEF Headers
  <1>6. Awaited'
    BY <1>1, <1>3, <1>5, Zenon DEF Waits, Awaited
  <1>7. read_code # last_code
    <2>1. last_code # 0
      BY CallsAssumption DEF Inv, TypeOK
    <2> QED BY <1>2, <2>1, Zenon DEF Waits, Awaited
  <1>8. Once'
    BY <1>1, <1>2, <1>5, <1>7, Zenon DEF Waits, Awaited, Once
  <1> QED BY <1>4, <1>6, <1>8, Zenon DEF Waits
(* What is left of the stream once its first message was read                *)
LEMMA ReadOff ==
    ASSUME Inv, stream # <<>>, stream' = Tail(stream)
    PROVE  /\ 1 \in 1 .. Len(stream) /\ Head(stream) = stream[1]
           /\ \A i \in Headers' : i + 1 \in Headers /\ stream'[i] = stream[i + 1] /\ i + 1 # 1
           /\ \A i, j \in Headers' : i # j => i + 1 # j + 1
  <1>1. /\ Len(stream) \in Nat /\ Len(stream) > 0 /\ Len(stream') = Len(stream) - 1
        /\ Head(stream) = stream[1]
        /\ \A i \in 1 .. Len(stream') : stream'[i] = stream[i + 1]
    BY HeadTailProperties, EmptySeq, LenProperties DEF Inv, TypeOK
  <1> QED BY <1>1 DEF Headers

(* The header that a thread reads is the code of a call that waits for it,   *)
(* and all that wait look at it again (rpc_socket_set_read_code_inlock).     *)
LEMMA WaitsReadHeader ==
    ASSUME Inv, Waits, Up, NEW t \in Threads, ReadHeader(t) PROVE Waits'
  <1>1. /\ pc \in [Threads -> Steps] /\ stream # <<>> /\ stream' = Tail(stream)
        /\ pc' = [u \in Threads |-> IF u = t THEN "loop"
                                    ELSE IF pc[u] = "waiting" THEN "read" ELSE pc[u]]
        /\ pc[t] = "header" /\ read_code = 0 /\ read_code' = Head(stream).code
        /\ UNCHANGED <<call_code, requests>>
    BY Zenon DEF ReadHeader, SetReadCode, At, Inv, TypeOK, Reading, call
  <1>2. GaveWay'
    BY <1>1, Zenon DEF GaveWay, At
  <1>3. Claimed' = Claimed
    <2>1. Unserved' = Unserved
      BY <1>1, Zenon DEF Unserved
    <2> QED BY <1>1, <2>1, Zenon DEF Claimed
  <1>4. 1 \in Headers /\ read_code' = stream[1].code
    BY <1>1, ReadOff, Zenon DEF Inv, Framed, Front, Headers
  <1>5. \A i \in Headers' : i + 1 \in Headers /\ stream'[i] = stream[i + 1] /\ i + 1 # 1
    BY <1>1, ReadOff, Zenon
  <1>6. \A i, j \in Headers' : i # j => i + 1 # j + 1
    BY <1>1, ReadOff, Zenon
  <1>7. Awaited'
    BY <1>1, <1>3, <1>4, <1>5, Zenon DEF Waits, Awaited
  <1>8. Once'
    <2>1. read_code' \notin requests'
      BY <1>1, <1>4, Zenon DEF Waits, Once
    <2>2. ASSUME NEW i \in Headers'
          PROVE  stream'[i].code \notin requests' /\ stream'[i].code # read_code'
      BY <1>1, <1>4, <1>5, ZenonT(40) DEF Waits, Once
    <2>3. ASSUME NEW i \in Headers', NEW j \in Headers', i # j
          PROVE  stream'[i].code # stream'[j].code
      BY <1>5, <1>6, <2>3 DEF Waits, Once
    <2> QED BY <2>1, <2>2, <2>3, Zenon DEF Once
  <1> QED BY <1>2, <1>7, <1>8, Zenon DEF Waits

(* The body that a thread reads is the one its own code stands for, which is *)
(* then nowhere any more; again all that wait look.                          *)
LEMMA WaitsReadBody ==
    ASSUME Inv, Waits, Up, NEW t \in Threads, ReadBody(t) PROVE Waits'
  <1>1. /\ pc \in [Threads -> Steps] /\ stream # <<>> /\ stream' = Tail(stream)
        /\ pc' = [u \in Threads |-> IF u = t THEN "ok"
                                    ELSE IF pc[u] = "waiting" THEN "read" ELSE pc[u]]
        /\ pc[t] = "body" /\ read_code = call_code[t] /\ read_code # 0 /\ read_code' = 0
        /\ UNCHANGED <<call_code, requests>>
    BY Zenon DEF ReadBody, SetReadCode, At, Inv, TypeOK, Reading
  <1>2. GaveWay'
    BY <1>1, Zenon DEF GaveWay, At
  <1>3. Claimed \ {read_code} \subseteq Claimed'
    <2>1. Unserved' = Unserved \ {t}
      BY <1>1, Zenon DEF Unserved
    <2> QED BY <1>1, <2>1, Zenon DEF Claimed
  <1>5. \A i \in Headers' : i + 1 \in Headers /\ stream'[i] = stream[i + 1]
    BY <1>1, ReadOff, Zenon
  <1>6. \A i, j \in Headers' : i # j => i + 1 # j + 1
    BY <1>1, ReadOff, Zenon
  <1>7. Awaited'
    BY <1>1, <1>3, <1>5, ZenonT(40) DEF Waits, Awaited, Once
  <1>8. 0 \notin requests /\ \A i \in Headers : stream[i].code # 0
    <2>1. \A i \in Headers : stream[i] \in Messages
      BY ElementOfSeq, Zenon DEF Headers, Inv, TypeOK
    <2>2. 0 \notin Codes
      BY CallsAssumption DEF Codes, Inv, TypeOK
    <2>3. requests \subseteq Codes
      BY Zenon DEF Inv, TypeOK
    <2> QED BY <2>1, <2>2, <2>3, Zenon DEF Messages
  <1>9. Once'
    BY <1>1, <1>5, <1>6, <1>8, ZenonT(40) DEF Waits, Once
  <1> QED BY <1>2, <1>7, <1>9, Zenon DEF Waits

(* A header that the peer writes moves its code from the requests to the     *)
(* stream, a body moves none.                                                *)
LEMMA WaitsAnswer ==
    ASSUME Inv, Waits, Up, AnswerHeader \/ AnswerBody PROVE Waits'
  <1>1. PICK m \in Messages :
           /\ stream' = Append(stream, m)
           /\ IF m.part = "header" THEN m.code \in requests /\ requests' = requests \ {m.code}
              ELSE UNCHANGED requests
    <2>1. CASE AnswerHeader
      <3>1. PICK c \in requests : /\ requests' = requests \ {c}
                                  /\ stream' = Append(stream, [part |-> "header", code |-> c])
        BY <2>1, Zenon DEF AnswerHeader
      <3>2. [part |-> "header", code |-> c] \in Messages
        BY Zenon DEF Inv, TypeOK, Messages
      <3> QED BY <3>1, <3>2, Zenon
    <2>2. CASE AnswerBody
      <3>1. [part |-> "body", code |-> answering] \in Messages
        BY <2>2, Zenon DEF AnswerBody, Inv, TypeOK, Messages
      <3> QED BY <2>2, <3>1, Zenon DEF AnswerBody
    <2> QED BY <2>1, <2>2, Zenon
  <1>2. UNCHANGED <<pc, call_code, read_code>>
    BY Zenon DEF AnswerHeader, AnswerBody, call
  <1>3. GaveWay' /\ Claimed' = Claimed
    BY <1>2, Zenon DEF Waits, GaveWay, At, Claimed, Unserved
  <1> DEFINE n == Len(stream) + 1
  <1>4. /\ \A i \in Headers' : (i \in Headers /\ stream'[i] = stream[i]) \/ i = n
        /\ n \in Headers' => m.part = "header" /\ stream'[n] = m
    <2>1. /\ Len(stream) \in Nat /\ Len(stream') = Len(stream) + 1
          /\ \A i \in 1 .. Len(stream) : stream'[i] = stream[i]
          /\ stream'[Len(stream) + 1] = m
      BY <1>1, AppendProperties, LenProperties DEF Inv, TypeOK
    <2> QED BY <2>1 DEF Headers
  <1> HIDE DEF n
  <1>5. Awaited'
    BY <1>1, <1>2, <1>3, <1>4, Zenon DEF Waits, Awaited
  <1>6. Once'
    BY <1>1, <1>2, <1>4, ZenonT(40) DEF Waits, Once
  <1> QED BY <1>3, <1>5, <1>6, Zenon DEF Waits

(* While the connection is up, every step keeps who waits for what; a        *)
(* connection that is down never comes up again.                             *)
LEMMA WaitsStep == Inv /\ Waits /\ [Next]_vars => Waits'
  <1> SUFFICES ASSUME Inv, Waits, [Next]_vars, Up' PROVE Waits'
    BY Zenon DEF Waits
  <1> USE DEF Goto, wire, call
  <1>0. Up
    BY Zenon
       DEF Up, Next, ThreadStep, Send, ReadLock, Loop, ReadHeader, ReadBody,
       ReadFails, Return,
           Disconnect, AnswerHeader, AnswerBody, HangUp, vars, state
  <1>1. ASSUME NEW t \in Threads, ReadLock(t) \/ Loop(t) \/ Return(t) PROVE Waits'
    <2>1. UNCHANGED <<stream, read_code, requests, call_code>>
      BY <1>1, Zenon DEF ReadLock, Loop, Return
    <2>2. Unserved' = Unserved
      BY <1>1, Zenon DEF ReadLock, Loop, Return, Unserved, At, Inv, TypeOK
    <2>3. \A u \in Threads : At(u, "waiting")' =>
              At(u, "waiting") \/ (read_code # 0 /\ call_code[u] # read_code)
      BY <1>1, Zenon DEF ReadLock, Loop, Return, IsOurs, At, Inv, TypeOK
    <2> QED BY <1>0, <2>1, <2>2, <2>3, WaitsKept, Zenon DEF Claimed
  <1>2. ASSUME NEW t \in Threads, ReadFails(t) \/ Disconnect(t) PROVE FALSE
    BY <1>0, <1>2, Zenon DEF ReadFails, Disconnect, Up
  <1>3. CASE HangUp
    BY <1>3, Zenon DEF HangUp, Up
  <1>4. CASE UNCHANGED vars
    BY <1>0, <1>4, WaitsKept, Zenon DEF vars, state, Claimed, Unserved, At
  <1> QED
    BY <1>0, <1>1, <1>2, <1>3, <1>4, WaitsSend, WaitsReadHeader, WaitsReadBody,
       WaitsAnswer, Zenon
    DEF Next, ThreadStep

(* rpc_socket_read leaves a header that is not its own to the thread it is   *)
(* for and waits.  As long as the connection is up, whatever the number of   *)
(* threads and the order of the answers, that thread is there and reads: a   *)
(* thread waits for nobody only after the connection has failed.             *)
THEOREM WaitersHaveReaderWhileUp == Spec => [](peer /\ fd => WaitersHaveReader)
  <1>1. Inv /\ Waits => (peer /\ fd => WaitersHaveReader)
    <2> SUFFICES ASSUME Inv, GaveWay, Awaited PROVE WaitersHaveReader
      BY Zenon DEF Waits, Up
    <2> QED BY Zenon
               DEF GaveWay, Awaited, Claimed, Unserved, WaitersHaveReader, At
  <1>2. Inv /\ Waits /\ [Next]_vars => Waits'
    BY WaitsStep, Zenon
  <1> QED BY InitWaits, Invariance, <1>1, <1>2, PTL DEF Spec
==============================================================================
