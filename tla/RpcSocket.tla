----------------------------- MODULE RpcSocket -----------------------------
(***************************************************************************)
(* The socket of an RPC transport, p11-kit/rpc-transport.c: several threads *)
(* send their calls over one connection and read the responses back.  Each  *)
(* call carries a code; a thread that reads another one's header leaves the *)
(* body to it and waits on read_code_cond.                                  *)
(*                                                                         *)
(* A section under write_lock is one step.  read_lock is held across steps, *)
(* because reads block.                                                     *)
(***************************************************************************)
EXTENDS Integers, Sequences, FiniteSets

CONSTANTS
    Threads,    \* the threads that make calls
    NoThread,   \* no owner
    Troubles,   \* what may happen, a set of sets of "hangup" and "finalize"
    MaxCalls    \* bound on the number of calls, for each element of Troubles

ASSUME ThreadsAssumption == IsFiniteSet(Threads) /\ NoThread \notin Threads
ASSUME TroublesAssumption == Troubles \subseteq SUBSET {"hangup", "finalize"}
ASSUME CallsAssumption == MaxCalls \in [Troubles -> Nat]

VARIABLES
    socket,      \* p11_rpc_transport.socket: is there one?
    fd,          \* rpc_socket.read_fd and write_fd: open or closed (-1)
    refs,        \* rpc_socket.refs
    last_code,   \* rpc_socket.last_code, counted from 1
    read_lock,   \* owner of rpc_socket.read_lock
    read_code,   \* rpc_socket.read_code: the header that was read, or 0
    requests,    \* the codes of the calls the peer has to answer
    answering,   \* the code of the answer the peer has half written, or 0
    stream,      \* what the peer has sent: headers and bodies
    peer,        \* is the peer there?
    pc,          \* per thread: the step of its call
    call_code,   \* per thread: the code of its call
    response,    \* per thread: the code whose body it was given, 0 for none
    may          \* what may happen in this behaviour: the peer hangs up, a
                 \* thread finalizes while others make calls

wire == <<requests, answering, stream, peer>>
call == <<call_code, response>>
state == <<socket, fd, refs, last_code, read_lock, read_code, wire, pc, call>>
vars == <<state, may>>

Codes == 1 .. MaxCalls[may]
Messages == [part : {"header", "body"}, code : Codes]
Steps == {"idle", "read", "loop", "header", "body", "waiting", "ok", "failed"}

TypeOK ==
    /\ may \in Troubles
    /\ socket \in BOOLEAN /\ fd \in BOOLEAN /\ peer \in BOOLEAN
    /\ refs \in Nat
    /\ last_code \in 1 .. MaxCalls[may] + 1
    /\ read_lock \in Threads \cup {NoThread}
    /\ read_code \in Codes \cup {0}
    /\ requests \subseteq Codes
    /\ answering \in Codes \cup {0}
    /\ stream \in Seq(Messages)
    /\ pc \in [Threads -> Steps]
    /\ call_code \in [Threads -> Codes \cup {0}]
    /\ response \in [Threads -> Codes \cup {0}]

Init ==
    /\ socket = TRUE /\ fd = TRUE /\ peer = TRUE
    /\ refs = 1
    /\ last_code = 1
    /\ read_lock = NoThread
    /\ read_code = 0
    /\ requests = {}
    /\ answering = 0
    /\ stream = <<>>
    /\ pc = [t \in Threads |-> "idle"]
    /\ call_code = [t \in Threads |-> 0]
    /\ response = [t \in Threads |-> 0]
    /\ may \in Troubles

At(t, step) == pc[t] = step
Goto(t, step) == pc' = [pc EXCEPT ![t] = step]
-----------------------------------------------------------------------------
\* rpc_transport_buffer, up to the point where write_lock is released: the
\* request goes out whole, or the call fails and closes the descriptor.
Send(t) ==
    /\ socket /\ At(t, "idle") /\ last_code <= MaxCalls[may]
    /\ last_code' = last_code + 1
    /\ call_code' = [call_code EXCEPT ![t] = last_code]
    /\ response' = [response EXCEPT ![t] = 0]
    /\ IF fd /\ peer
       THEN /\ requests' = requests \cup {last_code}
            /\ refs' = refs + 1
            /\ Goto(t, "read")
            /\ UNCHANGED fd
       ELSE /\ fd' = FALSE
            /\ UNCHANGED <<requests, refs, pc>>
    /\ UNCHANGED <<socket, read_lock, read_code, answering, stream, peer>>

\* rpc_socket_read takes read_lock ...
ReadLock(t) ==
    /\ At(t, "read") /\ read_lock = NoThread
    /\ read_lock' = t
    /\ Goto(t, "loop")
    /\ UNCHANGED <<socket, fd, refs, last_code, read_code, wire, call>>

\* ... and decides, by the header that was read last, whether to read a header,
\* to read the body, or to wait for somebody else to read it.
IsOursMutant(t) == TRUE
IsOurs(t) == read_code = call_code[t]
Loop(t) ==
    /\ At(t, "loop")
    /\ \/ read_code = 0 /\ Goto(t, "header") /\ UNCHANGED read_lock
       \/ read_code # 0 /\ IsOurs(t) /\ Goto(t, "body") /\ UNCHANGED read_lock
       \/ /\ read_code # 0 /\ ~IsOurs(t)
          /\ Goto(t, "waiting") /\ read_lock' = NoThread
    /\ UNCHANGED <<socket, fd, refs, last_code, read_code, wire, call>>

\* rpc_socket_set_read_code_inlock: whoever waits will lock read_lock again.
SetReadCodeMutant(t, code, step) ==
    /\ read_code' = code
    /\ pc' = [pc EXCEPT ![t] = step]
SetReadCode(t, code, step) ==
    /\ read_code' = code
    /\ pc' = [u \in Threads |-> IF u = t THEN step
                                ELSE IF pc[u] = "waiting" THEN "read" ELSE pc[u]]

\* read_all of the header
ReadHeader(t) ==
    /\ At(t, "header") /\ stream # <<>>
    /\ stream' = Tail(stream)
    /\ SetReadCode(t, Head(stream).code, "loop")
    /\ UNCHANGED <<socket, fd, refs, last_code, read_lock, requests,
                   answering, peer, call>>

\* read_all of the options and the data
ReadBody(t) ==
    /\ At(t, "body") /\ stream # <<>>
    /\ stream' = Tail(stream)
    /\ response' = [response EXCEPT ![t] = Head(stream).code]
    /\ SetReadCode(t, 0, "ok")
    /\ read_lock' = NoThread
    /\ UNCHANGED <<socket, fd, refs, last_code, requests, answering, peer,
                   call_code>>

\* read_all fails at the end of the stream or on a closed descriptor; read_code
\* stays as it is, and nobody is woken.
ReadFails(t) ==
    /\ At(t, "header") \/ At(t, "body")
    /\ ~fd \/ (~peer /\ stream = <<>>)
    /\ read_lock' = NoThread
    /\ Goto(t, "failed")
    /\ UNCHANGED <<socket, fd, refs, last_code, read_code, wire, call>>

\* The rest of rpc_transport_buffer, under write_lock again.
ReturnMutant(t) ==
    /\ At(t, "ok") \/ At(t, "failed")
    /\ fd' = (fd /\ At(t, "ok"))
    /\ refs' = IF At(t, "ok") THEN refs - 1 ELSE refs
    /\ Goto(t, "idle")
    /\ UNCHANGED <<socket, last_code, read_lock, read_code, wire, call>>
ReturnTwice(t) ==
    /\ At(t, "ok") \/ At(t, "failed")
    /\ fd' = (fd /\ At(t, "ok"))
    /\ refs' = refs - 2
    /\ Goto(t, "idle")
    /\ UNCHANGED <<socket, last_code, read_lock, read_code, wire, call>>
Return(t) ==
    /\ At(t, "ok") \/ At(t, "failed")
    /\ fd' = (fd /\ At(t, "ok"))
    /\ refs' = refs - 1
    /\ Goto(t, "idle")
    /\ UNCHANGED <<socket, last_code, read_lock, read_code, wire, call>>
-----------------------------------------------------------------------------
\* The peer answers the calls in any order, header first.
AnswerHeader ==
    /\ peer /\ answering = 0
    /\ \E c \in requests :
          /\ requests' = requests \ {c}
          /\ answering' = c
          /\ stream' = Append(stream, [part |-> "header", code |-> c])
    /\ UNCHANGED <<socket, fd, refs, last_code, read_lock, read_code, peer,
                   pc, call>>

AnswerBody ==
    /\ peer /\ answering # 0
    /\ stream' = Append(stream, [part |-> "body", code |-> answering])
    /\ answering' = 0
    /\ UNCHANGED <<socket, fd, refs, last_code, read_lock, read_code,
                   requests, peer, pc, call>>

HangUp ==
    /\ "hangup" \in may /\ peer
    /\ peer' = FALSE
    /\ requests' = {}
    /\ UNCHANGED <<socket, fd, refs, last_code, read_lock, read_code,
                   answering, stream, pc, call>>

\* rpc_transport_disconnect, the last thing C_Finalize does: by the thread
\* whose C_Finalize call has returned, perhaps while others still wait.
Disconnect(t) ==
    /\ "finalize" \in may /\ socket
    /\ At(t, "idle") /\ call_code[t] # 0
    /\ socket' = FALSE
    /\ fd' = FALSE
    /\ refs' = refs - 1
    /\ UNCHANGED <<last_code, read_lock, read_code, pc, wire, call>>

ThreadStep(t) ==
    \/ ReadLock(t) \/ Loop(t) \/ ReadHeader(t) \/ ReadBody(t) \/ ReadFails(t)
    \/ Return(t)

Next ==
    /\ \/ \E t \in Threads : Send(t) \/ ThreadStep(t) \/ Disconnect(t)
       \/ AnswerHeader \/ AnswerBody \/ HangUp
    /\ UNCHANGED may

Spec == Init /\ [][Next]_vars

\* Threads run, the mutexes and the condition variable are fair, and a peer
\* that does not hang up answers.
Fairness ==
    /\ \A t \in Threads : SF_state(ThreadStep(t))
    /\ WF_state(AnswerHeader) /\ WF_state(AnswerBody)
FairSpec == Spec /\ Fairness
-----------------------------------------------------------------------------
(* A call that succeeds has got the response to its own request, however     *)
(* many threads share the socket and whatever order the answers come in.     *)
ResponseIsOurs ==
    \A t \in Threads : At(t, "ok") => response[t] = call_code[t]

(* The calls in progress carry different codes, so that a response says      *)
(* which one it belongs to.                                                  *)
CodesDiffer ==
    \A t, u \in Threads :
        t # u /\ ~At(t, "idle") /\ ~At(u, "idle") => call_code[t] # call_code[u]

(* The body of a message is read right after its header: a thread that is    *)
(* about to read a header finds one, a thread that reads a body finds the    *)
(* body of the header it matched.                                            *)
StreamInStep ==
    \A t \in Threads : stream # <<>> =>
        /\ At(t, "header") => Head(stream).part = "header"
        /\ At(t, "body") => Head(stream) = [part |-> "body", code |-> call_code[t]]

(* refs counts the calls in progress on top of the transport's reference, as *)
(* the assertions of rpc_transport_buffer rely on.                           *)
RefsCountCalls ==
    refs = (IF socket THEN 1 ELSE 0) + Cardinality({t \in Threads : ~At(t, "idle")})

(* The threads of a process that share a socket do not get in each other's   *)
(* way: a call that succeeds has got the response to its own request, which  *)
(* no other call shares a code with, the bodies are read right after their   *)
(* headers, and the references are as many as there are calls.               *)
ResponsesMatch ==
    TypeOK /\ ResponseIsOurs /\ CodesDiffer /\ StreamInStep /\ RefsCountCalls

(* A thread gives way to the thread whose header was read: while one waits,  *)
(* the thread the header is for is still there to read the body.             *)
WaitersHaveReader ==
    \A t \in Threads : At(t, "waiting") =>
        \E u \in Threads : /\ call_code[u] = read_code
                           /\ pc[u] \in {"read", "loop", "header", "body"}

\* A thread in a call, over a connection that lasts
InCall(t) == may = {} /\ ~At(t, "idle")
=============================================================================
