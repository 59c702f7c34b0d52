----------------------------- MODULE RpcLink ------------------------------
(***************************************************************************)
(* Connections between RPC clients and remotes, from both ends.             *)
(*                                                                         *)
(* The daemon 'p11-kit server', server.c, listens on a socket, starts a     *)
(* 'p11-kit remote' for every connection, counts these children, reaps them *)
(* when SIGCHLD tells it to, and exits on SIGTERM or when nobody was        *)
(* connected for a while.  Signals are blocked except inside pselect; one   *)
(* that comes while blocked is pending.  The remote: remote.c and           *)
(* p11_kit_remote_serve_module of rpc-server.c.  The client: C_Initialize,  *)
(* C_Finalize and the calls of rpc-client.c over the unix and the exec      *)
(* transports of rpc-transport.c.                                           *)
(*                                                                         *)
(* A client process may fork: the new process inherits the client's memory  *)
(* and descriptors, and p11_forkid, here the process itself, tells the two  *)
(* apart.  What is under way are whole messages: module RpcFrame is about   *)
(* messages that come in pieces.                                            *)
(***************************************************************************)
EXTENDS Naturals, Sequences, FiniteSets

CONSTANTS
    Procs,            \* the client processes
    Conns,            \* the connections that can be made, numbers from 1
    Startups,         \* how things may be started and what may fail: a set of records
                      \* of transport, foreground, timeout, listens, peer, forkFails,
                      \* killed, old (an old remote), remoteFails and moduleFails
    VERSION_MAXIMUM,  \* P11_RPC_PROTOCOL_VERSION_MAXIMUM
    MaxCalls          \* bound on the number of API calls

VARIABLES
    startup,                \* the element of Startups of this behaviour
    daemon,                 \* the step of server_loop
    socket,                 \* Server.socket: "none", "listening" or "stdout"
    printed,                \* has print_environment told the address?
    need_children_cleanup,  \* the flag of handle_children
    terminate,              \* the flag of handle_term
    children_avail,
    blocked,                \* is blockset blocked?
    pending,                \* the signals that are pending
    cfd,                    \* the connection accepted last
    conn,                   \* the connections
    proc,                   \* per process: its rpc_client, its transport and its call
    calls                   \* the API calls made so far

ConstantsOK ==
    /\ Conns \subseteq Nat /\ IsFiniteSet(Conns)
    /\ VERSION_MAXIMUM \in Nat
    /\ \A s \in Startups : s.transport \in {"unix", "exec"}

loop == <<daemon, socket, printed, need_children_cleanup, terminate,
          children_avail, blocked, pending, cfd>>
server == <<startup, loop, conn>>

NoConn == [opener |-> {}, holders |-> {}, daemon |-> "none", child |-> "none",
           up |-> <<>>, down |-> <<>>, version |-> 0]

Children == {i \in Conns : conn[i].child \in {"auth", "serving", "zombie"}}
Queued == {i \in Conns : conn[i].daemon = "queued"}

\* The far end of a connection is open as long as the daemon or a remote has it.
ServerEnd(i) ==
    conn[i].daemon \in {"queued", "open"} \/ conn[i].child \in {"auth", "serving"}
ClientEnd(i) == conn[i].holders # {}

ServerInit ==
    /\ startup \in Startups
    /\ daemon = IF startup.transport = "exec" THEN "gone" ELSE "main"
    /\ socket = "none"
    /\ printed = FALSE
    /\ need_children_cleanup = FALSE /\ terminate = FALSE
    /\ children_avail = 0
    /\ blocked = FALSE
    /\ pending = {}
    /\ cfd = {}
    /\ conn = [i \in Conns |-> NoConn]
-----------------------------------------------------------------------------
\* main: the options, the user and the group to run as, the runtime directory and
\* server_new; what fails ends it.
main ==
    /\ daemon = "main"
    /\ daemon' \in {"start", "gone"}
    /\ UNCHANGED <<socket, printed, need_children_cleanup, terminate,
                   children_avail, blocked, pending, cfd, conn>>

\* server_loop installs the handlers and, unless it stays in the foreground,
\* forks: the parent prints the environment and is gone before there is a socket.
\* The fork may fail, and so may the child's setsid.
Daemonize ==
    /\ daemon = "start"
    /\ \/ daemon' = "socket" /\ printed' = ~startup.foreground
       \/ ~startup.foreground /\ daemon' = "gone" /\ printed' \in BOOLEAN
    /\ UNCHANGED <<socket, need_children_cleanup, terminate, children_avail,
                   blocked, pending, cfd, conn>>

\* create_unix_socket, create_vsock_socket: socket, bind or chown may fail, which
\* ends the loop; a listen that fails returns 1, and the loop then runs on
\* descriptor 1.
create_unix_socket == {"none", IF startup.listens THEN "listening" ELSE "stdout"}
create_socket ==
    /\ daemon = "socket"
    /\ socket' \in create_unix_socket
    /\ daemon' = IF socket' = "none" THEN "gone" ELSE "block"
    /\ UNCHANGED <<printed, need_children_cleanup, terminate, children_avail,
                   blocked, pending, cfd, conn>>

BlockSignals ==
    /\ daemon = "block"
    /\ daemon' = "top"
    /\ blocked' = TRUE
    /\ printed' = TRUE
    /\ UNCHANGED <<socket, need_children_cleanup, terminate, children_avail,
                   pending, cfd, conn>>

\* The daemon's process is gone: its descriptors are closed.
Gone(c) ==
    [i \in Conns |-> IF c[i].daemon = "none" THEN c[i]
                     ELSE [c[i] EXCEPT !.daemon = "closed"]]

\* cleanup_children
Reaped(i) == conn[i].child = "zombie"
cleanup_children ==
    LET dead == {i \in Conns : Reaped(i)}
    IN  /\ conn' = [i \in Conns |-> IF i \in dead
                                    THEN [conn[i] EXCEPT !.child = "reaped"]
                                    ELSE conn[i]]
        /\ children_avail' = IF Cardinality(dead) < children_avail
                             THEN children_avail - Cardinality(dead) ELSE 0
        /\ need_children_cleanup' = FALSE

\* The top of the loop.
Top ==
    /\ daemon = "top"
    /\ IF need_children_cleanup THEN cleanup_children
       ELSE UNCHANGED <<conn, children_avail, need_children_cleanup>>
    /\ daemon' = IF terminate THEN "leave" ELSE "enter"
    /\ UNCHANGED <<socket, printed, terminate, blocked, pending, cfd>>

Enter ==
    /\ daemon = "enter"
    /\ daemon' = "select"
    /\ UNCHANGED <<socket, printed, need_children_cleanup, terminate,
                   children_avail, blocked, pending, cfd, conn>>

\* A signal is handled when it is not blocked, and inside pselect, which it
\* interrupts.
Handle(signal) ==
    /\ signal \in pending
    /\ daemon # "gone" /\ (~blocked \/ daemon = "select")
    /\ pending' = pending \ {signal}
    /\ need_children_cleanup' = (need_children_cleanup \/ signal = "CHLD")
    /\ terminate' = (terminate \/ signal = "TERM")
    /\ daemon' = IF daemon = "select" THEN "top" ELSE daemon
    /\ UNCHANGED <<socket, printed, children_avail, blocked, cfd, conn>>

\* pselect runs into the timeout.
TimeoutMutant ==
    /\ daemon = "select" /\ pending = {} /\ Queued = {}
    /\ startup.timeout /\ socket = "listening"
    /\ daemon' = "leave"
    /\ UNCHANGED <<socket, printed, need_children_cleanup, terminate,
                   children_avail, blocked, pending, cfd, conn>>
Timeout ==
    /\ daemon = "select" /\ pending = {} /\ Queued = {}
    /\ startup.timeout /\ socket = "listening"
    /\ daemon' = IF children_avail = 0 THEN "leave" ELSE "top"
    /\ UNCHANGED <<socket, printed, need_children_cleanup, terminate,
                   children_avail, blocked, pending, cfd, conn>>

check_credentials == startup.peer = "expected"

\* pselect reports the socket, accept takes a connection and check_credentials
\* lets it pass or closes it.  On descriptor 1 accept only ever fails.
Accept ==
    /\ daemon = "select"
    /\ \/ /\ socket = "stdout"
          /\ daemon' = "top"
          /\ UNCHANGED <<cfd, conn>>
       \/ \E i \in Queued :
             \/ /\ check_credentials
                /\ daemon' = "fork"
                /\ cfd' = {i}
                /\ conn' = [conn EXCEPT ![i].daemon = "open"]
             \/ /\ ~check_credentials
                /\ daemon' = "top"
                /\ conn' = [conn EXCEPT ![i].daemon = "closed"]
                /\ UNCHANGED cfd
    /\ UNCHANGED <<socket, printed, need_children_cleanup, terminate,
                   children_avail, blocked, pending>>

\* The fork: the child becomes a remote; a fork that fails leaves cfd open.
Fork ==
    /\ daemon = "fork"
    /\ \E i \in cfd :
          \/ /\ conn' = [conn EXCEPT ![i].child = "auth", ![i].daemon = "closed"]
             /\ children_avail' = children_avail + 1
          \/ startup.forkFails /\ UNCHANGED <<conn, children_avail>>
    /\ cfd' = {}
    /\ daemon' = "top"
    /\ UNCHANGED <<socket, printed, need_children_cleanup, terminate, blocked,
                   pending>>

\* The end of server_loop and of main: the socket is removed.
Leave ==
    /\ daemon = "leave"
    /\ daemon' = "gone"
    /\ socket' = "none"
    /\ conn' = Gone(conn)
    /\ UNCHANGED <<printed, need_children_cleanup, terminate, children_avail,
                   blocked, pending, cfd>>

\* Somebody sends SIGTERM: 'p11-kit server --kill', or a terminal SIGINT.
Kill ==
    /\ startup.killed /\ daemon # "gone" /\ printed /\ ~terminate
    /\ pending' = pending \cup {"TERM"} /\ pending' # pending
    /\ UNCHANGED <<daemon, socket, printed, need_children_cleanup, terminate,
                   children_avail, blocked, cfd, conn>>

Deliver == \E signal \in {"CHLD", "TERM"} : Handle(signal)
ServerStep ==
    /\ \/ main \/ Daemonize \/ create_socket \/ BlockSignals \/ Top \/ Enter
       \/ Timeout \/ Accept \/ Fork \/ Leave
       \/ Deliver
    /\ UNCHANGED startup
-----------------------------------------------------------------------------
(* The connections, the remotes and the clients at their ends.             *)

vars == <<server, proc, calls>>

\* forkid is initialized_forkid, done initialize_done; sock is the connection of
\* the transport's rpc_socket, fd whether its descriptor is open, pid the
\* connection whose remote rpc_exec.pid is.
Fresh == [born |-> FALSE, alive |-> FALSE, forkid |-> {}, done |-> FALSE,
          version |-> 0, sock |-> {}, fd |-> FALSE, pid |-> {}, pc |-> "idle",
          then |-> "idle", tries |-> 0]

Init ==
    /\ ServerInit
    /\ calls = 0
    /\ LET first == CHOOSE p \in Procs : TRUE
       IN  proc = [p \in Procs |-> [Fresh EXCEPT !.alive = (p = first),
                                                 !.born = (p = first)]]

At(p, step) == proc[p].alive /\ proc[p].pc = step
Sock(p) == CHOOSE i \in Conns : i \in proc[p].sock
Set(p, new) == proc' = [proc EXCEPT ![p] = new]
Smaller(a, b) == IF a < b THEN a ELSE b
Message(kind, v) == [kind |-> kind, v |-> v]
-----------------------------------------------------------------------------
(* The remote.                                                             *)

Exit(i) ==
    /\ conn' = [conn EXCEPT ![i].child = "zombie"]
    /\ pending' = IF daemon # "gone"
                  THEN pending \cup {"CHLD"} ELSE pending
Answer(i, step, m) ==
    /\ conn' = [conn EXCEPT ![i].child = step, ![i].up = Tail(@),
                            ![i].down = Append(@, m)]
    /\ UNCHANGED pending

\* p11_kit_remote_serve_module reads the version byte and answers the version it
\* will use.  A remote of an earlier release takes no byte but 0.
OldRemote(v) == startup.old /\ v # 0
remote_versionMutant(v) == VERSION_MAXIMUM
remote_version(v) == Smaller(v, VERSION_MAXIMUM)
ServeVersion(i) ==
    LET c == conn[i]
        v == Head(c.up).v
    IN  /\ c.child = "auth"
        /\ \/ /\ c.up # <<>> /\ ClientEnd(i) /\ ~OldRemote(v)
              /\ conn' = [conn EXCEPT
                    ![i].child = "serving", ![i].up = Tail(@),
                    ![i].version = remote_version(v),
                    ![i].down = Append(@, Message("version", remote_version(v)))]
              /\ UNCHANGED pending
           \/ /\ c.up = <<>> => ~ClientEnd(i)
              /\ c.up # <<>> => (~ClientEnd(i) \/ OldRemote(v))
              /\ Exit(i)

\* The loop of p11_kit_remote_serve_module: a message is handled and answered;
\* the end of the stream, or an answer that nobody reads, ends it.
ServeMessage(i) ==
    LET c == conn[i]
    IN  /\ c.child = "serving"
        /\ \/ /\ c.up # <<>> /\ ClientEnd(i)
              /\ Answer(i, "serving", Message(IF Head(c.up).kind = "initialize"
                                                 /\ startup.moduleFails
                                              THEN "error" ELSE "ok", 0))
           \/ ~ClientEnd(i) /\ Exit(i)

\* main of remote.c: a module that cannot be loaded, or a bad argument, ends the
\* remote before it reads anything.
RemoteFails(i) == startup.remoteFails /\ conn[i].child = "auth" /\ Exit(i)

Remote ==
    /\ \E i \in Conns : ServeVersion(i) \/ ServeMessage(i) \/ RemoteFails(i)
    /\ UNCHANGED <<daemon, socket, printed, need_children_cleanup, terminate,
                   children_avail, blocked, cfd, startup, proc, calls>>
-----------------------------------------------------------------------------
(* The transport.                                                          *)

Unused(i) ==
    ~ClientEnd(i) /\ ~ServerEnd(i) /\ conn[i].child \in {"none", "reaped"}
Dropped(p, i) == [conn EXCEPT ![i].holders = @ \ {p}]

Write(p, m) ==
    conn' = [conn EXCEPT ![Sock(p)].up = Append(@, m)]

\* rpc_unix_connect and rpc_exec_connect; a second connect forgets the
\* rpc_socket of the first.
Connected(p, i, new) ==
    /\ conn' = [conn EXCEPT ![i] = new]
    /\ Set(p, [proc[p] EXCEPT !.sock = {i}, !.fd = TRUE, !.pc = "auth",
                  !.pid = IF startup.transport = "exec" THEN {i} ELSE {}])
rpc_unix_connect(p, i) ==
    /\ startup.transport = "unix" /\ socket = "listening"
    /\ Connected(p, i, [NoConn EXCEPT !.opener = {p}, !.holders = {p},
                                      !.daemon = "queued"])
rpc_exec_connect(p, i) ==
    /\ startup.transport = "exec"
    /\ Connected(p, i, [NoConn EXCEPT !.opener = {p}, !.holders = {p},
                                      !.child = "auth"])

\* rpc_unix_disconnect and rpc_exec_disconnect: the descriptor is closed; the exec
\* transport then waits for the process it started.
rpc_unix_disconnect(p, new) ==
    Set(p, [new EXCEPT !.sock = {}, !.fd = FALSE, !.then = new.pc])
rpc_exec_disconnect(p, new) ==
    Set(p, [new EXCEPT !.sock = {}, !.fd = FALSE, !.then = new.pc, !.pc = "wait"])
Disconnect(p, new) ==
    /\ conn' = IF proc[p].sock # {} /\ proc[p].fd THEN Dropped(p, Sock(p)) ELSE conn
    /\ IF proc[p].pid # {} THEN rpc_exec_disconnect(p, new)
                           ELSE rpc_unix_disconnect(p, new)

\* rpc_exec_wait_or_terminate: the process has exited, or is terminated after
\* three seconds; in a process that is not its parent waitpid fails at once.
rpc_exec_wait_or_terminate(p) ==
    /\ At(p, "wait")
    /\ \E i \in proc[p].pid :
          \/ /\ conn[i].opener = {p}
             /\ conn' = [conn EXCEPT ![i].child = "reaped"]
          \/ conn[i].opener # {p} /\ UNCHANGED conn
    /\ Set(p, [proc[p] EXCEPT !.pid = {}, !.pc = proc[p].then,
                         !.then = "idle"])

\* rpc_transport_buffer: a request that cannot be sent, or that gets no answer,
\* closes the descriptor.
Sends(p, kind, step) ==
    /\ proc[p].fd /\ ServerEnd(Sock(p))
    /\ Write(p, Message(kind, 0))
    /\ Set(p, [proc[p] EXCEPT !.pc = step])
Unsent(p) == ~proc[p].fd \/ ~ServerEnd(Sock(p))
Unanswered(p) == conn[Sock(p)].down = <<>> /\ ~ServerEnd(Sock(p))
Reads(p) == conn' = [conn EXCEPT ![Sock(p)].down = Tail(@)]
Closes(p) == conn' = IF proc[p].fd THEN Dropped(p, Sock(p)) ELSE conn
-----------------------------------------------------------------------------
(* rpc_C_Initialize.                                                       *)

Returns(new) == [new EXCEPT !.pc = "idle", !.tries = 0]

\* The label done, with an error to return.
Failed(p) ==
    LET new == Returns([proc[p] EXCEPT !.forkid = {}])
    IN  IF proc[p].done THEN Disconnect(p, [new EXCEPT !.done = FALSE])
        ELSE Set(p, new) /\ UNCHANGED conn

\* The call of connect.  A daemon that is not there is no error: the module is
\* initialized, but makes no calls.
Connect(p) ==
    \/ \E i \in Conns :
          /\ Unused(i) /\ \A j \in Conns : Unused(j) => i <= j
          /\ rpc_unix_connect(p, i) \/ rpc_exec_connect(p, i)
    \/ /\ startup.transport = "unix" /\ socket # "listening"
       /\ Set(p, Returns([proc[p] EXCEPT !.forkid = {p}, !.done = FALSE]))
       /\ UNCHANGED conn

\* socket, socketpair or fork fails.
ConnectFails(p) == Failed(p)

\* Every client inside rpc_C_Initialize may have to connect once more.
Initializing == {p \in Procs : proc[p].alive /\ proc[p].pc \in {"auth", "authread"}}
Initialize(p) ==
    /\ At(p, "idle") /\ calls < MaxCalls /\ calls' = calls + 1
    /\ Cardinality({i \in Conns : Unused(i)}) >= 2 + Cardinality(Initializing)
    /\ \/ /\ proc[p].forkid = {p}
          /\ UNCHANGED <<proc, conn>>
       \/ proc[p].forkid # {p} /\ (Connect(p) \/ ConnectFails(p))

Reconnect(p) == At(p, "connect") /\ (Connect(p) \/ ConnectFails(p))

\* rpc_transport_authenticate
Offer(p) == IF proc[p].tries = 0 THEN VERSION_MAXIMUM ELSE 0
AuthFailed(p) ==
    IF proc[p].tries = 0 /\ VERSION_MAXIMUM > 0
    THEN Disconnect(p, [proc[p] EXCEPT !.tries = 1, !.pc = "connect"])
    ELSE Failed(p)
Authenticate(p) ==
    /\ At(p, "auth")
    /\ IF ServerEnd(Sock(p))
       THEN /\ Write(p, Message("version", Offer(p)))
            /\ Set(p, [proc[p] EXCEPT !.pc = "authread"])
       ELSE AuthFailed(p)
Authenticated(p) ==
    /\ At(p, "authread")
    /\ \/ /\ conn[Sock(p)].down # <<>>
          /\ Reads(p)
          /\ Set(p, [proc[p] EXCEPT !.version = Head(conn[Sock(p)].down).v,
                        !.forkid = {p}, !.done = TRUE, !.pc = "handshake"])
       \/ Unanswered(p) /\ AuthFailed(p)

Handshake(p) ==
    /\ At(p, "handshake")
    /\ Sends(p, "initialize", "shaken") \/ (Unsent(p) /\ Failed(p))
Shaken(p) ==
    /\ At(p, "shaken")
    /\ \/ /\ conn[Sock(p)].down # <<>> /\ Head(conn[Sock(p)].down).kind = "ok"
          /\ Reads(p)
          /\ Set(p, Returns(proc[p]))
       \/ /\ conn[Sock(p)].down # <<>> /\ Head(conn[Sock(p)].down).kind = "error"
          /\ Failed(p)
       \/ Unanswered(p) /\ Failed(p)
-----------------------------------------------------------------------------
(* call_prepare and call_run of any other call, and rpc_C_Finalize.        *)

call_prepareMutant(p) ==
    CASE proc[p].forkid = {} -> "not initialized"
      [] ~proc[p].done -> "removed"
      [] OTHER -> "ok"
call_prepare(p) ==
    CASE proc[p].forkid # {p} -> "not initialized"
      [] proc[p].forkid = {p} /\ ~proc[p].done -> "removed"
      [] OTHER -> "ok"

Call(p) ==
    /\ At(p, "idle") /\ calls < MaxCalls /\ calls' = calls + 1
    /\ \/ /\ call_prepare(p) # "ok"
          /\ Set(p, Returns(proc[p]))
          /\ UNCHANGED conn
       \/ /\ call_prepare(p) = "ok" /\ ~Unsent(p)
          /\ Write(p, Message("call", 0))
          /\ Set(p, [proc[p] EXCEPT !.pc = "call"])
       \/ /\ call_prepare(p) = "ok" /\ Unsent(p)
          /\ Closes(p)
          /\ Set(p, Returns([proc[p] EXCEPT !.fd = FALSE]))
Called(p) ==
    /\ At(p, "call")
    /\ \/ /\ conn[Sock(p)].down # <<>>
          /\ Reads(p)
          /\ Set(p, Returns(proc[p]))
       \/ /\ Unanswered(p)
          /\ Closes(p)
          /\ Set(p, Returns([proc[p] EXCEPT !.fd = FALSE]))

Finalized(p) == Returns([proc[p] EXCEPT !.forkid = {}, !.done = FALSE])
Finalize(p) ==
    /\ At(p, "idle") /\ proc[p].forkid = {p}
    /\ \/ ~proc[p].done /\ Set(p, Finalized(p)) /\ UNCHANGED conn
       \/ proc[p].done /\ Sends(p, "finalize", "finalize")
       \/ proc[p].done /\ Unsent(p) /\ Disconnect(p, Finalized(p))
FinalizeDone(p) ==
    /\ At(p, "finalize")
    /\ conn[Sock(p)].down # <<>> \/ Unanswered(p)
    /\ Disconnect(p, Finalized(p))
-----------------------------------------------------------------------------
\* A process forks (the new one gets its memory and its descriptors); it exits, or is
\* killed inside a call.
ForkProcess(p) ==
    /\ At(p, "idle")
    /\ \E q \in Procs :
          /\ ~proc[q].born
          /\ proc' = [proc EXCEPT ![q] = proc[p]]
    /\ conn' = [i \in Conns |->
                   [conn[i] EXCEPT !.holders = IF p \in @ THEN @ \cup {q \in Procs :
                                          proc'[q] # proc[q]} ELSE @]]
ExitProcess(p) ==
    /\ proc[p].alive
    /\ Set(p, [proc[p] EXCEPT !.alive = FALSE])
    /\ conn' = [i \in Conns |-> [conn[i] EXCEPT !.holders = @ \ {p}]]

\* The steps of a process that is inside a call ...
Continue(p) ==
    \/ Reconnect(p) \/ Authenticate(p) \/ Authenticated(p)
    \/ Handshake(p) \/ Shaken(p) \/ Called(p) \/ FinalizeDone(p)
    \/ rpc_exec_wait_or_terminate(p)
\* ... and what it may do outside of one.
Start(p) ==
    \/ Initialize(p) \/ Call(p)
    \/ (Finalize(p) \/ ForkProcess(p) \/ ExitProcess(p)) /\ UNCHANGED calls

Running(p) == Continue(p) /\ UNCHANGED <<startup, loop, calls>>
Client(p) == Running(p) \/ (Start(p) /\ UNCHANGED <<startup, loop>>)
Finished ==
    /\ daemon = "gone" \/ (daemon = "select" /\ pending = {})
    /\ \A p \in Procs : ~proc[p].alive
    /\ UNCHANGED vars

Next ==
    \/ (ServerStep \/ (Kill /\ UNCHANGED startup)) /\ UNCHANGED <<proc, calls>>
    \/ Remote
    \/ \E p \in Procs : Client(p)
    \/ Finished

\* The daemon, the remotes and the processes inside a call keep running; a process
\* starts a call, or exits, when it pleases.
Serving == ServerStep /\ UNCHANGED <<proc, calls>>
Fairness ==
    /\ WF_vars(Serving)
    /\ WF_vars(Remote)
    /\ \A p \in Procs : WF_vars(Running(p))
Spec == Init /\ [][Next]_vars /\ Fairness
-----------------------------------------------------------------------------
TypeOK ==
    /\ daemon \in {"main", "start", "socket", "block", "top", "enter", "select",
                   "fork", "leave", "gone"}
    /\ socket \in {"none", "listening", "stdout"}
    /\ pending \subseteq {"CHLD", "TERM"} /\ cfd \subseteq Conns
    /\ children_avail \in 0 .. Cardinality(Conns)
    /\ \A i \in Conns : conn[i].holders \subseteq Procs
    /\ \A p \in Procs : /\ proc[p].sock \subseteq Conns
                        /\ proc[p].version \in 0 .. VERSION_MAXIMUM

\* A process only ever writes to, and reads from, a connection that it opened
\* itself: after a fork call_prepare refuses every call until the new process has
\* connected on its own.
OwnConnection ==
    \A p \in Procs :
        proc[p].alive /\ proc[p].pc \in {"auth", "authread", "handshake", "shaken",
                                         "call", "finalize"}
        => conn[Sock(p)].opener = {p}

\* Once C_Initialize is through, the client and its remote go by the same protocol
\* version, whatever the release of the remote and however often the client had
\* to connect; it is the newest one that both know, unless the first remote ended
\* before it answered.
VersionsAgree ==
    \A p \in Procs :
        proc[p].alive /\ proc[p].forkid = {p} /\ proc[p].done /\ proc[p].fd
        => LET c == conn[Sock(p)]
           IN  c.child = "serving" => /\ c.version = proc[p].version
                                      /\ \/ c.version = IF startup.old THEN 0 ELSE VERSION_MAXIMUM
                                         \/ startup.remoteFails

\* Every C_Initialize, C_Finalize and other call returns: whatever ends the daemon
\* or the remote also ends the client's wait.  (A daemon whose fork fails keeps the
\* connection open without serving it, and that client does wait.)
InCall(p) == ~startup.forkFails /\ proc[p].alive /\ proc[p].pc # "idle"
CallsReturn ==
    \A p \in Procs : InCall(p) ~> (~proc[p].alive \/ proc[p].pc = "idle")

\* A daemon with a timeout exits once its clients are gone: no SIGCHLD is lost
\* between the look at the flag and pselect, and so no remote is counted for ever.
Idle == /\ startup.timeout /\ socket = "listening"
        /\ \A p \in Procs : ~proc[p].alive
IdleExits == Idle ~> (daemon = "gone")

\* The timeout ends the daemon only when none of its remotes is left.
SparesRemotes ==
    daemon = "select" /\ daemon' = "leave"
    => \A i \in Conns : conn[i].child \notin {"auth", "serving"}
TimeoutSpares == [][SparesRemotes]_vars
=============================================================================
