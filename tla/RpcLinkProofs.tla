--------------------------- MODULE RpcLinkProofs ----------------------------
(***************************************************************************)
(* Proofs about RpcLink: for any number of processes, connections and API   *)
(* calls, and any way in which things may be started and fail, a process    *)
(* talks over its own connection only, in the version it has agreed on with *)
(* its remote, and the daemon's timeout never cuts off a remote.            *)
(*                                                                         *)
(* The invariant LInv says of every process what its rpc_client and its     *)
(* transport have to do with the connection of its descriptor, POK, and of  *)
(* the daemon that children_avail counts the remotes.  Most steps touch one *)
(* process and one connection: OthersKeep and DaemonKeepsOf say what the    *)
(* others may see of such a step, and ClientFrame that this is enough.      *)
(***************************************************************************)
EXTENDS RpcLink, FiniteSetTheorems, TLAPS

Versions == 0 .. VERSION_MAXIMUM
MessageKinds == {"version", "initialize", "call", "finalize", "ok", "error"}
Messages == [kind : MessageKinds, v : Versions]

\* Inside rpc_transport_authenticate, inside a call over a connection in use, either
Greeting == {"auth", "authread"}
InUse == {"handshake", "shaken", "call", "finalize"}
Talking == Greeting \cup InUse

Process == [born : BOOLEAN, alive : BOOLEAN, forkid : SUBSET Procs, done : BOOLEAN,
            version : Versions, sock : SUBSET Conns, fd : BOOLEAN, pid : SUBSET Conns,
            pc : Talking \cup {"idle", "connect", "wait"}, then : {"idle", "connect"},
            tries : {0, 1}]
Ends == {"none", "queued", "open", "closed"}
ChildSteps == {"none", "auth", "serving", "zombie", "reaped"}

Connection == [opener : SUBSET Procs, holders : SUBSET Procs, daemon : Ends,
               child : ChildSteps, up : Seq(Messages), down : Seq(Messages),
               version : Versions]

\* The variables have their types.
DaemonSteps == {"main", "start", "socket", "block", "top", "enter", "select", "fork",
                "leave", "gone"}
Typed ==
    /\ proc \in [Procs -> Process]
    /\ conn \in [Conns -> Connection]
    /\ startup \in Startups
    /\ daemon \in DaemonSteps
    /\ socket \in {"none", "listening", "stdout"}
    /\ pending \subseteq {"CHLD", "TERM"}
    /\ cfd \subseteq Conns
    /\ children_avail \in Nat

-----------------------------------------------------------------------------
(* What holds of a process, whose state is x, and of the connection c of its *)
(* rpc_socket, when things were started as s says; gone: the daemon ended.   *)

Unix(s) == s.transport = "unix"
\* A remote may end, or a connection be closed, before the version was agreed on.
Cause(s) == s.old \/ s.remoteFails \/ (Unix(s) /\ s.peer # "expected")
Newest(s) == IF s.old THEN 0 ELSE VERSION_MAXIMUM
OfferOf(x) == IF x.tries = 0 THEN VERSION_MAXIMUM ELSE 0

\* ServerEnd of a connection
FarEnd(c) == c.daemon \in {"queued", "open"} \/ c.child \in {"auth", "serving"}

\* rpc_transport_authenticate failed once, and C_Initialize will connect again.
Retrying(x) == x.pc = "connect" \/ (x.pc = "wait" /\ x.then = "connect")

\* While the version is agreed on, the version byte and its answer are all that is ever
\* under way; the offer of the second attempt is 0.
Greets(x, c, s, gone) ==
    /\ x.pc = "auth" => c.up = <<>> /\ c.down = <<>> /\ c.child # "serving"
    /\ x.pc = "authread" =>
          LET m == Message("version", OfferOf(x))
          IN  \/ /\ c.child = "serving" /\ c.up = <<>> /\ c.down = <<m>>
                 /\ c.version = OfferOf(x) /\ (s.old => OfferOf(x) = 0)
              \/ c.child # "serving" /\ c.up = <<m>> /\ c.down = <<>>
    /\ ~FarEnd(c) => Cause(s) \/ gone
    /\ x.tries = 1 => Cause(s)

\* After that the client and the remote go by one version, the newest that both know
\* unless a remote failed.
Speaks(x, c, s) ==
    /\ c.child \notin {"none", "auth"}
    /\ c.version = x.version
    /\ c.version = Newest(s) \/ s.remoteFails

\* The parent, and who else shares the descriptor after a fork, does not count: only
\* the process whose forkid it is takes the connection for its own.
POK(p, x, c, s, gone) ==
    /\ x.born
    /\ x.sock # {} => \E i \in Conns : x.sock = {i}
    /\ x.fd => x.sock # {} /\ p \in c.holders
    /\ x.pc \in Talking => x.fd /\ c.opener = {p}
    /\ x.pc \in InUse => x.forkid = {p} /\ x.done
    /\ x.pc \in Greeting \/ Retrying(x) => x.forkid # {p}
    /\ x.pc = "idle" \/ (x.pc = "wait" /\ x.then = "idle") => x.tries = 0
    /\ Retrying(x) /\ x.tries = 1 => Cause(s) \/ gone
    /\ x.pc \in Greeting => Greets(x, c, s, gone)
    /\ x.forkid = {p} /\ x.done /\ x.fd => c.opener = {p} /\ Speaks(x, c, s)

DaemonGone == Unix(startup) /\ daemon = "gone"
Processes ==
    \A p \in Procs : proc[p].alive => POK(p, proc[p], conn[Sock(p)], startup, DaemonGone)
\* No process is born with the forkid of one that is not there yet.
Parents == \A p, q \in Procs : proc[p].alive /\ proc[p].forkid = {q} => proc[q].born

\* The daemon serves no connection that it holds; it counts the remotes it has not
\* reaped, and over the exec transport there is no daemon.
Server ==
    /\ \A i \in Conns : conn[i].daemon \in {"queued", "open"} => conn[i].child = "none"
    /\ \A i \in cfd : conn[i].daemon = "open"
    /\ cfd # {} => daemon = "fork"
    /\ daemon \in {"gone", "main", "start", "socket"} => socket = "none"
    /\ Unix(startup) =>
          /\ children_avail = Cardinality(Children)
          /\ startup.peer # "expected" => cfd = {} /\ \A i \in Conns : conn[i].child = "none"
          /\ \A p \in Procs : proc[p].alive => proc[p].pid = {}
    /\ ~Unix(startup) => /\ daemon = "gone" /\ children_avail = 0
                         /\ \A i \in Conns : conn[i].daemon = "none"

LInv == Typed /\ Processes /\ Parents /\ Server

-----------------------------------------------------------------------------
(* The steps of the daemon.                                                *)

\* Sock is the connection of the rpc_socket.
LEMMA SockIs ==
    ASSUME NEW p \in Procs, NEW i \in Conns, proc[p].sock = {i}
    PROVE  Sock(p) = i
BY Zenon DEF Sock

LEMMA SockIsNext ==
    ASSUME NEW p \in Procs, NEW i \in Conns, proc'[p].sock = {i}
    PROVE  Sock(p)' = i
BY Zenon DEF Sock

\* What the daemon may do to a connection: it reaps a remote, takes or refuses a
\* connection, starts a remote, or ends.
ServerMoves(i, c, d) ==
    \/ d = c
    \/ c.child = "zombie" /\ d = [c EXCEPT !.child = "reaped"]
    \/ c.daemon = "queued" /\ check_credentials /\ d = [c EXCEPT !.daemon = "open"]
    \/ c.daemon = "queued" /\ ~check_credentials /\ d = [c EXCEPT !.daemon = "closed"]
    \/ i \in cfd /\ d = [c EXCEPT !.child = "auth", !.daemon = "closed"]
    \/ daemon' = "gone" /\ c.daemon # "none" /\ d = [c EXCEPT !.daemon = "closed"]

ServerActs == ServerStep \/ (Kill /\ UNCHANGED startup)

\* The daemon does nothing else to a connection.
LEMMA ServerEffect ==
    ASSUME Typed, ServerActs
    PROVE  /\ startup' = startup
           /\ daemon # "gone"
           /\ conn' = [i \in Conns |-> conn'[i]]
           /\ \A i \in Conns : ServerMoves(i, conn[i], conn'[i])
<1> USE DEF Typed
<1>0. /\ startup' = startup
      /\ daemon # "gone"
  BY Zenon DEF ServerActs, ServerStep, Kill, main, Daemonize, create_socket,
     BlockSignals,
     Top, Enter, Timeout, Accept, Fork, Leave, Deliver, Handle
<1>1. CASE UNCHANGED conn
  BY <1>0, <1>1, Zenon DEF ServerMoves
<1>2. CASE Top
  <2>1. CASE need_children_cleanup
    BY <1>0, <1>2, <2>1, Zenon DEF Top, cleanup_children, Reaped, ServerMoves
  <2>2. CASE ~need_children_cleanup
    BY <1>0, <1>1, <1>2, <2>2, Zenon DEF Top
  <2> QED BY <2>1, <2>2, Zenon
<1>3. CASE Accept
  <2>1. CASE \E i \in Queued : check_credentials /\ conn' = [conn EXCEPT ![i].daemon = "open"]
    BY <1>0, <2>1, ZenonT(40) DEF ServerMoves, Queued
  <2>2. CASE \E i \in Queued : ~check_credentials /\ conn' = [conn EXCEPT ![i].daemon = "closed"]
    BY <1>0, <2>2, Zenon DEF ServerMoves, Queued
  <2> QED BY <1>1, <1>3, <2>1, <2>2, Zenon DEF Accept
<1>4. CASE Fork
  <2>1. CASE \E i \in cfd : conn' = [conn EXCEPT ![i].child = "auth", ![i].daemon = "closed"]
    BY <1>0, <2>1, ZenonT(40) DEF ServerMoves
  <2> QED BY <1>1, <1>4, <2>1, Zenon DEF Fork
<1>5. CASE Leave
  BY <1>0, <1>5, Zenon DEF Leave, Gone, ServerMoves
<1> QED BY <1>1, <1>2, <1>3, <1>4, <1>5, Zenon
           DEF ServerActs, ServerStep, Kill, main,
           Daemonize,
           create_socket, BlockSignals, Enter, Timeout, Deliver, Handle

\* A process does not mind what becomes of a connection that is not its own.
LEMMA OtherConnection ==
    ASSUME NEW p, NEW x, NEW c, NEW d, NEW s, NEW g, POK(p, x, c, s, g),
           x.fd => p \in d.holders,
           x.fd /\ c.opener = {p} => /\ d.opener = c.opener /\ d.up = c.up /\ d.down = c.down
                                     /\ d.version = c.version /\ d.child = c.child
                                     /\ d.daemon = c.daemon
    PROVE  POK(p, x, d, s, g)
<1>1. x.pc \in Greeting => x.fd /\ c.opener = {p} /\ Greets(x, d, s, g)
  BY Zenon DEF POK, Talking, Greets, FarEnd
<1>2. x.forkid = {p} /\ x.done /\ x.fd => d.opener = {p} /\ Speaks(x, d, s)
  BY Zenon DEF POK, Speaks
<1>3. x.pc \in Talking => x.fd /\ d.opener = {p}
  BY Zenon DEF POK
<1> QED BY <1>1, <1>2, <1>3, Zenon DEF POK

\* Nor what the daemon does: the remote starts, or ends after it was done, and the
\* daemon closes a connection it does not serve.
LEMMA EndsMove ==
    ASSUME NEW p, NEW x, NEW c, NEW d, NEW s, NEW g, NEW h, POK(p, x, c, s, g),
           d.opener = c.opener, d.holders = c.holders, d.up = c.up, d.down = c.down,
           d.version = c.version,
           d.child = "serving" <=> c.child = "serving",
           c.child \notin {"none", "auth"} => d.child \notin {"none", "auth"},
           ~FarEnd(d) => ~FarEnd(c) \/ Cause(s) \/ h, g => h
    PROVE  POK(p, x, d, s, h)
<1>1. x.pc \in Greeting => Greets(x, d, s, h)
  BY Zenon DEF POK, Greets
<1>2. x.forkid = {p} /\ x.done /\ x.fd => d.opener = {p} /\ Speaks(x, d, s)
  BY Zenon DEF POK, Speaks
<1> QED BY <1>1, <1>2, Zenon DEF POK

\* So a process stays as it should be while the daemon moves.
LEMMA DaemonKeeps ==
    ASSUME Typed, Server, ServerActs, NEW p \in Procs, NEW i \in Conns,
           POK(p, proc[p], conn[i], startup, DaemonGone),
           ServerMoves(i, conn[i], conn'[i]), daemon # "gone"
    PROVE  POK(p, proc[p], conn'[i], startup, DaemonGone')
<1> DEFINE c == conn[i]
           d == conn'[i]
<1>0. c \in Connection /\ startup' = startup /\ ~DaemonGone
  BY ServerEffect, Zenon DEF Typed, DaemonGone
<1>1. /\ d.opener = c.opener /\ d.holders = c.holders /\ d.up = c.up /\ d.down = c.down
      /\ d.version = c.version
      /\ d.child = "serving" <=> c.child = "serving"
      /\ c.child \notin {"none", "auth"} => d.child \notin {"none", "auth"}
  BY <1>0, Zenon DEF ServerMoves, Connection, Server
<1>2. ~FarEnd(d) => ~FarEnd(c) \/ Cause(startup) \/ DaemonGone'
  <2>1. CASE Unix(startup)
    BY <1>0, <2>1, Zenon DEF ServerMoves, Connection, FarEnd, Cause, Unix,
       DaemonGone, check_credentials
  <2>2. CASE ~Unix(startup)
    BY <2>2, Zenon DEF Server
  <2> QED BY <2>1, <2>2, Zenon
<1> QED BY <1>0, <1>1, <1>2, EndsMove

\* And all of them do.
LEMMA ServerProcesses ==
    ASSUME Typed, Processes, Parents, Server, ServerActs, UNCHANGED proc
    PROVE  Processes' /\ Parents'
<1>1. Parents'
  BY Zenon DEF Parents
<1>2. ASSUME NEW p \in Procs, proc[p].alive
      PROVE  POK(p, proc[p], conn'[Sock(p)], startup, DaemonGone')
  <2>1. POK(p, proc[p], conn[Sock(p)], startup, DaemonGone)
    BY <1>2, Zenon DEF Processes
  <2>2. CASE proc[p].sock = {}
    <3>1. POK(p, proc[p], conn[Sock(p)], startup, DaemonGone')
      BY <2>1, <2>2, ServerEffect, Zenon DEF POK, DaemonGone, Greets, Talking
    <3> QED BY <2>1, <2>2, <3>1, OtherConnection, Zenon DEF POK
  <2>3. CASE proc[p].sock # {}
    <3>1. PICK i \in Conns : proc[p].sock = {i}
      BY <2>1, <2>3, Zenon DEF POK
    <3> QED BY <2>1, <3>1, SockIs, ServerEffect, DaemonKeeps, Zenon
  <2> QED BY <2>2, <2>3, Zenon
<1>3. Processes'
  BY <1>2, ServerEffect, Zenon DEF Processes, Sock
<1> QED BY <1>1, <1>3, Zenon

\* The remotes the daemon started and has not reaped are finitely many.
LEMMA ChildrenFinite ==
    ASSUME ConstantsOK
    PROVE  IsFiniteSet(Children) /\ Cardinality(Children) \in Nat
BY FS_Subset, FS_CardinalityType, Zenon DEF ConstantsOK, Children

\* A finite set without a part of it
LEMMA CountWithout ==
    ASSUME NEW S, IsFiniteSet(S), NEW D, D \subseteq S
    PROVE  /\ Cardinality(D) \in Nat /\ Cardinality(S \ D) \in Nat
           /\ Cardinality(S) = Cardinality(S \ D) + Cardinality(D)
<1>1. IsFiniteSet(D) /\ IsFiniteSet(S \ D)
  BY FS_Subset, Zenon
<1>2. Cardinality(D) \in Nat /\ Cardinality(S \ D) \in Nat
  BY <1>1, FS_CardinalityType, Zenon
<1>3. Cardinality((S \ D) \cup D)
        = Cardinality(S \ D) + Cardinality(D) - Cardinality((S \ D) \cap D)
  BY <1>1, FS_Union, Zenon
<1>4. (S \ D) \cup D = S /\ (S \ D) \cap D = {}
  BY Zenon
<1>5. Cardinality(S) = Cardinality(S \ D) + Cardinality(D) - Cardinality({})
  BY <1>3, <1>4, Zenon
<1> QED BY <1>2, <1>5, FS_EmptySet

\* The types are kept by the daemon.
LEMMA ServerTyped ==
    ASSUME ConstantsOK, Typed, ServerActs, UNCHANGED proc
    PROVE  Typed'
<1>1. proc' \in [Procs -> Process] /\ startup' \in Startups
  BY ServerEffect, Zenon DEF Typed
<1>2. conn' \in [Conns -> Connection]
  <2>1. ASSUME NEW i \in Conns PROVE conn'[i] \in Connection
    <3>1. conn[i] \in Connection /\ ServerMoves(i, conn[i], conn'[i])
      BY ServerEffect, Zenon DEF Typed
    <3> QED BY <3>1, Zenon DEF ServerMoves, Connection, Ends, ChildSteps
  <2>2. conn' = [i \in Conns |-> conn'[i]]
    BY ServerEffect, Zenon
  <2> QED BY <2>1, <2>2, Zenon
<1>3. daemon' \in DaemonSteps /\ socket' \in {"none", "listening", "stdout"}
  BY Zenon
     DEF Typed, DaemonSteps, ServerActs, ServerStep, Kill, main, Daemonize,
     create_socket,
     create_unix_socket, BlockSignals, Top, Enter, Timeout, Accept, Fork, Leave, Deliver,
     Handle
<1>4. pending' \subseteq {"CHLD", "TERM"} /\ cfd' \subseteq Conns
  BY Zenon
     DEF Typed, ServerActs, ServerStep, Kill, main, Daemonize, create_socket,
     BlockSignals,
     Top, Enter, Timeout, Accept, Queued, Fork, Leave, Deliver, Handle
<1>5. children_avail' \in Nat
  <2>1. CASE Top
    <3>1. IsFiniteSet({i \in Conns : Reaped(i)})
      BY FS_Subset, Zenon DEF ConstantsOK
    <3>2. Cardinality({i \in Conns : Reaped(i)}) \in Nat
      BY <3>1, FS_CardinalityType, Zenon
    <3> QED BY <2>1, <3>2 DEF Typed, Top, cleanup_children
  <2>2. CASE Fork
    BY <2>2 DEF Typed, Fork
  <2>3. CASE ~Top /\ ~Fork
    <3>1. children_avail' = children_avail
      BY <2>3, Zenon
         DEF ServerActs, ServerStep, Kill, main, Daemonize, create_socket,
         BlockSignals, Enter, Timeout, Accept, Leave, Deliver, Handle
    <3> QED BY <3>1, Zenon DEF Typed
  <2> QED BY <2>1, <2>2, <2>3, Zenon
<1> QED BY <1>1, <1>2, <1>3, <1>4, <1>5, Zenon DEF Typed

\* The daemon's count of its children is right after every step of its loop.
LEMMA ServerCounts ==
    ASSUME ConstantsOK, Typed, Server, ServerActs, Unix(startup)
    PROVE  children_avail' = Cardinality(Children')
<1>0. IsFiniteSet(Children) /\ Cardinality(Children) \in Nat
      /\ children_avail = Cardinality(Children)
  BY ChildrenFinite, Zenon DEF Server
<1>1. CASE Top /\ need_children_cleanup
  <2> DEFINE dead == {i \in Conns : Reaped(i)}
  <2>1. conn' = [i \in Conns |-> IF i \in dead THEN [conn[i] EXCEPT !.child = "reaped"]
                                 ELSE conn[i]]
    BY <1>1, Zenon DEF Top, cleanup_children
  <2>2. dead \subseteq Children
    BY Zenon DEF Reaped, Children
  <2>3. Children' = Children \ dead
    BY <2>1, Zenon DEF Children, Reaped, Typed, Connection
  <2>4. /\ Cardinality(dead) \in Nat /\ Cardinality(Children') \in Nat
        /\ Cardinality(Children) = Cardinality(Children') + Cardinality(dead)
    BY <1>0, <2>2, <2>3, CountWithout, Zenon
  <2>5. children_avail' = IF Cardinality(dead) < children_avail
                          THEN children_avail - Cardinality(dead) ELSE 0
    BY <1>1, Zenon DEF Top, cleanup_children
  <2> HIDE DEF dead
  <2> QED BY <1>0, <2>4, <2>5
<1>2. CASE Fork /\ children_avail' # children_avail
  <2>1. PICK i \in cfd : /\ conn' = [conn EXCEPT ![i].child = "auth", ![i].daemon = "closed"]
                         /\ children_avail' = children_avail + 1
    BY <1>2, Zenon DEF Fork
  <2>2. i \in Conns /\ conn[i].child = "none"
    BY <2>1, Zenon DEF Typed, Server
  <2>3. Children' = Children \cup {i}
    BY <2>1, <2>2, Zenon DEF Children, Typed, Connection
  <2>4. i \notin Children
    BY <2>2, Zenon DEF Children
  <2> QED BY <1>0, <2>1, <2>3, <2>4, FS_AddElement, Zenon
<1>3. CASE ~(Top /\ need_children_cleanup) /\ ~(Fork /\ children_avail' # children_avail)
  <2>1. children_avail' = children_avail
    BY <1>3, Zenon
       DEF ServerActs, ServerStep, Kill, main, Daemonize, create_socket,
       BlockSignals, Top, Enter, Timeout, Accept, Fork, Leave, Deliver, Handle
  <2>2. \A i \in Conns : conn'[i].child = conn[i].child
    <3>1. CASE UNCHANGED conn
      BY <3>1, Zenon
    <3>2. CASE Accept
      <4>1. ASSUME NEW i \in Queued, NEW e, conn' = [conn EXCEPT ![i].daemon = e]
            PROVE  \A j \in Conns : conn'[j].child = conn[j].child
        BY <4>1, Zenon DEF Queued, Typed, Connection
      <4> QED BY <3>1, <3>2, <4>1, Zenon DEF Accept
    <3>3. CASE Leave
      BY <3>3, Zenon DEF Leave, Gone, Typed, Connection
    <3>4. CASE Fork
      BY <1>0, <1>3, <2>1, <3>1, <3>4 DEF Fork
    <3> QED BY <1>3, <3>1, <3>2, <3>3, <3>4, Zenon
               DEF ServerActs, ServerStep, Kill,
               main, Daemonize,
               create_socket, BlockSignals, Top, Enter, Timeout, Deliver, Handle
  <2>3. Children' = Children
    BY <2>2, Zenon DEF Children
  <2> QED BY <1>0, <2>1, <2>3, Zenon
<1> QED BY <1>1, <1>2, <1>3, Zenon

\* What holds of the daemon is kept by its steps.
LEMMA ServerServer ==
    ASSUME ConstantsOK, Typed, Server, ServerActs, UNCHANGED proc
    PROVE  Server'
<1>0. /\ startup' = startup /\ daemon # "gone" /\ Unix(startup)
      /\ \A i \in Conns : ServerMoves(i, conn[i], conn'[i]) /\ conn[i] \in Connection
  BY ServerEffect, Zenon DEF Server, Typed
<1>1. ASSUME NEW i \in Conns, conn'[i].daemon \in {"queued", "open"}
      PROVE  conn'[i].child = "none"
  <2>1. PICK c, d : c = conn[i] /\ d = conn'[i]
    BY Zenon
  <2>2. /\ ServerMoves(i, c, d) /\ c \in Connection /\ d.daemon \in {"queued", "open"}
        /\ (c.daemon \in {"queued", "open"} => c.child = "none")
    BY <1>0, <1>1, <2>1, Zenon DEF Server
  <2>3. CASE d = c
    BY <2>1, <2>2, <2>3, Zenon
  <2>4. CASE c.child = "zombie" /\ d = [c EXCEPT !.child = "reaped"]
    BY <2>2, <2>4, Zenon DEF Connection
  <2>5. CASE c.daemon = "queued" /\ d = [c EXCEPT !.daemon = "open"]
    BY <2>1, <2>2, <2>5, Zenon DEF Connection
  <2>6. CASE d.daemon = "closed"
    BY <2>2, <2>6, Zenon
  <2>7. ASSUME NEW x, d = [c EXCEPT !.child = x, !.daemon = "closed"] PROVE d.daemon = "closed"
    BY <2>2, <2>7, Zenon DEF Connection
  <2>8. ASSUME d = [c EXCEPT !.daemon = "closed"] PROVE d.daemon = "closed"
    BY <2>2, <2>8, Zenon DEF Connection
  <2> QED BY <2>2, <2>3, <2>4, <2>5, <2>6, <2>7, <2>8, Zenon DEF ServerMoves
<1>2. /\ \A i \in cfd' : conn'[i].daemon = "open"
      /\ cfd' # {} => daemon' = "fork"
  <2>1. CASE Accept
    <3>1. cfd = {}
      BY <2>1, Zenon DEF Accept, Server
    <3>2. CASE \E i \in Queued : /\ daemon' = "fork" /\ cfd' = {i}
                                 /\ conn' = [conn EXCEPT ![i].daemon = "open"]
      BY <3>2 DEF Queued, Typed, Connection
    <3> QED BY <2>1, <3>1, <3>2, Zenon DEF Accept
  <2>2. CASE Fork
    BY <2>2, Zenon DEF Fork
  <2>3. CASE ~Accept /\ ~Fork
    <3>1. UNCHANGED cfd
      BY <2>3, Zenon
         DEF ServerActs, ServerStep, Kill, main, Daemonize, create_socket,
         BlockSignals, Top, Enter, Timeout, Leave, Deliver, Handle
    <3>2. daemon = "fork" => UNCHANGED <<daemon, conn>>
      BY <2>3, Zenon
         DEF ServerActs, ServerStep, Kill, main, Daemonize, create_socket,
         BlockSignals, Top, Enter, Timeout, Leave, Deliver, Handle
    <3> QED BY <3>1, <3>2, Zenon DEF Server
  <2> QED BY <2>1, <2>2, <2>3, Zenon
<1>3. daemon' \in {"gone", "main", "start", "socket"} => socket' = "none"
  BY <1>0, Zenon
     DEF Server, Typed, DaemonSteps, ServerActs, ServerStep, Kill, main,
     Daemonize,
     create_socket, BlockSignals, Top, Enter, Timeout, Accept, Fork, Leave, Deliver, Handle
<1>4. children_avail' = Cardinality(Children')
  BY <1>0, ServerCounts, Zenon
<1>5. ASSUME startup.peer # "expected", NEW i \in Conns
      PROVE  conn'[i].child = "none"
  <2>1. conn[i].child = "none" /\ conn[i] \in Connection /\ ServerMoves(i, conn[i], conn'[i])
    BY <1>0, <1>5, Zenon DEF Server
  <2>2. i \notin cfd
    BY <1>0, <1>5, Zenon DEF Server
  <2> QED BY <2>1, <2>2, Zenon DEF ServerMoves, Connection
<1>6. ASSUME startup.peer # "expected" PROVE cfd' = {}
  BY <1>0, <1>6, Zenon
     DEF Server, check_credentials, ServerActs, ServerStep, Kill,
     main, Daemonize,
     create_socket, BlockSignals, Top, Enter, Timeout, Accept, Fork, Leave, Deliver, Handle
<1>7. \A p \in Procs : proc'[p].alive => proc'[p].pid = {}
  BY <1>0, Zenon DEF Server
<1> QED BY <1>0, <1>1, <1>2, <1>3, <1>4, <1>5, <1>6, <1>7, Zenon DEF Server

-----------------------------------------------------------------------------
(* The steps of the remotes.                                               *)

\* What a remote may do to its connection: it takes the version byte, answers a
\* message, or ends.
Accepts(c, d) ==
    LET v == Head(c.up).v
    IN  /\ c.child = "auth" /\ c.up # <<>> /\ ~OldRemote(v)
        /\ d = [c EXCEPT !.child = "serving", !.up = Tail(@), !.version = remote_version(v),
                         !.down = Append(@, Message("version", remote_version(v)))]
Replies(c, d) ==
    /\ c.child = "serving" /\ c.up # <<>>
    /\ \E kind \in {"ok", "error"} :
          d = [c EXCEPT !.child = "serving", !.up = Tail(@), !.down = Append(@, Message(kind, 0))]
Ending(c, d) ==
    /\ \/ c.child = "serving" /\ c.holders = {}
       \/ /\ c.child = "auth"
          /\ c.holders = {} \/ startup.remoteFails \/ (c.up # <<>> /\ startup.old)
    /\ d = [c EXCEPT !.child = "zombie"]
RemoteMoves(c, d) == Accepts(c, d) \/ Replies(c, d) \/ Ending(c, d)

\* It does nothing else, and to no other connection.
LEMMA RemoteEffect ==
    ASSUME Typed, Remote
    PROVE  \E i \in Conns : /\ conn' = [conn EXCEPT ![i] = conn'[i]]
                            /\ RemoteMoves(conn[i], conn'[i])
                            /\ conn'[i].child = "zombie" \/ UNCHANGED pending
                            /\ pending' \in {pending, pending \cup {"CHLD"}}
<1>1. PICK i \in Conns : ServeVersion(i) \/ ServeMessage(i) \/ RemoteFails(i)
  BY Zenon DEF Remote
<1>2. conn \in [Conns -> Connection]
  BY Zenon DEF Typed
<1>3. ASSUME Exit(i)
      PROVE  /\ conn' = [conn EXCEPT ![i] = conn'[i]]
             /\ conn'[i] = [conn[i] EXCEPT !.child = "zombie"]
             /\ conn'[i].child = "zombie"
             /\ pending' \in {pending, pending \cup {"CHLD"}}
  BY <1>2, <1>3, Zenon DEF Exit, Connection
<1>4. CASE ServeVersion(i)
  <2> DEFINE c == conn[i]
             v == Head(c.up).v
  <2>1. CASE /\ c.up # <<>> /\ ClientEnd(i) /\ ~OldRemote(v)
             /\ conn' = [conn EXCEPT
                    ![i].child = "serving", ![i].up = Tail(@),
                    ![i].version = remote_version(v),
                    ![i].down = Append(@, Message("version", remote_version(v)))]
             /\ UNCHANGED pending
    <3>1. /\ conn' = [conn EXCEPT ![i] = conn'[i]]
          /\ conn'[i] = [c EXCEPT !.child = "serving", !.up = Tail(@), !.version = remote_version(v),
                         !.down = Append(@, Message("version", remote_version(v)))]
      BY <1>2, <2>1, Zenon DEF Connection
    <3> QED BY <1>4, <2>1, <3>1, Zenon DEF ServeVersion, RemoteMoves, Accepts
  <2>2. CASE /\ c.up = <<>> => ~ClientEnd(i)
             /\ c.up # <<>> => (~ClientEnd(i) \/ OldRemote(v))
             /\ Exit(i)
    BY <1>3, <1>4, <2>2, Zenon
       DEF ServeVersion, ClientEnd, OldRemote, RemoteMoves,
       Ending
  <2> QED BY <1>4, <2>1, <2>2, Zenon DEF ServeVersion
<1>5. CASE ServeMessage(i)
  <2>1. CASE ~ClientEnd(i) /\ Exit(i)
    BY <1>3, <1>5, <2>1, Zenon DEF ServeMessage, ClientEnd, RemoteMoves, Ending
  <2>2. CASE /\ conn[i].up # <<>>
             /\ \E kind \in {"ok", "error"} : Answer(i, "serving", Message(kind, 0))
    <3>1. PICK kind \in {"ok", "error"} : Answer(i, "serving", Message(kind, 0))
      BY <2>2, Zenon
    <3>2. /\ conn' = [conn EXCEPT ![i] = conn'[i]]
          /\ conn'[i] = [conn[i] EXCEPT !.child = "serving", !.up = Tail(@),
                                        !.down = Append(@, Message(kind, 0))]
      BY <1>2, <3>1, Zenon DEF Answer, Connection
    <3> QED BY <1>5, <2>2, <3>1, <3>2, Zenon DEF ServeMessage, Answer,
               RemoteMoves, Replies
  <2> QED BY <1>5, <2>1, <2>2, Zenon DEF ServeMessage
<1>6. CASE RemoteFails(i)
  BY <1>3, <1>6, Zenon DEF RemoteFails, RemoteMoves, Ending
<1> QED BY <1>1, <1>4, <1>5, <1>6, Zenon

\* A client that greets gets the answer it waits for, or the remote ended for a
\* cause; one that is through keeps its version.
LEMMA RemoteKeeps ==
    ASSUME ConstantsOK, NEW p, NEW x, NEW c \in Connection, NEW d, NEW g,
           POK(p, x, c, startup, g), RemoteMoves(c, d)
    PROVE  POK(p, x, d, startup, g)
<1>0. d.opener = c.opener /\ d.holders = c.holders /\ d.daemon = c.daemon
  BY Zenon DEF RemoteMoves, Accepts, Replies, Ending, Connection
<1>1. CASE ~(x.fd /\ c.opener = {p})
  BY <1>0, <1>1, OtherConnection, Zenon DEF POK
<1>2. CASE x.fd /\ c.opener = {p}
  <2>0. c.holders # {}
    BY <1>2, Zenon DEF POK
  <2>1. CASE Accepts(c, d)
    <3>1. ASSUME x.pc \in Greeting PROVE Greets(x, d, startup, g)
      <4> DEFINE m == Message("version", OfferOf(x))
      <4>1. x.pc = "authread" /\ c.up = <<m>> /\ c.down = <<>>
        BY <2>1, <3>1, Zenon DEF Accepts, POK, Greets, Greeting
      <4>2. Head(c.up) = m /\ Tail(c.up) = <<>> /\ Append(c.down, m) = <<m>>
        BY <4>1
      <4>3. m.v = OfferOf(x) /\ remote_version(OfferOf(x)) = OfferOf(x)
        BY DEF Message, remote_version, Smaller, OfferOf, ConstantsOK
      <4>4. /\ d.child = "serving" /\ d.up = <<>> /\ d.down = <<m>>
            /\ d.version = OfferOf(x) /\ (startup.old => OfferOf(x) = 0)
        BY <2>1, <4>2, <4>3, Zenon DEF Accepts, Connection, OldRemote
      <4>5. FarEnd(d)
        BY <4>4, Zenon DEF FarEnd
      <4> QED BY <3>1, <4>1, <4>4, <4>5, Zenon DEF POK, Greets
    <3>2. ~(x.forkid = {p} /\ x.done)
      BY <1>2, <2>1, Zenon DEF Accepts, POK, Speaks
    <3> QED BY <1>0, <1>2, <3>1, <3>2, Zenon DEF POK
  <2>2. CASE Replies(c, d)
    <3>1. x.pc \notin Greeting
      BY <2>2, Zenon DEF Replies, POK, Greets, Greeting
    <3>2. d.child = c.child /\ d.version = c.version
      BY <2>2, Zenon DEF Replies, Connection
    <3>3. Speaks(x, c, startup) => Speaks(x, d, startup)
      BY <3>2, Zenon DEF Speaks
    <3> QED BY <1>0, <1>2, <3>1, <3>3, Zenon DEF POK
  <2>3. CASE Ending(c, d)
    <3>1. /\ c.child = "auth" /\ Cause(startup) /\ d.child = "zombie"
          /\ d.up = c.up /\ d.down = c.down /\ d.version = c.version
      BY <2>0, <2>3, Zenon DEF Ending, Connection, Cause
    <3>2. x.pc \in Greeting => Greets(x, d, startup, g)
      BY <3>1, Zenon DEF POK, Greets
    <3>3. ~(x.forkid = {p} /\ x.done)
      BY <1>2, <3>1, Zenon DEF POK, Speaks
    <3> QED BY <1>0, <1>2, <3>2, <3>3, Zenon DEF POK
  <2> QED BY <2>1, <2>2, <2>3, Zenon DEF RemoteMoves
<1> QED BY <1>1, <1>2, Zenon

\* A connection keeps its type when its remote moves.
LEMMA RemoteTypes ==
    ASSUME ConstantsOK, NEW c \in Connection, NEW d, RemoteMoves(c, d)
    PROVE  /\ d \in Connection /\ d.daemon = c.daemon
           /\ c.child \in {"auth", "serving"} /\ d.child \in {"serving", "zombie"}
<1>1. /\ c.up # <<>> => Head(c.up) \in Messages /\ Tail(c.up) \in Seq(Messages)
      /\ 0 \in Versions
  BY DEF Connection, Versions, ConstantsOK
<1>2. ASSUME NEW kind \in MessageKinds, NEW v \in Versions
      PROVE  Append(c.down, Message(kind, v)) \in Seq(Messages)
  BY DEF Connection, Message, Messages
<1>3. ASSUME NEW v \in Versions PROVE remote_version(v) \in Versions
  BY DEF remote_version, Smaller, Versions, ConstantsOK
<1>4. CASE Accepts(c, d)
  <2>1. Head(c.up).v \in Versions /\ Tail(c.up) \in Seq(Messages)
    BY <1>1, <1>4, Zenon DEF Accepts, Messages
  <2>2. remote_version(Head(c.up).v) \in Versions
    BY <1>3, <2>1, Zenon
  <2>3. Append(c.down, Message("version", remote_version(Head(c.up).v))) \in Seq(Messages)
    BY <1>2, <2>2, Zenon DEF MessageKinds
  <2> QED BY <1>4, <2>1, <2>2, <2>3, Zenon DEF Accepts, Connection, ChildSteps
<1>5. CASE Replies(c, d)
  <2>1. PICK kind \in {"ok", "error"} :
           d = [c EXCEPT !.child = "serving", !.up = Tail(@), !.down = Append(@, Message(kind, 0))]
    BY <1>5, Zenon DEF Replies
  <2>2. Tail(c.up) \in Seq(Messages) /\ Append(c.down, Message(kind, 0)) \in Seq(Messages)
    BY <1>1, <1>2, <1>5, Zenon DEF Replies, MessageKinds
  <2> QED BY <1>5, <2>1, <2>2, Zenon DEF Replies, Connection, ChildSteps
<1>6. CASE Ending(c, d)
  BY <1>6, Zenon DEF Ending, Connection, ChildSteps
<1> QED BY <1>4, <1>5, <1>6, Zenon DEF RemoteMoves

\* A process whose transport has no rpc_socket depends on no connection.
LEMMA NoSocket ==
    ASSUME NEW p, NEW x, NEW c, NEW d, NEW s, NEW g, POK(p, x, c, s, g), x.sock = {}
    PROVE  POK(p, x, d, s, g)
<1>1. ~x.fd
  BY Zenon DEF POK
<1> QED BY <1>1, OtherConnection, Zenon

\* A step of a remote keeps the invariant.
LEMMA RemoteStep ==
    ASSUME ConstantsOK, LInv, Remote
    PROVE  LInv'
<1>1. /\ UNCHANGED <<daemon, socket, children_avail, cfd, startup, proc>>
      /\ DaemonGone' = DaemonGone
  BY Zenon DEF Remote, DaemonGone, Unix
<1>2. PICK i \in Conns : /\ conn' = [conn EXCEPT ![i] = conn'[i]]
                         /\ RemoteMoves(conn[i], conn'[i])
                         /\ pending' \in {pending, pending \cup {"CHLD"}}
  BY RemoteEffect, Zenon DEF LInv
<1>3. conn \in [Conns -> Connection] /\ \A j \in Conns : j # i => conn'[j] = conn[j]
  BY <1>2, Zenon DEF LInv, Typed
<1>4. /\ conn'[i] \in Connection /\ conn'[i].daemon = conn[i].daemon
      /\ conn[i].child \in {"auth", "serving"} /\ conn'[i].child \in {"serving", "zombie"}
  BY <1>2, <1>3, RemoteTypes, Zenon
<1>5. Typed'
  <2>1. conn' \in [Conns -> Connection]
    BY <1>2, <1>3, <1>4, Zenon
  <2> QED BY <1>1, <1>2, <2>1, Zenon DEF LInv, Typed
<1>6. Processes'
  <2>1. ASSUME NEW p \in Procs, proc[p].alive
        PROVE  POK(p, proc[p], conn'[Sock(p)], startup, DaemonGone)
    <3>1. POK(p, proc[p], conn[Sock(p)], startup, DaemonGone)
      BY <2>1, Zenon DEF LInv, Processes
    <3>2. CASE proc[p].sock = {}
      BY <3>1, <3>2, NoSocket, Zenon
    <3>3. CASE proc[p].sock # {}
      <4>1. PICK j \in Conns : proc[p].sock = {j} /\ Sock(p) = j
        BY <3>1, <3>3, SockIs, Zenon DEF POK
      <4>2. CASE j = i
        BY <1>2, <1>3, <3>1, <4>1, <4>2, RemoteKeeps, Zenon
      <4> QED BY <1>3, <3>1, <4>1, <4>2, Zenon
    <3> QED BY <3>2, <3>3, Zenon
  <2> QED BY <1>1, <2>1, Zenon DEF Processes, Sock
<1>7. Parents'
  BY <1>1, Zenon DEF LInv, Parents
<1>8. Server'
  <2>1. Children' = Children
    BY <1>3, <1>4, Zenon DEF Children
  <2>2. conn[i].daemon \notin {"queued", "open"} /\ i \notin cfd
    BY <1>4, Zenon DEF LInv, Server
  <2>3. Unix(startup) => startup.peer = "expected"
    BY <1>4, Zenon DEF LInv, Server
  <2>4. \A j \in Conns : conn'[j].daemon \in {"queued", "open"} => conn'[j].child = "none"
    BY <1>3, <1>4, <2>2, Zenon DEF LInv, Server
  <2>5. \A j \in cfd : conn'[j].daemon = "open"
    BY <1>3, <2>2, Zenon DEF LInv, Server, Typed
  <2>6. ~Unix(startup) => \A j \in Conns : conn'[j].daemon = "none"
    BY <1>3, <1>4, Zenon DEF LInv, Server
  <2> QED BY <1>1, <2>1, <2>3, <2>4, <2>5, <2>6, Zenon DEF LInv, Server
<1> QED BY <1>5, <1>6, <1>7, <1>8, Zenon DEF LInv

-----------------------------------------------------------------------------
(* What the others may see of a process's step.                            *)

\* What a step of process p may do to a connection, as the other processes ...
OthersKeep(p, c, d) ==
    \/ d = c
    \/ c.opener = {p} /\ \A r \in c.holders : r = p \/ r \in d.holders
    \/ c.holders = {}
    \/ d = [c EXCEPT !.holders = @ \ {p}]
\* ... and as the daemon see it.
DaemonKeepsOf(c, d) ==
    \/ d.daemon = c.daemon /\ d.child = c.child
    \/ ~Unix(startup) /\ d.daemon = "none"
    \/ /\ Unix(startup)
       /\ c.daemon \notin {"queued", "open"} /\ c.child \in {"none", "reaped"}
       /\ d.daemon = "queued" /\ d.child = "none"

\* The other processes stay as they should be ...
LEMMA OthersPOK ==
    ASSUME NEW p, NEW r, r # p, NEW x, NEW c \in Connection, NEW d, NEW s, NEW g, POK(r, x, c, s, g),
           OthersKeep(p, c, d)
    PROVE  POK(r, x, d, s, g)
<1>1. CASE d = c
  BY <1>1, Zenon
<1>2. CASE c.opener = {p} /\ \A q \in c.holders : q = p \/ q \in d.holders
  <2>1. x.fd => r \in d.holders
    BY <1>2, Zenon DEF POK
  <2>2. c.opener # {r}
    BY <1>2, Zenon
  <2> QED BY <2>1, <2>2, OtherConnection, Zenon
<1>3. CASE c.holders = {}
  <2>1. ~x.fd
    BY <1>3, Zenon DEF POK
  <2> QED BY <2>1, OtherConnection, Zenon
<1>4. CASE d = [c EXCEPT !.holders = @ \ {p}]
  <2>1. x.fd => r \in d.holders
    BY <1>4, Zenon DEF POK, Connection
  <2>2. /\ d.opener = c.opener /\ d.up = c.up /\ d.down = c.down
        /\ d.version = c.version /\ d.child = c.child /\ d.daemon = c.daemon
    BY <1>4, Zenon DEF Connection
  <2> QED BY <2>1, <2>2, OtherConnection, Zenon
<1> QED BY <1>1, <1>2, <1>3, <1>4, Zenon DEF OthersKeep

\* ... and so does the daemon.
LEMMA DaemonFrame ==
    ASSUME ConstantsOK, Typed, Server, UNCHANGED <<startup, loop>>,
           conn' \in [Conns -> Connection],
           \A j \in Conns : DaemonKeepsOf(conn[j], conn'[j]),
           Unix(startup) => \A p \in Procs : proc'[p].alive => proc'[p].pid = {}
    PROVE  Server'
<1>1. /\ daemon' = daemon /\ socket' = socket /\ cfd' = cfd
      /\ children_avail' = children_avail /\ startup' = startup
  BY Zenon DEF loop
<1>2. CASE Unix(startup)
  <2>1. Children' = Children
    BY <1>2, Zenon DEF Children, DaemonKeepsOf
  <2>2. \A j \in Conns : conn'[j].daemon \in {"queued", "open"} => conn'[j].child = "none"
    BY <1>2, Zenon DEF Server, DaemonKeepsOf
  <2>3. \A j \in cfd : conn'[j].daemon = "open"
    BY <1>2, Zenon DEF Server, Typed, DaemonKeepsOf
  <2>4. startup.peer # "expected" => cfd = {} /\ \A j \in Conns : conn'[j].child = "none"
    BY <1>2, Zenon DEF Server, DaemonKeepsOf
  <2> QED BY <1>1, <1>2, <2>1, <2>2, <2>3, <2>4, Zenon DEF Server
<1>3. CASE ~Unix(startup)
  <2>1. cfd = {}
    BY <1>3, Zenon DEF Server
  <2>2. \A j \in Conns : conn'[j].daemon = "none"
    BY <1>3, Zenon DEF Server, DaemonKeepsOf
  <2> QED BY <1>1, <1>3, <2>1, <2>2, Zenon DEF Server
<1> QED BY <1>2, <1>3, Zenon

\* A step of one process keeps the invariant when the process itself ends up as it
\* should and the others, and the daemon, find their connections as they were.
LEMMA ClientFrame ==
    ASSUME ConstantsOK, LInv, NEW p \in Procs, proc[p].alive, NEW y \in Process,
           Set(p, y), UNCHANGED <<startup, loop>>,
           conn' \in [Conns -> Connection],
           \A j \in Conns : OthersKeep(p, conn[j], conn'[j]) /\ DaemonKeepsOf(conn[j], conn'[j]),
           y.alive => POK(p, y, conn'[Sock(p)'], startup, DaemonGone),
           y.born, y.forkid \in {{}, {p}, proc[p].forkid},
           Unix(startup) => y.pid = {}
    PROVE  LInv'
<1>0. proc \in [Procs -> Process] /\ conn \in [Conns -> Connection]
  BY Zenon DEF LInv, Typed
<1>1. /\ proc' \in [Procs -> Process] /\ proc'[p] = y
      /\ \A r \in Procs : r # p => proc'[r] = proc[r]
  BY <1>0, Zenon DEF Set
<1>2. Typed'
  BY <1>1, Zenon DEF LInv, Typed, loop
<1>3. DaemonGone' = DaemonGone
  BY Zenon DEF DaemonGone, loop
<1>4. Processes'
  <2>1. ASSUME NEW r \in Procs, r # p, proc[r].alive
        PROVE  POK(r, proc[r], conn'[Sock(r)], startup, DaemonGone)
    <3>1. POK(r, proc[r], conn[Sock(r)], startup, DaemonGone)
      BY <2>1, Zenon DEF LInv, Processes
    <3>2. CASE proc[r].sock = {}
      BY <3>1, <3>2, NoSocket, Zenon
    <3>3. CASE proc[r].sock # {}
      <4>1. PICK j \in Conns : proc[r].sock = {j} /\ Sock(r) = j
        BY <3>1, <3>3, SockIs, ZenonT(40) DEF POK
      <4> QED BY <1>0, <2>1, <3>1, <4>1, OthersPOK, Zenon
    <3> QED BY <3>2, <3>3, Zenon
  <2>2. ASSUME NEW r \in Procs, r # p PROVE Sock(r)' = Sock(r)
    BY <1>1, <2>2, Zenon DEF Sock
  <2>3. ASSUME NEW r \in Procs, proc'[r].alive
        PROVE  POK(r, proc'[r], conn'[Sock(r)'], startup', DaemonGone')
    <3>1. CASE r = p
      BY <1>1, <1>3, <2>3, <3>1, Zenon
    <3>2. CASE r # p
      BY <1>1, <1>3, <2>1, <2>2, <2>3, <3>2, Zenon
    <3> QED BY <3>1, <3>2, Zenon
  <2> QED BY <2>3, Zenon DEF Processes
<1>5. Parents'
  <2>1. \A r \in Procs : proc'[r].born <=> proc[r].born
    <3>1. proc[p].born
      BY ZenonT(40) DEF LInv, Processes, POK
    <3> QED BY <1>1, <3>1, Zenon
  <2>2. ASSUME NEW r \in Procs, NEW q \in Procs, proc'[r].alive, proc'[r].forkid = {q}
        PROVE  proc[q].born
    BY <1>1, <2>1, <2>2, ZenonT(40) DEF LInv, Parents
  <2> QED BY <2>1, <2>2, Zenon DEF Parents
<1>6. Server'
  <2>1. Unix(startup) => \A r \in Procs : proc'[r].alive => proc'[r].pid = {}
    BY <1>1, Zenon DEF LInv, Server
  <2> QED BY <2>1, DaemonFrame, ZenonT(40) DEF LInv
<1> QED BY <1>2, <1>4, <1>5, <1>6, Zenon DEF LInv

-----------------------------------------------------------------------------
(* What a process may become.                                              *)

\* A call returns; it may have closed the descriptor, or ended the initialization.
LEMMA QuietPOK ==
    ASSUME NEW p, NEW x, NEW y, NEW c, NEW d, NEW s, NEW g, POK(p, x, c, s, g),
           y.born, y.pc = "idle", y.tries = 0, y.sock = x.sock,
           y.fd => x.fd /\ p \in d.holders,
           y.forkid = {p} /\ y.done /\ y.fd =>
              /\ x.forkid = {p} /\ x.done /\ y.version = x.version
              /\ d.opener = c.opener /\ d.child = c.child /\ d.version = c.version
    PROVE  POK(p, y, d, s, g)
<1>1. y.pc \notin Talking /\ y.pc \notin InUse /\ y.pc \notin Greeting /\ ~Retrying(y)
  BY Zenon DEF Talking, InUse, Greeting, Retrying
<1>2. y.forkid = {p} /\ y.done /\ y.fd => d.opener = {p} /\ Speaks(y, d, s)
  BY Zenon DEF POK, Speaks
<1> QED BY <1>1, <1>2, Zenon DEF POK

\* The transport is disconnected.
LEMMA OffPOK ==
    ASSUME NEW p, NEW y, NEW d, NEW s, NEW g,
           y.born, y.sock = {}, ~y.fd,
           y.pc \in {"idle", "connect"} \/ (y.pc = "wait" /\ y.then \in {"idle", "connect"}),
           Retrying(y) => y.forkid # {p} /\ (Cause(s) \/ g),
           ~Retrying(y) => y.tries = 0
    PROVE  POK(p, y, d, s, g)
<1>1. y.pc \notin Talking /\ y.pc \notin InUse /\ y.pc \notin Greeting
  BY Zenon DEF Talking, InUse, Greeting
<1> QED BY <1>1, Zenon DEF POK, Retrying

\* A request is sent over a connection that is in use.
LEMMA UsePOK ==
    ASSUME NEW p, NEW x, NEW y, NEW c, NEW d, NEW s, NEW g, POK(p, x, c, s, g),
           y.born, y.pc \in InUse, y.sock = x.sock, y.fd = x.fd, y.forkid = x.forkid,
           y.done = x.done, y.version = x.version, x.fd, x.forkid = {p}, x.done,
           d.opener = c.opener, d.holders = c.holders, d.child = c.child,
           d.version = c.version
    PROVE  POK(p, y, d, s, g)
<1>1. y.pc \notin Greeting /\ ~Retrying(y) /\ y.pc \notin {"idle", "wait"}
  BY Zenon DEF InUse, Greeting, Retrying
<1>2. c.opener = {p} /\ Speaks(y, d, s)
  BY Zenon DEF POK, Speaks
<1> QED BY <1>1, <1>2, Zenon DEF POK

-----------------------------------------------------------------------------
(* What a process may do to the connections.                               *)

\* All connections at once
KeepsConn(p) ==
    /\ conn' \in [Conns -> Connection]
    /\ \A j \in Conns : OthersKeep(p, conn[j], conn'[j]) /\ DaemonKeepsOf(conn[j], conn'[j])

\* None changes, or one does.
LEMMA SameConn ==
    ASSUME Typed, NEW p, UNCHANGED conn
    PROVE  KeepsConn(p)
BY Zenon DEF Typed, KeepsConn, OthersKeep, DaemonKeepsOf

\* The connection that changes is as the others may see it.
LEMMA OneConn ==
    ASSUME Typed, NEW p, NEW i \in Conns, NEW d \in Connection, conn' = [conn EXCEPT ![i] = d],
           OthersKeep(p, conn[i], d), DaemonKeepsOf(conn[i], d)
    PROVE  KeepsConn(p) /\ conn'[i] = d
BY Zenon DEF Typed, KeepsConn, OthersKeep, DaemonKeepsOf

\* The process closes its descriptor.
LEMMA DroppedConn ==
    ASSUME Typed, NEW p \in Procs, NEW i \in Conns, conn' = Dropped(p, i)
    PROVE  /\ KeepsConn(p)
           /\ conn'[i].opener = conn[i].opener /\ conn'[i].child = conn[i].child
           /\ conn'[i].version = conn[i].version
<1> DEFINE d == [conn[i] EXCEPT !.holders = @ \ {p}]
<1>1. conn[i] \in Connection /\ d \in Connection
  BY Zenon DEF Typed, Connection
<1>2. conn' = [conn EXCEPT ![i] = d]
  BY Zenon DEF Dropped, Typed
<1>3. OthersKeep(p, conn[i], d) /\ DaemonKeepsOf(conn[i], d)
  BY <1>1, Zenon DEF OthersKeep, DaemonKeepsOf, Connection
<1>4. KeepsConn(p) /\ conn'[i] = d
  BY <1>1, <1>2, <1>3, OneConn, Zenon
<1> QED BY <1>1, <1>4, Zenon DEF Connection

\* It writes a message, or reads one.
LEMMA WrittenConn ==
    ASSUME Typed, NEW p \in Procs, NEW i \in Conns, conn[i].opener = {p},
           NEW m \in Messages, conn' = [conn EXCEPT ![i].up = Append(@, m)]
    PROVE  /\ KeepsConn(p)
           /\ conn'[i] = [conn[i] EXCEPT !.up = Append(conn[i].up, m)]
<1> DEFINE d == [conn[i] EXCEPT !.up = Append(conn[i].up, m)]
<1>1. conn[i] \in Connection
  BY Zenon DEF Typed
<1>2. Append(conn[i].up, m) \in Seq(Messages)
  BY <1>1 DEF Connection
<1>3. d \in Connection
  BY <1>1, <1>2, Zenon DEF Connection
<1>4. conn' = [conn EXCEPT ![i] = d]
  BY Zenon DEF Typed
<1>5. OthersKeep(p, conn[i], d) /\ DaemonKeepsOf(conn[i], d)
  BY <1>1, Zenon DEF OthersKeep, DaemonKeepsOf, Connection
<1>6. KeepsConn(p) /\ conn'[i] = d
  <2> HIDE DEF d
  <2> QED BY <1>3, <1>4, <1>5, OneConn, Zenon
<1> QED BY <1>6, Zenon

\* Reading takes the first message.
LEMMA ReadConn ==
    ASSUME Typed, NEW p \in Procs, NEW i \in Conns, conn[i].opener = {p},
           conn[i].down # <<>>, conn' = [conn EXCEPT ![i].down = Tail(@)]
    PROVE  /\ KeepsConn(p)
           /\ conn'[i] = [conn[i] EXCEPT !.down = Tail(conn[i].down)]
<1> DEFINE d == [conn[i] EXCEPT !.down = Tail(conn[i].down)]
<1>1. conn[i] \in Connection
  BY Zenon DEF Typed
<1>2. Tail(conn[i].down) \in Seq(Messages)
  BY <1>1 DEF Connection
<1>3. d \in Connection
  BY <1>1, <1>2, Zenon DEF Connection
<1>4. conn' = [conn EXCEPT ![i] = d]
  BY Zenon DEF Typed
<1>5. OthersKeep(p, conn[i], d) /\ DaemonKeepsOf(conn[i], d)
  BY <1>1, Zenon DEF OthersKeep, DaemonKeepsOf, Connection
<1>6. KeepsConn(p) /\ conn'[i] = d
  <2> HIDE DEF d
  <2> QED BY <1>3, <1>4, <1>5, OneConn, Zenon
<1> QED BY <1>6, Zenon

\* It reaps the remote that it started itself.
LEMMA ReapedConn ==
    ASSUME Typed, Server, ~Unix(startup), NEW p \in Procs, NEW i \in Conns,
           conn[i].opener = {p}, conn' = [conn EXCEPT ![i].child = "reaped"]
    PROVE  /\ KeepsConn(p)
           /\ conn'[i] = [conn[i] EXCEPT !.child = "reaped"]
<1> DEFINE d == [conn[i] EXCEPT !.child = "reaped"]
<1>1. conn[i] \in Connection
  BY Zenon DEF Typed
<1>2. d \in Connection
  BY <1>1, Zenon DEF Connection, ChildSteps
<1>3. conn' = [conn EXCEPT ![i] = d]
  BY Zenon DEF Typed
<1>4. OthersKeep(p, conn[i], d) /\ DaemonKeepsOf(conn[i], d)
  BY <1>1, Zenon DEF OthersKeep, DaemonKeepsOf, Connection, Server
<1>6. KeepsConn(p) /\ conn'[i] = d
  <2> HIDE DEF d
  <2> QED BY <1>2, <1>3, <1>4, OneConn, Zenon
<1> QED BY <1>6, Zenon

\* It opens a connection.
LEMMA NewConn ==
    ASSUME ConstantsOK, Typed, NEW p \in Procs, NEW i \in Conns, Unused(i),
           NEW d, conn' = [conn EXCEPT ![i] = d],
           \/ Unix(startup) /\ d = [NoConn EXCEPT !.opener = {p}, !.holders = {p}, !.daemon = "queued"]
           \/ ~Unix(startup) /\ d = [NoConn EXCEPT !.opener = {p}, !.holders = {p}, !.child = "auth"]
    PROVE  KeepsConn(p) /\ conn'[i] = d
<1>0. <<>> \in Seq(Messages) /\ 0 \in Versions /\ {p} \subseteq Procs
  BY DEF Versions, ConstantsOK
<1>1. d \in Connection
  <2>1. CASE d = [NoConn EXCEPT !.opener = {p}, !.holders = {p}, !.daemon = "queued"]
    BY <1>0, <2>1, Zenon DEF NoConn, Connection, Ends, ChildSteps
  <2>2. CASE d = [NoConn EXCEPT !.opener = {p}, !.holders = {p}, !.child = "auth"]
    BY <1>0, <2>2, Zenon DEF NoConn, Connection, Ends, ChildSteps
  <2> QED BY <2>1, <2>2, Zenon
<1>2. OthersKeep(p, conn[i], d)
  BY Zenon DEF Unused, ClientEnd, OthersKeep
<1>3. DaemonKeepsOf(conn[i], d)
  BY Zenon DEF Unused, ServerEnd, DaemonKeepsOf, NoConn
<1> QED BY <1>1, <1>2, <1>3, OneConn, Zenon

-----------------------------------------------------------------------------
(* The steps of a process.                                                 *)

\* What is known of a process that runs
LEMMA Here ==
    ASSUME LInv, NEW p \in Procs, proc[p].alive
    PROVE  /\ proc[p] \in Process /\ proc[p].born
           /\ POK(p, proc[p], conn[Sock(p)], startup, DaemonGone)
           /\ proc[p].sock # {} =>
                 Sock(p) \in Conns /\ proc[p].sock = {Sock(p)} /\ conn[Sock(p)] \in Connection
           /\ Unix(startup) => proc[p].pid = {}
<1>1. proc[p] \in Process /\ POK(p, proc[p], conn[Sock(p)], startup, DaemonGone)
  BY Zenon DEF LInv, Typed, Processes
<1>2. ASSUME proc[p].sock # {}
      PROVE  Sock(p) \in Conns /\ proc[p].sock = {Sock(p)} /\ conn[Sock(p)] \in Connection
  BY <1>1, <1>2, SockIs, ZenonT(40) DEF POK, LInv, Typed
<1> QED BY <1>1, <1>2, Zenon DEF POK, LInv, Server

\* A process closes its transport.
LEMMA DisconnectStep ==
    ASSUME ConstantsOK, LInv, NEW p \in Procs, proc[p].alive, UNCHANGED <<startup, loop>>,
           NEW new \in Process, new.alive, new.born, new.pid = proc[p].pid,
           new.pc \in {"idle", "connect"}, new.forkid \in {{}, proc[p].forkid},
           new.pc = "connect" => new.forkid # {p} /\ (Cause(startup) \/ DaemonGone),
           new.pc = "idle" => new.tries = 0,
           Disconnect(p, new)
    PROVE  LInv'
<1>1. PICK y \in Process :
         /\ Set(p, y) /\ y.alive /\ y.born /\ y.sock = {} /\ ~y.fd /\ y.pid = proc[p].pid
         /\ y.forkid = new.forkid /\ y.tries = new.tries
         /\ y.pc = new.pc \/ (y.pc = "wait" /\ y.then = new.pc)
  <2>1. CASE proc[p].pid # {}
    <3> DEFINE y == [new EXCEPT !.sock = {}, !.fd = FALSE, !.then = new.pc, !.pc = "wait"]
    <3>1. y \in Process
      BY Zenon DEF Process
    <3>2. Set(p, y)
      BY <2>1, Zenon DEF Disconnect, rpc_exec_disconnect
    <3> QED BY <3>1, <3>2, Zenon DEF Process
  <2>2. CASE proc[p].pid = {}
    <3> DEFINE y == [new EXCEPT !.sock = {}, !.fd = FALSE, !.then = new.pc]
    <3>1. y \in Process
      BY Zenon DEF Process
    <3>2. Set(p, y)
      BY <2>2, Zenon DEF Disconnect, rpc_unix_disconnect
    <3> QED BY <3>1, <3>2, Zenon DEF Process
  <2> QED BY <2>1, <2>2, Zenon
<1>2. KeepsConn(p)
  <2>1. CASE proc[p].sock # {} /\ proc[p].fd
    BY <2>1, Here, DroppedConn, Zenon DEF Disconnect, LInv
  <2>2. CASE ~(proc[p].sock # {} /\ proc[p].fd)
    BY <2>2, SameConn, Zenon DEF Disconnect, LInv
  <2> QED BY <2>1, <2>2, Zenon
<1>3. POK(p, y, conn'[Sock(p)'], startup, DaemonGone)
  <2>1. Retrying(y) <=> new.pc = "connect"
    BY <1>1, Zenon DEF Retrying
  <2>2. y.pc \in {"idle", "connect"} \/ (y.pc = "wait" /\ y.then \in {"idle", "connect"})
    BY <1>1, Zenon
  <2> QED BY <1>1, <2>1, <2>2, OffPOK, Zenon
<1>4. Unix(startup) => y.pid = {}
  BY <1>1, Here, Zenon
<1> QED BY <1>1, <1>2, <1>3, <1>4, ClientFrame, Zenon DEF KeepsConn

\* A step that changes the process only, and leaves it outside of any call.
LEMMA QuietStep ==
    ASSUME ConstantsOK, LInv, NEW p \in Procs, proc[p].alive, UNCHANGED <<startup, loop>>,
           NEW y \in Process, Set(p, y), y.alive, y.born, y.pid = proc[p].pid,
           y.pc = "idle", y.tries = 0, y.sock = proc[p].sock,
           y.fd => proc[p].fd /\ p \in conn'[Sock(p)].holders,
           y.forkid \in {{}, {p}, proc[p].forkid},
           y.forkid = {p} /\ y.done /\ y.fd =>
              proc[p].forkid = {p} /\ proc[p].done /\ y.version = proc[p].version,
           KeepsConn(p),
           proc[p].sock # {} => /\ conn'[Sock(p)].opener = conn[Sock(p)].opener
                                /\ conn'[Sock(p)].child = conn[Sock(p)].child
                                /\ conn'[Sock(p)].version = conn[Sock(p)].version
    PROVE  LInv'
<1>1. proc'[p] = y
  BY Zenon DEF Set, LInv, Typed
<1>2. Sock(p)' = Sock(p)
  BY <1>1, Zenon DEF Sock
<1>3. proc[p].fd => proc[p].sock # {}
  BY Here, ZenonT(40) DEF POK
<1>4. POK(p, y, conn'[Sock(p)], startup, DaemonGone)
  BY <1>3, Here, QuietPOK, ZenonT(40)
<1>5. Unix(startup) => y.pid = {}
  BY Here, Zenon
<1> QED BY <1>2, <1>4, <1>5, ClientFrame, Zenon DEF KeepsConn

\* C_Initialize fails.
LEMMA FailedStep ==
    ASSUME ConstantsOK, LInv, NEW p \in Procs, proc[p].alive, UNCHANGED <<startup, loop>>,
           Failed(p)
    PROVE  LInv'
<1> DEFINE new == Returns([proc[p] EXCEPT !.forkid = {}])
           off == [new EXCEPT !.done = FALSE]
<1>1. proc[p] \in Process /\ proc[p].born /\ (proc[p].fd => p \in conn[Sock(p)].holders)
  BY Here, ZenonT(40) DEF POK
<1>2. CASE proc[p].done
  <2>1. /\ off \in Process /\ off.alive /\ off.born /\ off.pid = proc[p].pid
        /\ off.pc = "idle" /\ off.forkid = {} /\ off.tries = 0
    BY <1>1, Zenon DEF Process, Returns
  <2>2. Disconnect(p, off)
    BY <1>2, Zenon DEF Failed
  <2> HIDE DEF off
  <2> QED BY <2>1, <2>2, DisconnectStep, Zenon
<1>3. CASE ~proc[p].done
  <2>1. /\ new \in Process /\ new.alive /\ new.born /\ new.pid = proc[p].pid
        /\ new.pc = "idle" /\ new.forkid = {} /\ new.tries = 0 /\ new.sock = proc[p].sock
        /\ new.fd = proc[p].fd
    BY <1>1, Zenon DEF Process, Returns
  <2>2. Set(p, new) /\ UNCHANGED conn
    BY <1>3, Zenon DEF Failed
  <2>3. KeepsConn(p)
    BY <2>2, SameConn, Zenon DEF LInv
  <2> HIDE DEF new
  <2> QED BY <1>1, <2>1, <2>2, <2>3, QuietStep, Zenon
<1> QED BY <1>2, <1>3, Zenon

\* A process that may connect: it is new to rpc_C_Initialize, or tries once more.
MayConnect(p) == proc[p].forkid # {p} /\ proc[p].pc \in {"idle", "connect"}

\* The connection is the process's own, and the version byte is still to come.
LEMMA ConnectStep ==
    ASSUME ConstantsOK, LInv, NEW p \in Procs, proc[p].alive, UNCHANGED <<startup, loop>>,
           MayConnect(p), Connect(p)
    PROVE  LInv'
<1>0. /\ proc[p] \in Process /\ proc[p].born /\ (proc[p].fd => p \in conn[Sock(p)].holders)
      /\ POK(p, proc[p], conn[Sock(p)], startup, DaemonGone)
  BY Here, Zenon DEF POK
<1>1. ASSUME NEW i \in Conns, Unused(i), rpc_unix_connect(p, i) \/ rpc_exec_connect(p, i)
      PROVE  LInv'
  <2> DEFINE y == [proc[p] EXCEPT !.sock = {i}, !.fd = TRUE, !.pc = "auth",
                  !.pid = IF startup.transport = "exec" THEN {i} ELSE {}]
  <2>1. PICK d : /\ conn' = [conn EXCEPT ![i] = d] /\ Set(p, y)
                 /\ \/ /\ Unix(startup) /\ socket = "listening"
                       /\ d = [NoConn EXCEPT !.opener = {p}, !.holders = {p}, !.daemon = "queued"]
                    \/ /\ ~Unix(startup)
                       /\ d = [NoConn EXCEPT !.opener = {p}, !.holders = {p}, !.child = "auth"]
    BY <1>1, Zenon DEF rpc_unix_connect, rpc_exec_connect, Connected, Unix
  <2>2. KeepsConn(p) /\ conn'[i] = d
    BY <1>1, <2>1, NewConn, Zenon DEF LInv
  <2>3. /\ d.opener = {p} /\ d.holders = {p} /\ d.up = <<>> /\ d.down = <<>>
        /\ d.child \in {"none", "auth"} /\ FarEnd(d)
    BY <2>1, Zenon DEF NoConn, FarEnd
  <2>4. /\ y \in Process /\ y.alive /\ y.born /\ y.sock = {i} /\ y.fd /\ y.pc = "auth"
        /\ y.forkid = proc[p].forkid /\ y.tries = proc[p].tries
        /\ Unix(startup) => y.pid = {}
    BY <1>0, <1>1, Zenon DEF Process, Talking, Greeting, Unix
  <2>5. proc'[p] = y
    BY <2>1, Zenon DEF Set, LInv, Typed
  <2> HIDE DEF y
  <2>6. Sock(p)' = i
    BY <2>4, <2>5, SockIsNext, Zenon
  <2>7. y.tries = 1 => Cause(startup)
    <3>1. ~DaemonGone
      BY <2>1, Zenon DEF DaemonGone, LInv, Server
    <3>2. Retrying(proc[p]) /\ proc[p].tries = 1 => Cause(startup) \/ DaemonGone
      BY <1>0, Zenon DEF POK
    <3>3. proc[p].pc = "idle" => proc[p].tries = 0
      BY <1>0, Zenon DEF POK
    <3>4. proc[p].pc = "idle" \/ Retrying(proc[p])
      BY ZenonT(40) DEF MayConnect, Retrying
    <3> QED BY <2>4, <3>1, <3>2, <3>3, <3>4
  <2>8. Greets(y, d, startup, DaemonGone)
    BY <2>3, <2>4, <2>7, Zenon DEF Greets
  <2>9. POK(p, y, d, startup, DaemonGone)
    <3>1. y.pc \in Greeting /\ y.pc \notin InUse /\ ~Retrying(y)
      BY <2>4, Zenon DEF Greeting, InUse, Retrying
    <3>2. y.forkid # {p}
      BY <2>4, Zenon DEF MayConnect
    <3> QED BY <1>1, <2>3, <2>4, <2>8, <3>1, <3>2, ZenonT(40) DEF POK
  <2> QED BY <2>1, <2>2, <2>4, <2>6, <2>9, ClientFrame, Zenon DEF KeepsConn
<1>2. ASSUME Set(p, Returns([proc[p] EXCEPT !.forkid = {p}, !.done = FALSE])), UNCHANGED conn
      PROVE  LInv'
  <2> DEFINE y == Returns([proc[p] EXCEPT !.forkid = {p}, !.done = FALSE])
  <2>1. /\ y \in Process /\ y.alive /\ y.born /\ y.pid = proc[p].pid
        /\ y.pc = "idle" /\ y.forkid = {p} /\ ~y.done /\ y.tries = 0
        /\ y.sock = proc[p].sock /\ y.fd = proc[p].fd
    BY <1>0, ZenonT(40) DEF Process, Returns
  <2>2. KeepsConn(p)
    BY <1>2, SameConn, Zenon DEF LInv
  <2>3. Set(p, y)
    BY <1>2, Zenon
  <2> HIDE DEF y
  <2> QED BY <1>0, <1>2, <2>1, <2>2, <2>3, QuietStep, Zenon
<1> QED BY <1>1, <1>2, Zenon DEF Connect

\* The exec transport waits for its remote.
LEMMA WaitStep ==
    ASSUME ConstantsOK, LInv, NEW p \in Procs, UNCHANGED <<startup, loop>>,
           rpc_exec_wait_or_terminate(p)
    PROVE  LInv'
<1>0. /\ proc[p].alive /\ proc[p].pc = "wait" /\ proc[p] \in Process
      /\ POK(p, proc[p], conn[Sock(p)], startup, DaemonGone)
      /\ Unix(startup) => proc[p].pid = {}
  BY Here, Zenon DEF rpc_exec_wait_or_terminate, At
<1>1. PICK i \in proc[p].pid : \/ /\ conn[i].opener = {p}
                                  /\ conn' = [conn EXCEPT ![i].child = "reaped"]
                               \/ UNCHANGED conn
  BY Zenon DEF rpc_exec_wait_or_terminate
<1>2. i \in Conns /\ ~Unix(startup)
  BY <1>0, Zenon DEF Process
<1>3. /\ KeepsConn(p)
      /\ \A j \in Conns :
            \/ conn'[j] = conn[j]
            \/ conn'[j] = [conn[j] EXCEPT !.child = "reaped"]
  <2>1. CASE UNCHANGED conn
    BY <2>1, SameConn, Zenon DEF LInv
  <2>2. CASE conn[i].opener = {p} /\ conn' = [conn EXCEPT ![i].child = "reaped"]
    <3>1. KeepsConn(p)
      BY <1>2, <2>2, ReapedConn, Zenon DEF LInv
    <3> QED BY <1>2, <2>2, <3>1, Zenon DEF LInv, Typed
  <2> QED BY <1>1, <2>1, <2>2, Zenon
<1> DEFINE y == [proc[p] EXCEPT !.pid = {}, !.pc = proc[p].then, !.then = "idle"]
<1>4. /\ y \in Process /\ y.alive /\ y.born /\ y.pid = {} /\ y.forkid = proc[p].forkid
      /\ y.pc = proc[p].then /\ y.pc \in {"idle", "connect"} /\ y.tries = proc[p].tries
      /\ y.sock = proc[p].sock /\ y.fd = proc[p].fd /\ y.done = proc[p].done
      /\ y.version = proc[p].version
  BY <1>0, Here, Zenon DEF Process
<1>5. Set(p, y)
  BY Zenon DEF rpc_exec_wait_or_terminate
<1> HIDE DEF y
<1>6. proc'[p] = y /\ Sock(p)' = Sock(p)
  <2>1. proc'[p] = y
    BY <1>5, Zenon DEF Set, LInv, Typed
  <2> QED BY <1>4, <2>1, Zenon DEF Sock
<1>7. proc[p].fd => Sock(p) \in Conns /\ conn[Sock(p)] \in Connection
  BY <1>0, Here, Zenon DEF POK
<1>8. proc[p].fd => /\ conn'[Sock(p)].opener = conn[Sock(p)].opener
                    /\ conn'[Sock(p)].holders = conn[Sock(p)].holders
                    /\ conn'[Sock(p)].version = conn[Sock(p)].version
                    /\ conn'[Sock(p)].child \in {conn[Sock(p)].child, "reaped"}
  BY <1>3, <1>7, ZenonT(40) DEF Connection
<1>9. POK(p, y, conn'[Sock(p)], startup, DaemonGone)
  <2>1. y.pc \notin Talking /\ y.pc \notin InUse /\ y.pc \notin Greeting /\ y.pc # "wait"
    BY <1>4, Zenon DEF Talking, InUse, Greeting
  <2>2. Retrying(y) <=> Retrying(proc[p])
    BY <1>0, <1>4, Zenon DEF Retrying
  <2>3. y.forkid = {p} /\ y.done /\ y.fd =>
           conn'[Sock(p)].opener = {p} /\ Speaks(y, conn'[Sock(p)], startup)
    BY <1>0, <1>4, <1>8, ZenonT(40) DEF POK, Speaks
  <2>4. y.pc = "idle" => y.tries = 0
    BY <1>0, <1>4, ZenonT(40) DEF POK
  <2>5. Retrying(y) => y.forkid # {p} /\ (y.tries = 1 => Cause(startup) \/ DaemonGone)
    BY <1>0, <1>4, <2>2, ZenonT(40) DEF POK
  <2>6. y.fd => y.sock # {} /\ p \in conn'[Sock(p)].holders
    BY <1>0, <1>4, <1>8, ZenonT(40) DEF POK
  <2>7. y.sock # {} => \E j \in Conns : y.sock = {j}
    BY <1>0, <1>4, ZenonT(40) DEF POK
  <2> QED BY <1>4, <2>1, <2>3, <2>4, <2>5, <2>6, <2>7, ZenonT(40) DEF POK
<1> QED BY <1>0, <1>3, <1>4, <1>5, <1>6, <1>9, ClientFrame, Zenon DEF KeepsConn

\* The first failure leads to a second attempt: the far end is closed, for a cause.
LEMMA AuthFailedStep ==
    ASSUME ConstantsOK, LInv, NEW p \in Procs, proc[p].alive, UNCHANGED <<startup, loop>>,
           proc[p].pc \in Greeting, ~ServerEnd(Sock(p)), AuthFailed(p)
    PROVE  LInv'
<1>0. /\ proc[p] \in Process /\ proc[p].born
      /\ POK(p, proc[p], conn[Sock(p)], startup, DaemonGone)
  BY Here, ZenonT(40)
<1>1. CASE proc[p].tries = 0 /\ VERSION_MAXIMUM > 0
  <2> DEFINE new == [proc[p] EXCEPT !.tries = 1, !.pc = "connect"]
  <2>1. /\ new \in Process /\ new.alive /\ new.born /\ new.pid = proc[p].pid
        /\ new.pc = "connect" /\ new.forkid = proc[p].forkid
    BY <1>0, Zenon DEF Process
  <2>2. Disconnect(p, new)
    BY <1>1, Zenon DEF AuthFailed
  <2>3. proc[p].forkid # {p} /\ (Cause(startup) \/ DaemonGone)
    <3>1. ~FarEnd(conn[Sock(p)])
      BY Zenon DEF ServerEnd, FarEnd
    <3> QED BY <1>0, <3>1, Zenon DEF POK, Greets
  <2> HIDE DEF new
  <2> QED BY <2>1, <2>2, <2>3, DisconnectStep, Zenon
<1>2. CASE ~(proc[p].tries = 0 /\ VERSION_MAXIMUM > 0)
  BY <1>2, FailedStep, Zenon DEF AuthFailed
<1> QED BY <1>1, <1>2, Zenon

\* The version byte is sent: it is all there is on the connection.
LEMMA AuthenticateStep ==
    ASSUME ConstantsOK, LInv, NEW p \in Procs, UNCHANGED <<startup, loop>>, Authenticate(p)
    PROVE  LInv'
<1>0. /\ proc[p].alive /\ proc[p].pc = "auth" /\ proc[p] \in Process /\ proc[p].born
      /\ POK(p, proc[p], conn[Sock(p)], startup, DaemonGone)
      /\ Unix(startup) => proc[p].pid = {}
  BY Here, Zenon DEF Authenticate, At
<1>1. /\ proc[p].fd /\ conn[Sock(p)].opener = {p} /\ p \in conn[Sock(p)].holders
      /\ Sock(p) \in Conns /\ proc[p].sock = {Sock(p)} /\ conn[Sock(p)] \in Connection
      /\ Greets(proc[p], conn[Sock(p)], startup, DaemonGone) /\ proc[p].forkid # {p}
  BY <1>0, Here, Zenon DEF POK, Talking, Greeting
<1>2. CASE ServerEnd(Sock(p))
  <2> DEFINE y == [proc[p] EXCEPT !.pc = "authread"]
             m == Message("version", Offer(p))
             c == conn[Sock(p)]
             d == conn'[Sock(p)]
  <2>1. /\ y \in Process /\ y.alive /\ y.born /\ y.pid = proc[p].pid /\ y.pc = "authread"
        /\ y.forkid = proc[p].forkid /\ y.tries = proc[p].tries
        /\ y.sock = proc[p].sock /\ y.fd
    BY <1>0, <1>1, Zenon DEF Process, Talking, Greeting
  <2>2. Set(p, y) /\ conn' = [conn EXCEPT ![Sock(p)].up = Append(@, m)]
    BY <1>2, Zenon DEF Authenticate, Write
  <2>3. m \in Messages
    BY DEF Message, Messages, MessageKinds, Offer, Versions, ConstantsOK
  <2>4. KeepsConn(p) /\ d = [c EXCEPT !.up = Append(c.up, m)]
    BY <1>1, <2>2, <2>3, WrittenConn, ZenonT(40) DEF LInv
  <2>5. c.up = <<>> /\ c.down = <<>> /\ c.child # "serving"
    BY <1>0, <1>1, Zenon DEF Greets
  <2>6. /\ d.up = <<m>> /\ d.down = <<>> /\ d.child # "serving" /\ d.opener = {p}
        /\ d.holders = c.holders /\ (FarEnd(d) <=> FarEnd(c))
    BY <1>1, <2>4, <2>5 DEF Connection, FarEnd
  <2>7. proc'[p] = y /\ OfferOf(y) = Offer(p)
    BY <2>1, <2>2, Zenon DEF Set, LInv, Typed, OfferOf, Offer
  <2> HIDE DEF y, m, c, d
  <2>8. Sock(p)' = Sock(p)
    BY <2>1, <2>7, Zenon DEF Sock
  <2>9. Greets(y, d, startup, DaemonGone)
    <3>1. Message("version", OfferOf(y)) = m
      BY <2>7, Zenon DEF m
    <3>2. /\ ~FarEnd(d) => Cause(startup) \/ DaemonGone
          /\ y.tries = 1 => Cause(startup)
      BY <1>1, <2>1, <2>6, Zenon DEF Greets, c
    <3> QED BY <2>1, <2>6, <3>1, <3>2, Zenon DEF Greets
  <2>10. POK(p, y, d, startup, DaemonGone)
    <3>1. y.pc \in Greeting /\ y.pc \notin InUse /\ ~Retrying(y) /\ y.pc \notin {"idle", "wait"}
      BY <2>1, Zenon DEF Greeting, InUse, Retrying
    <3>2. p \in d.holders /\ y.forkid # {p}
      BY <1>1, <2>1, <2>6, Zenon DEF c
    <3> QED BY <1>1, <2>1, <2>6, <2>9, <3>1, <3>2, ZenonT(40) DEF POK
  <2>11. POK(p, y, conn'[Sock(p)'], startup, DaemonGone)
    BY <2>8, <2>10, Zenon DEF d
  <2> QED BY <1>0, <2>1, <2>2, <2>4, <2>11, ClientFrame, ZenonT(40)
             DEF KeepsConn
<1>3. CASE ~ServerEnd(Sock(p))
  BY <1>0, <1>3, AuthFailedStep, Zenon DEF Authenticate, Greeting
<1> QED BY <1>2, <1>3, Zenon

\* The answer is the version of the offer; a second offer was made for a cause, and a
\* remote that serves was not refused.
LEMMA AuthenticatedStep ==
    ASSUME ConstantsOK, LInv, NEW p \in Procs, UNCHANGED <<startup, loop>>, Authenticated(p)
    PROVE  LInv'
<1>0. /\ proc[p].alive /\ proc[p].pc = "authread" /\ proc[p] \in Process /\ proc[p].born
      /\ POK(p, proc[p], conn[Sock(p)], startup, DaemonGone)
      /\ Unix(startup) => proc[p].pid = {}
  BY Here, Zenon DEF Authenticated, At
<1>1. /\ proc[p].fd /\ conn[Sock(p)].opener = {p} /\ p \in conn[Sock(p)].holders
      /\ Sock(p) \in Conns /\ proc[p].sock = {Sock(p)} /\ conn[Sock(p)] \in Connection
      /\ Greets(proc[p], conn[Sock(p)], startup, DaemonGone)
  BY <1>0, Here, Zenon DEF POK, Talking, Greeting
<1> DEFINE c == conn[Sock(p)]
           d == conn'[Sock(p)]
<1>2. CASE /\ c.down # <<>> /\ Reads(p)
           /\ Set(p, [proc[p] EXCEPT !.version = Head(c.down).v,
                        !.forkid = {p}, !.done = TRUE, !.pc = "handshake"])
  <2> DEFINE y == [proc[p] EXCEPT !.version = Head(c.down).v,
                        !.forkid = {p}, !.done = TRUE, !.pc = "handshake"]
             v == OfferOf(proc[p])
  <2>1. /\ c.child = "serving" /\ c.down = <<Message("version", v)>> /\ c.version = v
        /\ startup.old => v = 0
    BY <1>0, <1>1, <1>2, Zenon DEF Greets
  <2>2. Head(c.down).v = v
    BY <2>1 DEF Message
  <2>3. v \in Versions
    BY DEF OfferOf, Versions, ConstantsOK
  <2>4. KeepsConn(p) /\ d = [c EXCEPT !.down = Tail(c.down)]
    BY <1>1, <1>2, ReadConn, Zenon DEF LInv, Reads
  <2>5. /\ d.opener = {p} /\ d.holders = c.holders /\ d.child = "serving" /\ d.version = v
    BY <1>1, <2>1, <2>4, Zenon DEF Connection
  <2>6. /\ y \in Process /\ y.alive /\ y.born /\ y.pid = proc[p].pid /\ y.pc = "handshake"
        /\ y.forkid = {p} /\ y.done /\ y.version = v /\ y.sock = proc[p].sock /\ y.fd
    BY <1>0, <1>1, <2>2, <2>3, ZenonT(40) DEF Process, Talking, InUse
  <2>7. proc'[p] = y /\ Set(p, y)
    BY <1>2, Zenon DEF Set, LInv, Typed
  <2>8. v = Newest(startup) \/ startup.remoteFails
    <3>1. proc[p].tries = 1 => Cause(startup)
      BY <1>1, Zenon DEF Greets
    <3>2. Unix(startup) => startup.peer = "expected"
      BY <1>1, <2>1, Zenon DEF LInv, Server
    <3>3. proc[p].tries \in {0, 1}
      BY <1>0, Zenon DEF Process
    <3> QED BY <2>1, <3>1, <3>2, <3>3, Zenon DEF OfferOf, Newest, Cause
  <2> HIDE DEF y, v, c, d
  <2>9. Sock(p)' = Sock(p)
    BY <2>6, <2>7, Zenon DEF Sock
  <2>10. Speaks(y, d, startup)
    BY <2>5, <2>6, <2>8, Zenon DEF Speaks
  <2>11. POK(p, y, d, startup, DaemonGone)
    <3>1. y.pc \in InUse /\ y.pc \notin Greeting /\ ~Retrying(y) /\ y.pc \notin {"idle", "wait"}
      BY <2>6, Zenon DEF Greeting, InUse, Retrying
    <3>2. p \in d.holders
      BY <1>1, <2>5, Zenon DEF c
    <3> QED BY <1>1, <2>5, <2>6, <2>10, <3>1, <3>2, ZenonT(40) DEF POK
  <2>12. POK(p, y, conn'[Sock(p)'], startup, DaemonGone)
    BY <2>9, <2>11, Zenon DEF d
  <2> QED BY <1>0, <2>4, <2>6, <2>7, <2>12, ClientFrame, Zenon DEF KeepsConn
<1>3. CASE Unanswered(p) /\ AuthFailed(p)
  BY <1>0, <1>3, AuthFailedStep, Zenon DEF Unanswered, Greeting
<1> QED BY <1>2, <1>3, Zenon DEF Authenticated

\* A request goes out over the connection in use.
LEMMA SendsStep ==
    ASSUME ConstantsOK, LInv, NEW p \in Procs, proc[p].alive, UNCHANGED <<startup, loop>>,
           proc[p].forkid = {p}, proc[p].done, proc[p].fd,
           NEW kind \in MessageKinds, NEW step \in InUse,
           Write(p, Message(kind, 0)), Set(p, [proc[p] EXCEPT !.pc = step])
    PROVE  LInv'
<1>0. /\ proc[p] \in Process /\ proc[p].born
      /\ POK(p, proc[p], conn[Sock(p)], startup, DaemonGone)
      /\ Unix(startup) => proc[p].pid = {}
  BY Here, Zenon
<1>1. /\ conn[Sock(p)].opener = {p}
      /\ Sock(p) \in Conns /\ proc[p].sock = {Sock(p)} /\ conn[Sock(p)] \in Connection
  BY <1>0, Here, Zenon DEF POK
<1> DEFINE y == [proc[p] EXCEPT !.pc = step]
           m == Message(kind, 0)
           c == conn[Sock(p)]
           d == conn'[Sock(p)]
<1>2. /\ y \in Process /\ y.alive /\ y.born /\ y.pid = proc[p].pid /\ y.pc = step
      /\ y.forkid = proc[p].forkid /\ y.sock = proc[p].sock /\ y.fd = proc[p].fd
      /\ y.done = proc[p].done /\ y.version = proc[p].version
  BY <1>0, Zenon DEF Process, Talking
<1>3. m \in Messages
  BY DEF Message, Messages, Versions, ConstantsOK
<1>4. KeepsConn(p) /\ d = [c EXCEPT !.up = Append(c.up, m)]
  <2>1. conn' = [conn EXCEPT ![Sock(p)].up = Append(@, m)] /\ Typed
    BY Zenon DEF Write, LInv
  <2> HIDE DEF m
  <2> QED BY <1>1, <1>3, <2>1, WrittenConn, ZenonT(30)
<1>5. /\ d.opener = c.opener /\ d.holders = c.holders /\ d.child = c.child
      /\ d.version = c.version
  BY <1>1, <1>4, Zenon DEF Connection
<1>6. proc'[p] = y /\ Set(p, y)
  BY Zenon DEF Set, LInv, Typed
<1> HIDE DEF y, m, c, d
<1>7. Sock(p)' = Sock(p)
  BY <1>2, <1>6, Zenon DEF Sock
<1>8. POK(p, proc[p], c, startup, DaemonGone)
  BY <1>0, Zenon DEF c
<1>9. POK(p, y, d, startup, DaemonGone)
  BY <1>2, <1>5, <1>8, UsePOK, Zenon
<1>10. POK(p, y, conn'[Sock(p)'], startup, DaemonGone)
  BY <1>7, <1>9, Zenon DEF d
<1> QED BY <1>0, <1>2, <1>4, <1>6, <1>10, ClientFrame, Zenon DEF KeepsConn

\* The answer is read, and the call returns.
LEMMA AnsweredStep ==
    ASSUME ConstantsOK, LInv, NEW p \in Procs, proc[p].alive, UNCHANGED <<startup, loop>>,
           proc[p].pc \in InUse, conn[Sock(p)].down # <<>>, Reads(p), Set(p, Returns(proc[p]))
    PROVE  LInv'
<1>0. /\ proc[p] \in Process /\ proc[p].born
      /\ POK(p, proc[p], conn[Sock(p)], startup, DaemonGone)
  BY Here, Zenon
<1>1. /\ conn[Sock(p)].opener = {p} /\ p \in conn[Sock(p)].holders
      /\ Sock(p) \in Conns /\ conn[Sock(p)] \in Connection
  BY <1>0, Here, Zenon DEF POK, Talking
<1> DEFINE y == Returns(proc[p])
<1>2. /\ y \in Process /\ y.alive /\ y.born /\ y.pid = proc[p].pid /\ y.pc = "idle"
      /\ y.tries = 0 /\ y.forkid = proc[p].forkid /\ y.sock = proc[p].sock
      /\ y.fd = proc[p].fd /\ y.done = proc[p].done /\ y.version = proc[p].version
  BY <1>0, Zenon DEF Process, Returns
<1>3. /\ KeepsConn(p)
      /\ conn'[Sock(p)] = [conn[Sock(p)] EXCEPT !.down = Tail(conn[Sock(p)].down)]
  BY <1>1, ReadConn, ZenonT(40) DEF LInv, Reads
<1>4. /\ conn'[Sock(p)].opener = conn[Sock(p)].opener
      /\ conn'[Sock(p)].holders = conn[Sock(p)].holders
      /\ conn'[Sock(p)].child = conn[Sock(p)].child
      /\ conn'[Sock(p)].version = conn[Sock(p)].version
  BY <1>1, <1>3, Zenon DEF Connection
<1>5. Set(p, y) /\ p \in conn'[Sock(p)].holders
  BY <1>1, <1>4, Zenon
<1> HIDE DEF y
<1> QED BY <1>2, <1>3, <1>4, <1>5, QuietStep, ZenonT(40)

\* No answer, or no way to send: the descriptor is closed, and the call returns.
LEMMA ClosesStep ==
    ASSUME ConstantsOK, LInv, NEW p \in Procs, proc[p].alive, UNCHANGED <<startup, loop>>,
           Closes(p), Set(p, Returns([proc[p] EXCEPT !.fd = FALSE]))
    PROVE  LInv'
<1>0. /\ proc[p] \in Process /\ proc[p].born
      /\ POK(p, proc[p], conn[Sock(p)], startup, DaemonGone)
  BY Here, Zenon
<1> DEFINE y == Returns([proc[p] EXCEPT !.fd = FALSE])
<1>1. /\ y \in Process /\ y.alive /\ y.born /\ y.pid = proc[p].pid /\ y.pc = "idle"
      /\ y.tries = 0 /\ y.forkid = proc[p].forkid /\ y.sock = proc[p].sock /\ ~y.fd
  BY <1>0, Zenon DEF Process, Returns
<1>2. /\ KeepsConn(p)
      /\ proc[p].sock # {} => /\ conn'[Sock(p)].opener = conn[Sock(p)].opener
                              /\ conn'[Sock(p)].child = conn[Sock(p)].child
                              /\ conn'[Sock(p)].version = conn[Sock(p)].version
  <2>1. CASE proc[p].fd
    <3>1. Sock(p) \in Conns
      BY <1>0, <2>1, Here, Zenon DEF POK
    <3> QED BY <2>1, <3>1, DroppedConn, Zenon DEF Closes, LInv
  <2>2. CASE ~proc[p].fd
    BY <2>2, SameConn, Zenon DEF Closes, LInv
  <2> QED BY <2>1, <2>2, Zenon
<1>3. Set(p, y)
  BY Zenon
<1> HIDE DEF y
<1> QED BY <1>1, <1>2, <1>3, QuietStep, Zenon

\* A call that is refused, or a C_Finalize that closes nothing.
LEMMA RefusedStep ==
    ASSUME ConstantsOK, LInv, NEW p \in Procs, proc[p].alive, UNCHANGED <<startup, loop>>,
           UNCHANGED conn, Set(p, Returns(proc[p])) \/ Set(p, Finalized(p))
    PROVE  LInv'
<1>0. /\ proc[p] \in Process /\ proc[p].born /\ (proc[p].fd => p \in conn[Sock(p)].holders)
  BY Here, ZenonT(40) DEF POK
<1>1. PICK y \in Process :
         /\ Set(p, y) /\ y.alive /\ y.born /\ y.pid = proc[p].pid /\ y.pc = "idle"
         /\ y.tries = 0 /\ y.forkid \in {{}, proc[p].forkid} /\ y.sock = proc[p].sock
         /\ y.fd = proc[p].fd /\ y.done \in {FALSE, proc[p].done} /\ y.version = proc[p].version
  <2>1. CASE Set(p, Returns(proc[p]))
    <3>1. Returns(proc[p]) \in Process
      BY <1>0, Zenon DEF Returns, Process
    <3> QED BY <1>0, <2>1, <3>1, Zenon DEF Returns, Process
  <2>2. CASE Set(p, Finalized(p))
    <3>1. Finalized(p) \in Process
      BY <1>0, Zenon DEF Finalized, Returns, Process
    <3> QED BY <1>0, <2>2, <3>1, Zenon DEF Finalized, Returns, Process
  <2> QED BY <2>1, <2>2, Zenon
<1>2. KeepsConn(p)
  BY SameConn, Zenon DEF LInv
<1>3. y.forkid = {p} /\ y.done => proc[p].forkid = {p} /\ proc[p].done
  BY <1>1, ZenonT(40)
<1> QED BY <1>0, <1>1, <1>2, <1>3, QuietStep, Zenon

\* C_Finalize disconnects.
LEMMA FinalizedStep ==
    ASSUME ConstantsOK, LInv, NEW p \in Procs, proc[p].alive, UNCHANGED <<startup, loop>>,
           Disconnect(p, Finalized(p))
    PROVE  LInv'
<1>0. proc[p] \in Process /\ proc[p].born
  BY Here, Zenon
<1> DEFINE new == Finalized(p)
<1>1. /\ new \in Process /\ new.alive /\ new.born /\ new.pid = proc[p].pid
      /\ new.pc = "idle" /\ new.forkid = {} /\ new.tries = 0
  BY <1>0, ZenonT(40) DEF Process, Finalized, Returns
<1>2. Disconnect(p, new)
  BY Zenon
<1> HIDE DEF new
<1> QED BY <1>1, <1>2, DisconnectStep, ZenonT(40)

\* Every step of a process that is inside a call, and every start of one, keeps the
\* invariant.
LEMMA ContinueStep ==
    ASSUME ConstantsOK, LInv, NEW p \in Procs, UNCHANGED <<startup, loop>>, Continue(p)
    PROVE  LInv'
<1>0. proc[p].alive
  BY Zenon
     DEF Continue, Reconnect, Authenticate, Authenticated, Handshake, Shaken,
     Called,
     FinalizeDone, rpc_exec_wait_or_terminate, At
<1>1. /\ proc[p].pc \in InUse => proc[p].fd /\ proc[p].forkid = {p} /\ proc[p].done
      /\ proc[p].pc = "connect" => proc[p].forkid # {p}
  BY <1>0, Here, Zenon DEF POK, Talking, Retrying
<1>2. CASE Reconnect(p)
  <2>1. MayConnect(p)
    BY <1>1, <1>2, Zenon DEF Reconnect, At, MayConnect
  <2> QED BY <1>0, <1>2, <2>1, ConnectStep, FailedStep, Zenon DEF Reconnect,
             ConnectFails
<1>3. CASE Authenticate(p) \/ Authenticated(p)
  BY <1>3, AuthenticateStep, AuthenticatedStep, Zenon
<1>4. CASE Handshake(p)
  <2>1. proc[p].pc \in InUse
    BY <1>4, Zenon DEF Handshake, At, InUse
  <2>2. CASE Sends(p, "initialize", "shaken")
    BY <1>0, <1>1, <2>1, <2>2, SendsStep, ZenonT(40) DEF Sends, MessageKinds,
       InUse
  <2> QED BY <1>0, <1>4, <2>2, FailedStep, Zenon DEF Handshake
<1>5. CASE Shaken(p)
  <2>1. proc[p].pc \in InUse
    BY <1>5, Zenon DEF Shaken, At, InUse
  <2> QED BY <1>0, <1>5, <2>1, AnsweredStep, FailedStep, Zenon DEF Shaken
<1>6. CASE Called(p)
  <2>1. proc[p].pc \in InUse
    BY <1>6, Zenon DEF Called, At, InUse
  <2> QED BY <1>0, <1>6, <2>1, AnsweredStep, ClosesStep, Zenon DEF Called
<1>7. CASE FinalizeDone(p)
  BY <1>0, <1>7, FinalizedStep, Zenon DEF FinalizeDone
<1>8. CASE rpc_exec_wait_or_terminate(p)
  BY <1>8, WaitStep, Zenon
<1> QED BY <1>2, <1>3, <1>4, <1>5, <1>6, <1>7, <1>8, Zenon DEF Continue

\* A step that touches no variable of the invariant
LEMMA StutterStep ==
    ASSUME LInv, UNCHANGED <<startup, loop, conn, proc>>
    PROVE  LInv'
<1>1. DaemonGone' = DaemonGone /\ Children' = Children
  BY Zenon DEF DaemonGone, Children, loop
<1>2. Typed' /\ Parents'
  BY Zenon DEF LInv, Typed, Parents, loop
<1>3. Processes'
  BY <1>1, Zenon DEF LInv, Processes, Sock
<1>4. Server'
  BY <1>1, Zenon DEF LInv, Server, loop
<1> QED BY <1>2, <1>3, <1>4, Zenon DEF LInv

\* A call starts: call_prepare lets only the process that initialized pass.
LEMMA CallStep ==
    ASSUME ConstantsOK, LInv, NEW p \in Procs, UNCHANGED <<startup, loop>>,
           Initialize(p) \/ Call(p) \/ Finalize(p)
    PROVE  LInv'
<1>0. proc[p].alive /\ proc[p].pc = "idle"
  BY Zenon DEF Initialize, Call, Finalize, At
<1>1. CASE Initialize(p)
  <2>1. CASE proc[p].forkid = {p}
    BY <1>1, <2>1, StutterStep, Zenon DEF Initialize
  <2>2. CASE proc[p].forkid # {p}
    <3>1. MayConnect(p)
      BY <1>0, <2>2, Zenon DEF MayConnect
    <3> QED BY <1>0, <1>1, <2>2, <3>1, ConnectStep, FailedStep, Zenon
               DEF Initialize,
               ConnectFails
  <2> QED BY <2>1, <2>2, Zenon
<1>2. CASE Call(p)
  <2>1. CASE call_prepare(p) = "ok"
    <3>1. proc[p].forkid = {p} /\ proc[p].done
      BY <1>0, <2>1, Here, Zenon DEF call_prepare, Process
    <3>2. CASE ~Unsent(p)
      BY <1>0, <1>2, <2>1, <3>1, <3>2, SendsStep, ZenonT(40) DEF Call, Unsent,
         MessageKinds, InUse
    <3>3. CASE Unsent(p)
      BY <1>0, <1>2, <2>1, <3>3, ClosesStep, Zenon DEF Call
    <3> QED BY <3>2, <3>3, Zenon
  <2>2. CASE call_prepare(p) # "ok"
    BY <1>0, <1>2, <2>2, RefusedStep, Zenon DEF Call
  <2> QED BY <2>1, <2>2, Zenon
<1>3. CASE Finalize(p)
  <2>1. CASE ~proc[p].done /\ Set(p, Finalized(p)) /\ UNCHANGED conn
    BY <1>0, <2>1, RefusedStep, Zenon
  <2>2. CASE proc[p].done /\ Sends(p, "finalize", "finalize")
    BY <1>0, <1>3, <2>2, SendsStep, ZenonT(40) DEF Finalize, Sends,
       MessageKinds, InUse
  <2>3. CASE Disconnect(p, Finalized(p))
    BY <1>0, <2>3, FinalizedStep, Zenon
  <2> QED BY <1>3, <2>1, <2>2, <2>3, Zenon DEF Finalize
<1> QED BY <1>1, <1>2, <1>3, Zenon

\* A process exits: its descriptors are closed.
LEMMA ExitStep ==
    ASSUME ConstantsOK, LInv, NEW p \in Procs, UNCHANGED <<startup, loop>>, ExitProcess(p)
    PROVE  LInv'
<1>0. /\ proc[p].alive /\ proc[p] \in Process /\ proc[p].born
      /\ Unix(startup) => proc[p].pid = {}
  BY Here, Zenon DEF ExitProcess
<1> DEFINE y == [proc[p] EXCEPT !.alive = FALSE]
<1>1. /\ y \in Process /\ ~y.alive /\ y.born /\ y.pid = proc[p].pid /\ y.forkid = proc[p].forkid
  BY <1>0, Zenon DEF Process
<1>2. KeepsConn(p)
  <2>1. ASSUME NEW j \in Conns
        PROVE  /\ conn'[j] \in Connection /\ OthersKeep(p, conn[j], conn'[j])
               /\ DaemonKeepsOf(conn[j], conn'[j])
    <3>1. conn[j] \in Connection /\ conn'[j] = [conn[j] EXCEPT !.holders = @ \ {p}]
      BY Zenon DEF ExitProcess, LInv, Typed
    <3> QED BY <3>1, Zenon DEF Connection, OthersKeep, DaemonKeepsOf
  <2>2. conn' = [j \in Conns |-> conn'[j]]
    BY Zenon DEF ExitProcess
  <2> QED BY <2>1, <2>2, Zenon DEF KeepsConn
<1>3. Set(p, y)
  BY Zenon DEF ExitProcess
<1> HIDE DEF y
<1> QED BY <1>0, <1>1, <1>2, <1>3, ClientFrame, Zenon DEF KeepsConn

\* A process forks: the new one has a copy of the other's rpc_client, and shares its
\* descriptor, but does not take the initialization for its own.
LEMMA ForkStep ==
    ASSUME ConstantsOK, LInv, NEW p \in Procs, UNCHANGED <<startup, loop>>, ForkProcess(p)
    PROVE  LInv'
<1>0. /\ proc[p].alive /\ proc[p].pc = "idle" /\ proc[p] \in Process /\ proc[p].born
      /\ POK(p, proc[p], conn[Sock(p)], startup, DaemonGone)
      /\ Unix(startup) => proc[p].pid = {}
  BY Here, Zenon DEF ForkProcess, At
<1>1. PICK q \in Procs : ~proc[q].born /\ proc' = [proc EXCEPT ![q] = proc[p]]
  BY ZenonT(40) DEF ForkProcess
<1>2. /\ q # p /\ proc' \in [Procs -> Process] /\ proc'[q] = proc[p]
      /\ \A r \in Procs : r # q => proc'[r] = proc[r]
      /\ ~proc[q].alive
  <2>1. ~proc[q].alive
    BY <1>1, Here, Zenon
  <2> QED BY <1>0, <1>1, <2>1, Zenon DEF LInv, Typed
<1>3. {r \in Procs : proc'[r] # proc[r]} = {q}
  BY <1>0, <1>1, <1>2, Zenon
<1>4. ASSUME NEW j \in Conns
      PROVE  /\ conn'[j] \in Connection
             /\ conn'[j].opener = conn[j].opener /\ conn'[j].daemon = conn[j].daemon
             /\ conn'[j].child = conn[j].child /\ conn'[j].up = conn[j].up
             /\ conn'[j].down = conn[j].down /\ conn'[j].version = conn[j].version
             /\ conn[j].holders \subseteq conn'[j].holders
             /\ p \in conn[j].holders => q \in conn'[j].holders
  <2>1. conn[j] \in Connection
    BY Zenon DEF LInv, Typed
  <2>2. conn'[j] = [conn[j] EXCEPT !.holders = IF p \in conn[j].holders
                                               THEN conn[j].holders \cup {q}
                                               ELSE conn[j].holders]
    BY <1>3, Zenon DEF ForkProcess
  <2> QED BY <2>1, <2>2 DEF Connection
<1>5. conn' \in [Conns -> Connection]
  <2>1. conn' = [j \in Conns |-> conn'[j]]
    BY Zenon DEF ForkProcess
  <2> QED BY <1>4, <2>1, Zenon
<1>6. Typed'
  BY <1>2, <1>5, Zenon DEF LInv, Typed, loop
<1>7. DaemonGone' = DaemonGone
  BY Zenon DEF DaemonGone, loop
<1>8. ASSUME NEW r \in Procs, proc[r].alive
      PROVE  POK(r, proc[r], conn'[Sock(r)], startup, DaemonGone)
  <2>1. POK(r, proc[r], conn[Sock(r)], startup, DaemonGone)
    BY <1>8, Here, Zenon
  <2>2. CASE proc[r].sock = {}
    BY <2>1, <2>2, NoSocket, Zenon
  <2>3. CASE proc[r].sock # {}
    <3>1. Sock(r) \in Conns
      BY <1>8, <2>3, Here, ZenonT(40)
    <3>2. proc[r].fd => r \in conn'[Sock(r)].holders
      BY <1>4, <2>1, <3>1, ZenonT(40) DEF POK
    <3> QED BY <1>4, <2>1, <3>1, <3>2, OtherConnection, Zenon
  <2> QED BY <2>2, <2>3, Zenon
<1>9. POK(q, proc[p], conn'[Sock(p)], startup, DaemonGone)
  <2>1. proc[p].forkid # {q}
    BY <1>0, <1>1, Zenon DEF LInv, Parents
  <2>2. proc[p].fd => proc[p].sock # {} /\ q \in conn'[Sock(p)].holders
    <3>1. ASSUME proc[p].fd
          PROVE  Sock(p) \in Conns /\ p \in conn[Sock(p)].holders /\ proc[p].sock # {}
      BY <1>0, <3>1, Here, ZenonT(40) DEF POK
    <3> QED BY <1>4, <3>1, Zenon
  <2>3. /\ proc[p].pc \notin Talking /\ proc[p].pc \notin InUse /\ proc[p].pc \notin Greeting
        /\ ~Retrying(proc[p])
    BY <1>0, Zenon DEF Talking, InUse, Greeting, Retrying
  <2>4. proc[p].tries = 0 /\ (proc[p].sock # {} => \E j \in Conns : proc[p].sock = {j})
    BY <1>0, Zenon DEF POK
  <2> QED BY <1>0, <2>1, <2>2, <2>3, <2>4, ZenonT(40) DEF POK
<1>10. Processes'
  <2>1. ASSUME NEW r \in Procs, proc'[r].alive
        PROVE  POK(r, proc'[r], conn'[Sock(r)'], startup', DaemonGone')
    <3>1. CASE r = q
      <4>1. Sock(r)' = Sock(p)
        BY <1>2, <3>1, Zenon DEF Sock
      <4> QED BY <1>2, <1>7, <1>9, <3>1, <4>1, Zenon
    <3>2. CASE r # q
      <4>1. Sock(r)' = Sock(r)
        BY <1>2, <3>2, Zenon DEF Sock
      <4> QED BY <1>2, <1>7, <1>8, <2>1, <3>2, <4>1, Zenon
    <3> QED BY <3>1, <3>2, Zenon
  <2> QED BY <2>1, Zenon DEF Processes
<1>11. Parents'
  <2>1. \A r \in Procs : proc[r].born => proc'[r].born
    BY <1>0, <1>2, Zenon
  <2> QED BY <1>0, <1>2, <2>1, Zenon DEF LInv, Parents
<1>12. Server'
  <2>1. \A j \in Conns : DaemonKeepsOf(conn[j], conn'[j])
    BY <1>4, Zenon DEF DaemonKeepsOf
  <2>2. Unix(startup) => \A r \in Procs : proc'[r].alive => proc'[r].pid = {}
    BY <1>0, <1>2, Zenon DEF LInv, Server
  <2> QED BY <1>5, <2>1, <2>2, DaemonFrame, Zenon DEF LInv
<1> QED BY <1>6, <1>10, <1>11, <1>12, Zenon DEF LInv
-----------------------------------------------------------------------------
(* The invariant, and what follows from it.                                *)

\* At first one process runs and there are no connections.
LEMMA InitInv == ConstantsOK /\ Init => LInv
<1> SUFFICES ASSUME ConstantsOK, Init PROVE LInv
  BY Zenon
<1> DEFINE first == CHOOSE p \in Procs : TRUE
           start(p) == [Fresh EXCEPT !.alive = (p = first), !.born = (p = first)]
<1>0. <<>> \in Seq(Messages) /\ 0 \in Versions
  BY DEF Versions, ConstantsOK
<1>1. conn = [i \in Conns |-> NoConn] /\ NoConn \in Connection
  BY <1>0, ZenonT(40) DEF Init, ServerInit, NoConn, Connection, Ends, ChildSteps
<1>2. proc = [p \in Procs |-> start(p)]
  BY ZenonT(40) DEF Init
<1>3. ASSUME NEW p \in Procs
      PROVE  /\ proc[p] \in Process
             /\ proc[p].alive <=> p = first
             /\ proc[p].born <=> p = first
             /\ proc[p].sock = {} /\ proc[p].fd = FALSE /\ proc[p].pid = {}
             /\ proc[p].pc = "idle" /\ proc[p].tries = 0 /\ proc[p].forkid = {}
  <2>1. proc[p] = start(p)
    BY <1>2, ZenonT(40)
  <2>2. Fresh \in Process
    BY <1>0, Zenon DEF Fresh, Process
  <2> QED BY <2>1, <2>2, ZenonT(40) DEF Process, Fresh
<1> HIDE DEF first, start
<1>4. Typed
  <2>1. proc \in [Procs -> Process]
    BY <1>2, <1>3, Zenon
  <2>2. conn \in [Conns -> Connection]
    BY <1>1, Zenon
  <2> QED BY <2>1, <2>2, Zenon DEF Typed, Init, ServerInit, DaemonSteps
<1>5. Processes
  BY <1>3, OffPOK, Zenon DEF Processes, Retrying
<1>6. Parents
  BY <1>3, Zenon DEF Parents
<1>7. Server
  <2>1. \A i \in Conns : conn[i].daemon = "none" /\ conn[i].child = "none"
    BY <1>1, Zenon DEF NoConn
  <2>2. Children = {}
    BY <2>1, Zenon DEF Children
  <2>3. Cardinality(Children) = 0
    BY <2>2, FS_EmptySet, Zenon
  <2>4. ~Unix(startup) => startup.transport = "exec"
    BY Zenon DEF Init, ServerInit, ConstantsOK, Unix
  <2> QED BY <1>3, <2>1, <2>3, <2>4, ZenonT(40) DEF Server, Init, ServerInit
<1> QED BY <1>4, <1>5, <1>6, <1>7, Zenon DEF LInv

\* Every step keeps the invariant.
LEMMA NextInv == ConstantsOK /\ LInv /\ [Next]_vars => LInv'
<1> SUFFICES ASSUME ConstantsOK, LInv, [Next]_vars PROVE LInv'
  BY Zenon
<1>1. CASE ServerActs /\ UNCHANGED <<proc, calls>>
  BY <1>1, ServerTyped, ServerProcesses, ServerServer, Zenon DEF LInv
<1>2. CASE Remote
  BY <1>2, RemoteStep, Zenon
<1>3. ASSUME NEW p \in Procs, Client(p) PROVE LInv'
  <2>1. UNCHANGED <<startup, loop>>
    BY <1>3, Zenon DEF Client, Running
  <2>2. CASE Continue(p)
    BY <2>1, <2>2, ContinueStep, Zenon
  <2>3. CASE Initialize(p) \/ Call(p) \/ Finalize(p)
    BY <2>1, <2>3, CallStep, Zenon
  <2>4. CASE ForkProcess(p)
    BY <2>1, <2>4, ForkStep, Zenon
  <2>5. CASE ExitProcess(p)
    BY <2>1, <2>5, ExitStep, Zenon
  <2> QED BY <1>3, <2>2, <2>3, <2>4, <2>5, Zenon DEF Client, Running, Start
<1>4. CASE UNCHANGED vars
  BY <1>4, StutterStep, Zenon DEF vars, server
<1> QED BY <1>1, <1>2, <1>3, <1>4, Zenon DEF Next, ServerActs, Finished

\* The daemon never counts more remotes than there are connections.
LEMMA CountBounded ==
    ASSUME ConstantsOK, LInv
    PROVE  children_avail \in 0 .. Cardinality(Conns)
<1>1. IsFiniteSet(Conns) /\ Children \in SUBSET Conns
  BY Zenon DEF ConstantsOK, Children
<1>2. Cardinality(Children) <= Cardinality(Conns) /\ Cardinality(Conns) \in Nat
  BY <1>1, FS_Subset, FS_CardinalityType, Zenon
<1>3. children_avail \in Nat /\ (children_avail = Cardinality(Children) \/ children_avail = 0)
  BY Zenon DEF LInv, Typed, Server
<1> QED BY <1>2, <1>3

(* The inductive invariant holds of every behaviour.                         *)
THEOREM LinkInvariant ==
    ASSUME ConstantsOK
    PROVE  Spec => []LInv
<1>1. Init => LInv
  BY InitInv, Zenon
<1>2. LInv /\ [Next]_vars => LInv'
  BY NextInv, Zenon
<1> QED BY <1>1, <1>2, PTL DEF Spec

(* The variables of the daemon, of the connections and of the clients have   *)
(* their types; children_avail never exceeds the number of connections.      *)
THEOREM LinkTypeCorrect ==
    ASSUME ConstantsOK
    PROVE  Spec => []TypeOK
<1>1. LInv => TypeOK
  <2> SUFFICES ASSUME LInv PROVE TypeOK
    BY Zenon
  <2>1. \A i \in Conns : conn[i].holders \subseteq Procs
    BY Zenon DEF LInv, Typed, Connection
  <2>2. \A p \in Procs : proc[p].sock \subseteq Conns /\ proc[p].version \in 0 .. VERSION_MAXIMUM
    BY Zenon DEF LInv, Typed, Process, Versions
  <2> QED BY <2>1, <2>2, CountBounded, Zenon
             DEF TypeOK, LInv, Typed, DaemonSteps
<1> QED BY <1>1, LinkInvariant, PTL DEF Spec

(* Whatever a process does, and however its parent and it go on after a fork, *)
(* it writes to and reads from none but a connection that it opened itself.   *)
THEOREM ConnectionsAreOwn ==
    ASSUME ConstantsOK
    PROVE  Spec => []OwnConnection
<1>1. LInv => OwnConnection
  BY ZenonT(40) DEF LInv, Processes, POK, OwnConnection, Talking, Greeting,
     InUse
<1> QED BY <1>1, LinkInvariant, PTL DEF Spec

(* Once rpc_C_Initialize is through, the process and the remote go by the     *)
(* same protocol version, the newest that both know unless a remote ended     *)
(* before it answered.                                                        *)
THEOREM VersionsAlwaysAgree ==
    ASSUME ConstantsOK
    PROVE  Spec => []VersionsAgree
<1>1. LInv => VersionsAgree
  BY Zenon DEF LInv, Processes, POK, Speaks, Newest, VersionsAgree
<1> QED BY <1>1, LinkInvariant, PTL DEF Spec

(* The timeout of server_loop ends the daemon only when no remote is left:    *)
(* children_avail is exact, for a remote that ended as for one that runs.     *)
THEOREM TimeoutAlwaysSpares ==
    ASSUME ConstantsOK
    PROVE  Spec => TimeoutSpares
<1>1. LInv /\ [Next]_vars => [SparesRemotes]_vars
  <2> SUFFICES ASSUME LInv, Next, daemon = "select", daemon' = "leave",
                      NEW i \in Conns
               PROVE  conn[i].child \notin {"auth", "serving"}
    BY Zenon DEF SparesRemotes
  <2>1. Timeout
    <3>1. daemon' # daemon
      BY Zenon
    <3>2. ServerActs
      BY <3>1, Zenon
         DEF Next, ServerActs, Remote, Client, Running, loop, Finished,
         vars, server
    <3> QED BY <3>2, Zenon DEF ServerActs, ServerStep, Kill, main, Daemonize,
               create_socket,
               BlockSignals, Top, Enter, Accept, Fork, Leave, Deliver, Handle
  <2>2. children_avail = 0
    BY <2>1, Zenon DEF Timeout
  <2>3. Unix(startup)
    BY Zenon DEF LInv, Server
  <2>4. Cardinality(Children) = 0 /\ IsFiniteSet(Children)
    BY <2>2, <2>3, ChildrenFinite, Zenon DEF LInv, Server
  <2>5. Children = {}
    BY <2>4, FS_EmptySet, Zenon
  <2> QED BY <2>5, Zenon DEF Children
<1> QED BY <1>1, LinkInvariant, PTL DEF Spec, TimeoutSpares
=============================================================================
