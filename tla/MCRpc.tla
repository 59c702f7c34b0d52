-------------------------------- MODULE MCRpc --------------------------------
(* The transports of p11-kit's remoting, side by side: threads that share a  *)
(* socket, the frames on it, and the daemon with its clients and remotes.  A *)
(* behaviour is one of the part chosen at the start: the variables of the    *)
(* socket are as in RpcSocket, and keep their first values in the other      *)
(* parts, whose variables share v1 to v13.                                   *)
EXTENDS RpcSocket

CONSTANTS
    Parts,      \* the parts to look at
    Procs       \* see RpcLink

VARIABLES part, v1, v2, v3, v4, v5, v6, v7, v8, v9, v10, v11, v12, v13

others == <<part, v1, v2, v3, v4, v5, v6, v7, v8, v9, v10, v11, v12, v13>>
allvars == <<vars, others>>
Unused == "unused"
From11 == v11 = Unused /\ v12 = Unused /\ v13 = Unused
AllUnused == /\ v1 = Unused /\ v2 = Unused /\ v3 = Unused /\ v4 = Unused /\ v5 = Unused
             /\ v6 = Unused /\ v7 = Unused /\ v8 = Unused /\ v9 = Unused /\ v10 = Unused
             /\ From11

\* Four calls over a connection that lasts; three when it does not
FourOrThree == [m \in {{}, {"hangup", "finalize"}} |-> IF m = {} THEN 4 ELSE 3]
HangupOnly == [m \in {{"hangup"}} |-> 3]

\* Frames with and without options and data, each of another length
SomeFrames == {[code |-> 16, options |-> <<21>>, data |-> <<31, 32>>],
               [code |-> 17, options |-> <<22, 23, 24>>, data |-> <<33>>],
               [code |-> 18, options |-> <<>>, data |-> <<34, 35, 36, 37>>],
               [code |-> 19, options |-> <<>>, data |-> <<>>]}
Frame == INSTANCE RpcFrame WITH
    Frames <- SomeFrames, MaxFrames <- 2,
    sent <- v1, inbound <- v2, outbound <- v3, open <- v4, serve <- v5, state <- v6,
    code <- v7, options <- v8, buffer <- v9, handled <- v10
ASSUME FrameConstants == Frame!ConstantsOK

Usual == [transport |-> "unix", foreground |-> FALSE, timeout |-> TRUE, listens |-> TRUE,
          peer |-> "expected", forkFails |-> FALSE, old |-> FALSE, moduleFails |-> FALSE,
          remoteFails |-> FALSE, killed |-> FALSE]
Piped == [Usual EXCEPT !.transport = "exec"]
SomeStartups ==
    {Usual, Piped,
     [Usual EXCEPT !.timeout = FALSE, !.killed = TRUE],
     [Usual EXCEPT !.timeout = FALSE, !.forkFails = TRUE],
     [Usual EXCEPT !.peer = "stranger", !.foreground = TRUE],
     [Usual EXCEPT !.listens = FALSE],
     [Piped EXCEPT !.old = TRUE],
     [Piped EXCEPT !.remoteFails = TRUE],
     [Piped EXCEPT !.moduleFails = TRUE]}
Link == INSTANCE RpcLink WITH
    Conns <- {1, 2, 3}, Startups <- SomeStartups, VERSION_MAXIMUM <- 1, MaxCalls <- 2,
    startup <- v1, daemon <- v2, socket <- v3, printed <- v4,
    need_children_cleanup <- v5, terminate <- v6, children_avail <- v7,
    blocked <- v8, pending <- v9, cfd <- v10, conn <- v11, proc <- v12, calls <- v13
ASSUME LinkConstants == Link!ConstantsOK
-----------------------------------------------------------------------------
MCInit ==
    /\ Init
    /\ part \in Parts
    /\ \/ part = "socket" /\ AllUnused
       \/ part = "frame" /\ Frame!Init /\ From11
       \/ part = "link" /\ Link!Init
    /\ part # "socket" => may = CHOOSE m \in Troubles : TRUE

\* The threads of the socket may have made all their calls.
Done == part = "socket" /\ UNCHANGED allvars

MCNext ==
    \/ part = "socket" /\ Next /\ UNCHANGED others
    \/ part = "frame" /\ Frame!Next /\ UNCHANGED <<vars, part, v11, v12, v13>>
    \/ part = "link" /\ Link!Next /\ UNCHANGED <<vars, part>>
    \/ Done

\* The fairness of RpcSocket and RpcLink, each in its part
SocketStep(A) == part = "socket" /\ A /\ UNCHANGED <<may, others>>
LinkStep(A) == part = "link" /\ A /\ UNCHANGED <<vars, part>>
MCFairness ==
    /\ \A t \in Threads : SF_allvars(SocketStep(ThreadStep(t)))
    /\ WF_allvars(SocketStep(AnswerHeader))
    /\ WF_allvars(SocketStep(AnswerBody))
    /\ WF_allvars(LinkStep(Link!Serving))
    /\ WF_allvars(LinkStep(Link!Remote))
    /\ \A p \in Procs : WF_allvars(LinkStep(Link!Running(p)))

MCSpec == MCInit /\ [][MCNext]_allvars /\ MCFairness
-----------------------------------------------------------------------------
(* The remote handles the frames that were sent, whole and in order, however *)
(* the stream is cut up, see RpcFrame.                                       *)
FramesIntact == part = "frame" => Frame!FramesIntact

(* A process only ever talks over a connection that it opened itself, in the *)
(* protocol version both ends have agreed on: OwnConnection and              *)
(* VersionsAgree of RpcLink.                                                 *)
OwnConnection ==
    part = "link" => Link!TypeOK /\ Link!OwnConnection /\ Link!VersionsAgree

(* Every call returns: in each thread that shares a socket, as long as the   *)
(* connection lasts, and in each process that uses a daemon or a pipe,       *)
(* whatever becomes of these; see RpcSocket and RpcLink.  The threads are    *)
(* interchangeable, so one stands for all.                                   *)
CallsReturn ==
    /\ LET t == CHOOSE u \in Threads : TRUE
       IN  (part = "socket" /\ InCall(t)) ~> (part = "socket" => At(t, "idle"))
    /\ \A p \in Procs :
          (part = "link" /\ Link!InCall(p)) ~> (part = "link" => ~Link!InCall(p))

(* A daemon with a timeout exits once its clients are gone, and not as long  *)
(* as one of its remotes is there: IdleExits and TimeoutSpares of RpcLink.   *)
IdleExits ==
    /\ (part = "link" /\ Link!Idle) ~> (part = "link" => v2 = "gone")
    /\ [][part = "link" => Link!SparesRemotes]_allvars
==============================================================================
