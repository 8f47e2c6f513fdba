---------------------------- MODULE HlspxdServer ----------------------------
(***************************************************************************)
(* hlspxd as processes: the server of HttpServer::Run (utils.cpp) and main *)
(* (hlspxd.cpp), which accepts connections and forks a child for each, and *)
(* the children, whose sessions are the subject of HlsViewer.              *)
(*                                                                         *)
(* What matters here is which process holds which socket, since a socket   *)
(* is only closed when its last holder has closed it, and at which points  *)
(* a signal is noticed, ignored or deadly.                                 *)
(***************************************************************************)
EXTENDS Naturals

CONSTANTS
    Clients,      \* the connections that come in; each child serves one
    Listen,       \* the listening socket
    MaxSignals    \* bound of the model: signals ever sent

ASSUME HlspxdServerAssumption ==
    Listen \notin Clients /\ MaxSignals \in Nat

VARIABLES
    pc,           \* where the server is
    AsDaemon,     \* not started with --console
    hidden,       \* HideSignals has installed its handlers
    current,      \* ClientSocket of the server, in a set
    ListenSocket, \* the processes that hold the listening socket
    holders,      \* for a connection, the processes that hold it
    child,        \* for a connection, where its child is
    conns,        \* the connections waiting to be accepted
    signals       \* signals sent

vars == <<pc, AsDaemon, hidden, current, ListenSocket, holders, child, conns, signals>>
parent == <<pc, AsDaemon, hidden, current>>

(* A process is named by the connection it serves, the server by Listen.   *)
Server    == Listen
Processes == Clients \union {Server}

Alive(c) == child[c] \notin {"none", "gone"}

Init ==
    /\ pc = "boot" /\ AsDaemon \in BOOLEAN /\ hidden = FALSE
    /\ current = {} /\ ListenSocket = {}
    /\ holders = [c \in Clients |-> {}] /\ child = [c \in Clients |-> "none"]
    /\ conns = {} /\ signals = 0

-----------------------------------------------------------------------------
(* Fault: the children do not hear of it.                                  *)
ServerEnds_Silent ==
    /\ pc' = "exit" /\ current' = {}
    /\ ListenSocket' = ListenSocket \ {Server}
    /\ holders' = [c \in Clients |-> holders[c] \ {Server}]
    /\ UNCHANGED child

(* What the end of the server does: its sockets are closed, and a child    *)
(* that has asked for it with PR_SET_PDEATHSIG gets a SIGHUP, which is     *)
(* lost on one that has no vview yet.  Stop closes the client's socket.    *)
ServerEnds ==
    /\ pc' = "exit" /\ current' = {}
    /\ ListenSocket' = ListenSocket \ {Server}
    /\ child' = [c \in Clients |-> IF child[c] = "running" THEN "stopping"
                                   ELSE child[c]]
    /\ holders' = [c \in Clients |->
                      holders[c] \ ({Server} \union
                                    (IF child[c] = "running" THEN {c} ELSE {}))]

(* main up to srv.Run: daemon and HideSignals, which may fail, or neither  *)
(* with --console.                                                         *)
Start ==
    /\ pc = "boot"
    /\ \/ /\ pc' = "listen" /\ hidden' = AsDaemon
          /\ UNCHANGED <<current, ListenSocket, holders, child>>
       \/ AsDaemon /\ ServerEnds /\ UNCHANGED hidden
    /\ UNCHANGED <<AsDaemon, conns, signals>>

(* socket, bind and listen; any of them may fail.                          *)
OpenPort ==
    /\ pc = "listen"
    /\ \/ /\ ListenSocket' = {Server} /\ pc' = "accept"
          /\ UNCHANGED <<current, holders, child>>
       \/ ServerEnds
    /\ UNCHANGED <<AsDaemon, hidden, conns, signals>>

Accept ==
    /\ pc = "accept"
    /\ \E c \in conns :
          /\ current' = {c}
          /\ holders' = [holders EXCEPT ![c] = {Server}]
          /\ conns' = conns \ {c}
    /\ pc' = "fork"
    /\ UNCHANGED <<AsDaemon, hidden, ListenSocket, child, signals>>

(* accept fails, other than with EINTR: the exception ends main.           *)
AcceptFails ==
    /\ pc = "accept"
    /\ ServerEnds
    /\ UNCHANGED <<AsDaemon, hidden, conns, signals>>

(* The child starts with all the server holds.  fork may fail.             *)
Fork ==
    /\ pc = "fork"
    /\ \/ \E c \in current :
             /\ child' = [child EXCEPT ![c] = "forked"]
             /\ ListenSocket' = ListenSocket \union {c}
             /\ holders' = [d \in Clients |-> IF Server \in holders[d]
                                              THEN holders[d] \union {c}
                                              ELSE holders[d]]
       \/ UNCHANGED <<child, ListenSocket, holders>>
    /\ pc' = "close"
    /\ UNCHANGED <<AsDaemon, hidden, current, conns, signals>>

(* Faults: the socket stays open; it does if there is no child.            *)
CloseClient_Never ==
    /\ pc = "close" /\ pc' = "accept" /\ current' = {}
    /\ UNCHANGED <<AsDaemon, hidden, ListenSocket, holders, child, conns, signals>>

CloseClient_IfForked ==
    /\ pc = "close" /\ pc' = "accept" /\ current' = {}
    /\ holders' = [c \in Clients |-> IF c \in current /\ child[c] # "none"
                                     THEN holders[c] \ {Server} ELSE holders[c]]
    /\ UNCHANGED <<AsDaemon, hidden, ListenSocket, child, conns, signals>>

(* closesocket(ClientSocket), in the server and when fork failed.          *)
CloseClient ==
    /\ pc = "close"
    /\ holders' = [c \in Clients |-> IF c \in current THEN holders[c] \ {Server}
                                     ELSE holders[c]]
    /\ current' = {}
    /\ pc' = "accept"
    /\ UNCHANGED <<AsDaemon, hidden, ListenSocket, child, conns, signals>>

-----------------------------------------------------------------------------
(* A child *)

(* Fault: the child keeps the listening socket.                            *)
CloseListen_Never(c) ==
    /\ child[c] = "forked"
    /\ child' = [child EXCEPT ![c] = "default"]
    /\ UNCHANGED <<parent, ListenSocket, holders, conns, signals>>

CloseListen(c) ==
    /\ child[c] = "forked"
    /\ ListenSocket' = ListenSocket \ {c}
    /\ child' = [child EXCEPT ![c] = "default"]
    /\ UNCHANGED <<parent, holders, conns, signals>>

(* sigaction(SIGHUP), from where on SIGHUP no longer kills.                *)
HandleHup(c) ==
    /\ child[c] = "default"
    /\ child' = [child EXCEPT ![c] = "deaf"]
    /\ UNCHANGED <<parent, ListenSocket, holders, conns, signals>>

(* prctl, and then the constructor of VideoViewer reads the request.  A    *)
(* server that has gone by then is never heard of.                         *)
ReadRequest(c) ==
    /\ child[c] = "deaf"
    /\ child' = [child EXCEPT ![c] = "reading"]
    /\ UNCHANGED <<parent, ListenSocket, holders, conns, signals>>

(* vview is set.                                                           *)
RunViewer(c) ==
    /\ child[c] = "reading"
    /\ child' = [child EXCEPT ![c] = "running"]
    /\ UNCHANGED <<parent, ListenSocket, holders, conns, signals>>

ChildEnds(c) ==
    /\ child' = [child EXCEPT ![c] = "gone"]
    /\ ListenSocket' = ListenSocket \ {c}
    /\ holders' = [d \in Clients |-> holders[d] \ {c}]

(* The request is no good: an exception ends the child.                    *)
BadRequest(c) ==
    /\ child[c] = "reading"
    /\ ChildEnds(c)
    /\ UNCHANGED <<parent, conns, signals>>

(* The session ends by itself, which a live stream need not do, or because *)
(* it has been stopped (SessionEnds of HlsViewer).                         *)
RunReturns(c) ==
    /\ child[c] \in {"running", "stopping"}
    /\ ChildEnds(c)
    /\ UNCHANGED <<parent, conns, signals>>

-----------------------------------------------------------------------------
(* Signals, from killall, an operator or the kernel *)

(* handle_quitsigs does nothing, but accept returns with EINTR.            *)
TermServer ==
    /\ pc # "exit" /\ signals < MaxSignals
    /\ signals' = signals + 1
    /\ IF ~hidden \/ pc = "accept" THEN ServerEnds
       ELSE UNCHANGED <<pc, current, ListenSocket, holders, child>>
    /\ UNCHANGED <<AsDaemon, hidden, conns>>

(* Nobody handles SIGHUP in the server.                                    *)
HupServer ==
    /\ pc # "exit" /\ signals < MaxSignals
    /\ signals' = signals + 1
    /\ ServerEnds
    /\ UNCHANGED <<AsDaemon, hidden, conns>>

(* A child has the handlers of the server.  SIGTERM makes a select in it   *)
(* fail, if it is in one.                                                  *)
TermChild(c) ==
    /\ Alive(c) /\ signals < MaxSignals
    /\ signals' = signals + 1
    /\ \/ /\ ~hidden \/ child[c] \in {"reading", "running", "stopping"}
          /\ ChildEnds(c)
       \/ hidden /\ UNCHANGED <<child, ListenSocket, holders>>
    /\ UNCHANGED <<parent, conns>>

(* Fault: Stop marks the session but does not close the stream.            *)
HupChild_Open(c) ==
    /\ Alive(c) /\ signals < MaxSignals
    /\ signals' = signals + 1
    /\ CASE child[c] \in {"forked", "default"} -> ChildEnds(c)
         [] child[c] = "running" ->
              /\ child' = [child EXCEPT ![c] = "stopping"]
              /\ UNCHANGED <<holders, ListenSocket>>
         [] OTHER -> UNCHANGED <<child, ListenSocket, holders>>
    /\ UNCHANGED <<parent, conns>>

HupChild(c) ==
    /\ Alive(c) /\ signals < MaxSignals
    /\ signals' = signals + 1
    /\ CASE child[c] \in {"forked", "default"} -> ChildEnds(c)
         [] child[c] = "running" ->
              /\ child' = [child EXCEPT ![c] = "stopping"]
              /\ holders' = [holders EXCEPT ![c] = @ \ {c}]
              /\ UNCHANGED ListenSocket
         [] OTHER -> UNCHANGED <<child, ListenSocket, holders>>
    /\ UNCHANGED <<parent, conns>>

(* A client connects, as long as anyone holds the listening socket.        *)
Connect(c) ==
    /\ ListenSocket # {}
    /\ c \notin conns /\ child[c] = "none" /\ holders[c] = {} /\ c \notin current
    /\ conns' = conns \union {c}
    /\ UNCHANGED <<parent, ListenSocket, holders, child, signals>>

Over ==
    /\ pc = "exit" /\ \A c \in Clients : ~Alive(c)
    /\ UNCHANGED vars

ServerSteps == Start \/ OpenPort \/ Accept \/ AcceptFails \/ Fork \/ CloseClient

(* What a child does without a client that has to do something first.      *)
ChildSteps(c) ==
    \/ CloseListen(c) \/ HandleHup(c) \/ ReadRequest(c)
    \/ child[c] = "stopping" /\ RunReturns(c)

Next ==
    \/ ServerSteps
    \/ \E c \in Clients :
          \/ CloseListen(c) \/ HandleHup(c) \/ ReadRequest(c) \/ RunViewer(c)
          \/ BadRequest(c) \/ RunReturns(c)
          \/ TermChild(c) \/ HupChild(c) \/ Connect(c)
    \/ TermServer \/ HupServer
    \/ Over

Spec == Init /\ [][Next]_vars

(* Processes run on.  Nothing is assumed of clients and streams.           *)
FairSpec ==
    /\ Spec
    /\ WF_vars(Start \/ OpenPort \/ Fork \/ CloseClient)
    /\ \A c \in Clients : WF_vars(ChildSteps(c))

-----------------------------------------------------------------------------
ChildStates == {"none", "forked", "default", "deaf", "reading", "running",
                "stopping", "gone"}

TypeOK ==
    /\ pc \in {"boot", "listen", "accept", "fork", "close", "exit"}
    /\ AsDaemon \in BOOLEAN /\ hidden \in BOOLEAN
    /\ current \in SUBSET Clients /\ (current # {} => pc \in {"fork", "close"})
    /\ ListenSocket \in SUBSET Processes
    /\ holders \in [Clients -> SUBSET Processes]
    /\ child \in [Clients -> ChildStates]
    /\ conns \in SUBSET Clients /\ signals \in 0 .. MaxSignals

(* A child never holds the connection of another client: the server has    *)
(* closed each before it forks for the next.  Otherwise a client would not *)
(* see the end of its session before other sessions end.                   *)
NoStrayDescriptor ==
    \A c \in Clients, d \in Clients : c \in holders[d] => c = d

(* What is inductive of NoStrayDescriptor: a connection is held by its     *)
(* child and by the server only, and by the server only while it is the    *)
(* one just accepted.                                                      *)
DescriptorInv ==
    /\ TypeOK
    /\ \A c \in current, d \in current : c = d
    /\ \A c \in Clients : /\ holders[c] \subseteq {Server, c}
                          /\ Server \in holders[c] => c \in current

(* Which sockets are open in which state, whatever signals come and        *)
(* whichever calls fail: only a child just forked still has the listening  *)
(* socket; a connection has one child, once, and is open in it only while  *)
(* its session has not been stopped, so that a client sees its end at once *)
(* and not only when the child is done with the playlist or a segment.     *)
Serving == {"forked", "default", "deaf", "reading", "running"}

Fresh(c) == c \in conns \/ (pc = "fork" /\ c \in current)

ServiceInv ==
    /\ DescriptorInv
    /\ conns \intersect current = {}
    /\ Server \in ListenSocket => pc \in {"accept", "fork", "close"}
    /\ \A c \in Clients : /\ c \in ListenSocket => child[c] = "forked"
                          /\ c \in holders[c] => child[c] \in Serving
                          /\ Fresh(c) => child[c] = "none"

(* A server that has ended leaves its port to the next one, although the   *)
(* sessions go on: the children let go of the listening socket.            *)
PortFreed == pc = "exit" ~> ListenSocket = {}

(* The client of a session that is over, was stopped or could not be       *)
(* started is told: in the end nobody holds its connection any more.       *)
Abandoned(c) == holders[c] # {} /\ child[c] \in {"none", "stopping", "gone"}
ClientsReleased == \A c \in Clients : Abandoned(c) ~> ~Abandoned(c)

(* The sessions that run when the server ends end after it; those whose    *)
(* request is still being read do not have to.                             *)
SessionsFollowServer ==
    \A c \in Clients :
       [](child[c] = "running" /\ pc # "exit" =>
             [](pc = "exit" => <>(child[c] = "gone")))
=============================================================================
