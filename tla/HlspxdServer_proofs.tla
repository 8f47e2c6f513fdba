------------------------- MODULE HlspxdServer_proofs -------------------------
(* Proofs about HlspxdServer, for any set of clients and any number of     *)
(* signals.                                                                *)
EXTENDS HlspxdServer, TLAPS

(* The end of the server, from whatever causes it.                         *)
LEMMA EndStep ==
    ASSUME DescriptorInv, ServerEnds
    PROVE  /\ pc' = "exit" /\ current' = {} /\ ListenSocket' \in SUBSET Processes
           /\ child' \in [Clients -> ChildStates]
           /\ holders' \in [Clients -> SUBSET Processes]
           /\ \A c \in Clients : holders'[c] \subseteq holders[c] \ {Server}
<1>1. /\ pc' = "exit" /\ current' = {} /\ ListenSocket' \in SUBSET Processes
      /\ child' \in [Clients -> ChildStates]
  BY DEF ServerEnds, DescriptorInv, TypeOK, ChildStates
<1>2. /\ holders' \in [Clients -> SUBSET Processes]
      /\ \A c \in Clients : holders'[c] \subseteq holders[c] \ {Server}
  BY DEF ServerEnds, DescriptorInv, TypeOK
<1> QED
  BY <1>1, <1>2

(* The end of a child takes every socket it holds with it.                 *)
LEMMA ChildEndStep ==
    ASSUME DescriptorInv, NEW c \in Clients, ChildEnds(c)
    PROVE  /\ ListenSocket' \in SUBSET Processes
           /\ child' \in [Clients -> ChildStates]
           /\ holders' \in [Clients -> SUBSET Processes]
           /\ \A d \in Clients : holders'[d] \subseteq holders[d]
  BY DEF ChildEnds, DescriptorInv, TypeOK, ChildStates

(* Steps that open no socket: they keep the invariant, whatever they close.*)
LEMMA ClosingStep ==
    ASSUME DescriptorInv, TypeOK',
           \A c \in Clients : holders'[c] \subseteq holders[c],
           \/ current' = current
           \/ current' = {} /\ \A c \in Clients : Server \notin holders'[c]
    PROVE  DescriptorInv'
  BY DEF DescriptorInv

LEMMA InvInit == Init => DescriptorInv
<1> SUFFICES ASSUME Init PROVE DescriptorInv
  OBVIOUS
<1>1. TypeOK
  <2>1. holders \in [Clients -> SUBSET Processes] /\ child \in [Clients -> ChildStates]
    BY DEF Init, ChildStates
  <2>2. signals \in 0 .. MaxSignals
    BY HlspxdServerAssumption DEF Init
  <2> QED
    BY <2>1, <2>2 DEF Init, TypeOK
<1> QED
  BY <1>1 DEF Init, DescriptorInv

LEMMA InvStep == DescriptorInv /\ [Next]_vars => DescriptorInv'
<1> SUFFICES ASSUME DescriptorInv, [Next]_vars PROVE DescriptorInv'
  OBVIOUS
<1> USE HlspxdServerAssumption
<1>t. TypeOK
  BY DEF DescriptorInv
<1>1. CASE Start
  <2>1. CASE UNCHANGED <<current, ListenSocket, holders, child>>
    <3>1. TypeOK'
      BY <1>1, <1>t, <2>1 DEF Start, ServerEnds, TypeOK
    <3> QED
      BY <2>1, <3>1, ClosingStep
  <2>2. CASE ServerEnds /\ UNCHANGED hidden
    <3>1. TypeOK'
      BY <1>1, <1>t, <2>2, EndStep DEF Start, TypeOK, ChildStates
    <3> QED
      BY <2>2, <3>1, EndStep, ClosingStep
  <2> QED
    BY <1>1, <2>1, <2>2 DEF Start
<1>2. CASE OpenPort
  <2>1. CASE ListenSocket' = {Server} /\ pc' = "accept" /\ UNCHANGED <<current, holders, child>>
    <3>1. TypeOK'
      <4>1. current = {}
        BY <1>2, <1>t DEF OpenPort, TypeOK
      <4> QED
        BY <1>2, <1>t, <2>1, <4>1 DEF OpenPort, TypeOK, Processes
    <3> QED
      BY <2>1, <3>1, ClosingStep
  <2>2. CASE ServerEnds
    <3>1. TypeOK'
      BY <1>2, <1>t, <2>2, EndStep DEF OpenPort, TypeOK, ChildStates
    <3> QED
      BY <2>2, <3>1, EndStep, ClosingStep
  <2> QED
    BY <1>2, <2>1, <2>2 DEF OpenPort
<1>3. CASE Accept
  <2>1. PICK c \in conns : /\ current' = {c}
                           /\ holders' = [holders EXCEPT ![c] = {Server}]
                           /\ conns' = conns \ {c}
    BY <1>3 DEF Accept
  <2>2. c \in Clients /\ current = {}
    BY <1>3, <1>t DEF Accept, TypeOK
  <2>3. TypeOK'
    BY <1>3, <1>t, <2>1, <2>2 DEF Accept, TypeOK, Processes
  <2>4. \A d \in Clients : Server \notin holders[d]
    BY <2>2 DEF DescriptorInv
  <2> QED
    BY <1>t, <2>1, <2>2, <2>3, <2>4 DEF DescriptorInv, TypeOK
<1>4. CASE AcceptFails
  <2>1. TypeOK'
    BY <1>4, <1>t, EndStep DEF AcceptFails, TypeOK, ChildStates
  <2> QED
    BY <1>4, <2>1, EndStep, ClosingStep DEF AcceptFails
<1>5. CASE Fork
  <2>1. CASE UNCHANGED <<child, ListenSocket, holders>>
    <3>1. TypeOK'
      BY <1>5, <1>t, <2>1 DEF Fork, TypeOK
    <3> QED
      BY <1>5, <2>1, <3>1, ClosingStep DEF Fork
  <2>2. CASE ~UNCHANGED <<child, ListenSocket, holders>>
    <3>1. PICK c \in current :
             /\ child' = [child EXCEPT ![c] = "forked"]
             /\ ListenSocket' = ListenSocket \union {c}
             /\ holders' = [d \in Clients |-> IF Server \in holders[d]
                                              THEN holders[d] \union {c}
                                              ELSE holders[d]]
      BY <1>5, <2>2 DEF Fork
    <3>2. c \in Clients
      BY <1>t DEF TypeOK
    <3>3. TypeOK'
      <4>1. child' \in [Clients -> ChildStates]
        BY <1>t, <3>1, <3>2 DEF TypeOK, ChildStates
      <4>2. ListenSocket' \in SUBSET Processes /\ holders' \in [Clients -> SUBSET Processes]
        BY <1>t, <3>1, <3>2 DEF TypeOK, Processes
      <4> QED
        BY <1>5, <1>t, <4>1, <4>2 DEF Fork, TypeOK
    <3>4. UNCHANGED current
      BY <1>5 DEF Fork
    <3>5. ASSUME NEW d \in Clients
          PROVE  /\ holders'[d] \subseteq {Server, d}
                 /\ Server \in holders'[d] => d \in current'
      <4>1. CASE Server \in holders[d]
        <5>1. d = c
          BY <3>1, <4>1 DEF DescriptorInv
        <5> QED
          BY <3>1, <3>4, <4>1, <5>1 DEF DescriptorInv
      <4>2. CASE Server \notin holders[d]
        BY <3>1, <4>2 DEF DescriptorInv
      <4> QED
        BY <4>1, <4>2
    <3> QED
      BY <3>3, <3>4, <3>5 DEF DescriptorInv
  <2> QED
    BY <2>1, <2>2
<1>6. CASE CloseClient
  <2>1. TypeOK'
    BY <1>6, <1>t DEF CloseClient, TypeOK
  <2>2. \A c \in Clients : holders'[c] \subseteq holders[c] /\ Server \notin holders'[c]
    BY <1>6 DEF CloseClient, DescriptorInv
  <2> QED
    BY <1>6, <2>1, <2>2, ClosingStep DEF CloseClient
<1>7. ASSUME NEW c \in Clients,
             CloseListen(c) \/ HandleHup(c) \/ ReadRequest(c) \/ RunViewer(c)
      PROVE  DescriptorInv'
  <2>1. child' \in [Clients -> ChildStates] /\ ListenSocket' \in SUBSET Processes
    BY <1>7, <1>t DEF CloseListen, HandleHup, ReadRequest, RunViewer, TypeOK, ChildStates
  <2>2. TypeOK'
    BY <1>7, <1>t, <2>1 DEF CloseListen, HandleHup, ReadRequest, RunViewer, parent, TypeOK
  <2> QED
    BY <1>7, <2>2, ClosingStep DEF CloseListen, HandleHup, ReadRequest, RunViewer, parent
<1>8. ASSUME NEW c \in Clients, ChildEnds(c), UNCHANGED <<parent, conns>>,
             signals' \in 0 .. MaxSignals
      PROVE  DescriptorInv'
  <2>1. TypeOK'
    BY <1>8, <1>t, ChildEndStep DEF parent, TypeOK, ChildStates
  <2> QED
    BY <1>8, <2>1, ChildEndStep, ClosingStep DEF parent
<1>9. ASSUME NEW c \in Clients, BadRequest(c) \/ RunReturns(c) PROVE DescriptorInv'
  BY <1>8, <1>9, <1>t DEF BadRequest, RunReturns, TypeOK
<1>s. signals < MaxSignals /\ signals' = signals + 1 => signals' \in 0 .. MaxSignals
  BY <1>t DEF TypeOK
<1>10. ASSUME NEW c \in Clients, TermChild(c) PROVE DescriptorInv'
  <2>1. CASE ChildEnds(c)
    BY <1>8, <1>10, <1>s, <2>1 DEF TermChild
  <2>2. CASE UNCHANGED <<child, ListenSocket, holders>>
    <3>1. TypeOK'
      BY <1>10, <1>s, <1>t, <2>2 DEF TermChild, parent, TypeOK
    <3> QED
      BY <1>10, <2>2, <3>1, ClosingStep DEF TermChild, parent
  <2> QED
    BY <1>10, <2>1, <2>2 DEF TermChild
<1>11. ASSUME NEW c \in Clients, HupChild(c) PROVE DescriptorInv'
  <2>1. CASE ChildEnds(c)
    BY <1>8, <1>11, <1>s, <2>1 DEF HupChild
  <2>2. CASE /\ child' = [child EXCEPT ![c] = "stopping"]
             /\ holders' = [holders EXCEPT ![c] = @ \ {c}]
             /\ UNCHANGED ListenSocket
    <3>1. TypeOK'
      <4>1. child' \in [Clients -> ChildStates] /\ holders' \in [Clients -> SUBSET Processes]
        BY <1>t, <2>2 DEF TypeOK, ChildStates
      <4> QED
        BY <1>11, <1>s, <1>t, <2>2, <4>1 DEF HupChild, parent, TypeOK
    <3>2. \A d \in Clients : holders'[d] \subseteq holders[d]
      BY <1>t, <2>2 DEF TypeOK
    <3> QED
      BY <1>11, <3>1, <3>2, ClosingStep DEF HupChild, parent
  <2>3. CASE UNCHANGED <<child, ListenSocket, holders>>
    <3>1. TypeOK'
      BY <1>11, <1>s, <1>t, <2>3 DEF HupChild, parent, TypeOK
    <3> QED
      BY <1>11, <2>3, <3>1, ClosingStep DEF HupChild, parent
  <2> QED
    BY <1>11, <2>1, <2>2, <2>3 DEF HupChild
<1>12. ASSUME NEW c \in Clients, Connect(c) PROVE DescriptorInv'
  <2>1. TypeOK'
    BY <1>12, <1>t DEF Connect, parent, TypeOK
  <2> QED
    BY <1>12, <2>1, ClosingStep DEF Connect, parent
<1>13. CASE TermServer
  <2>1. CASE ServerEnds
    <3>1. TypeOK'
      BY <1>13, <1>s, <1>t, <2>1, EndStep DEF TermServer, TypeOK, ChildStates
    <3> QED
      BY <2>1, <3>1, EndStep, ClosingStep
  <2>2. CASE UNCHANGED <<pc, current, ListenSocket, holders, child>>
    <3>1. TypeOK'
      BY <1>13, <1>s, <1>t, <2>2 DEF TermServer, TypeOK
    <3> QED
      BY <2>2, <3>1, ClosingStep
  <2> QED
    BY <1>13, <2>1, <2>2 DEF TermServer
<1>14. CASE HupServer
  <2>1. TypeOK'
    BY <1>14, <1>s, <1>t, EndStep DEF HupServer, TypeOK, ChildStates
  <2> QED
    BY <1>14, <2>1, EndStep, ClosingStep DEF HupServer
<1>15. CASE UNCHANGED vars
  <2>1. TypeOK'
    BY <1>15, <1>t DEF vars, TypeOK
  <2> QED
    BY <1>15, <2>1, ClosingStep DEF vars
<1> QED
  BY <1>1, <1>2, <1>3, <1>4, <1>5, <1>6, <1>7, <1>9, <1>10, <1>11, <1>12, <1>13,
     <1>14, <1>15
  DEF Next, ServerSteps, Over

(* The server holds no connection but the one it has just accepted, and    *)
(* hands that to one child only: accept, fork and closesocket of           *)
(* HttpServer::Run, in this order.                                         *)
THEOREM Invariant == Spec => []DescriptorInv
  BY InvInit, InvStep, PTL DEF Spec

(* Every variable keeps its type.                                          *)
THEOREM TypeCorrect == Spec => []TypeOK
<1>1. DescriptorInv => TypeOK
  BY DEF DescriptorInv
<1> QED
  BY <1>1, Invariant, PTL

(* A child never holds the connection of another client, whatever forks    *)
(* fail, whichever sockets fail and whatever signals come in between.      *)
THEOREM NoStrayDescriptors == Spec => []NoStrayDescriptor
<1>1. DescriptorInv => NoStrayDescriptor
  BY HlspxdServerAssumption DEF DescriptorInv, NoStrayDescriptor, Server
<1> QED
  BY <1>1, Invariant, PTL

-----------------------------------------------------------------------------
(* A child goes forward only, and a stopped session does not go on.        *)
Stage(state) ==
    CASE state = "none"    -> 0 [] state = "forked"  -> 1 [] state = "default"  -> 2
      [] state = "deaf"    -> 3 [] state = "reading" -> 4 [] state = "running"  -> 5
      [] state = "stopping" -> 6 [] state = "gone"   -> 7

Forward(c) == child'[c] = child[c] \/ Stage(child[c]) < Stage(child'[c])

LEMMA ServerEndsService ==
    ASSUME ServiceInv, DescriptorInv', ServerEnds, UNCHANGED conns
    PROVE  ServiceInv' /\ \A c \in Clients : Forward(c)
<1> USE HlspxdServerAssumption
<1>1. TypeOK
  BY DEF ServiceInv, DescriptorInv
<1>2. ASSUME NEW c \in Clients
      PROVE  /\ c \in ListenSocket' => child'[c] = "forked"
             /\ c \in holders'[c] => child'[c] \in Serving
             /\ Fresh(c)' => child'[c] = "none"
             /\ Forward(c)
  BY <1>1 DEF ServerEnds, ServiceInv, TypeOK, Fresh, Forward, Stage, Serving, Server
<1> QED
  BY <1>1, <1>2 DEF ServerEnds, ServiceInv, TypeOK

LEMMA ChildEndsService ==
    ASSUME ServiceInv, DescriptorInv', NEW c \in Clients, ChildEnds(c), Alive(c),
           UNCHANGED <<parent, conns>>
    PROVE  ServiceInv' /\ \A d \in Clients : Forward(d)
<1> USE HlspxdServerAssumption
<1>1. TypeOK
  BY DEF ServiceInv, DescriptorInv
<1>2. ASSUME NEW d \in Clients
      PROVE  /\ d \in ListenSocket' => child'[d] = "forked"
             /\ d \in holders'[d] => child'[d] \in Serving
             /\ Fresh(d)' => child'[d] = "none"
             /\ Forward(d)
  <2>1. CASE d = c
    BY <1>1, <2>1 DEF ChildEnds, Alive, parent, ServiceInv, TypeOK, ChildStates, Fresh,
                      Forward, Stage
  <2>2. CASE d # c
    BY <1>1, <2>2 DEF ChildEnds, parent, ServiceInv, TypeOK, Fresh, Forward
  <2> QED
    BY <2>1, <2>2
<1> QED
  BY <1>1, <1>2 DEF ChildEnds, parent, ServiceInv

LEMMA ServiceInit == Init => ServiceInv
  BY InvInit DEF Init, ServiceInv, Fresh

LEMMA ServiceStep ==
    ASSUME ServiceInv, [Next]_vars
    PROVE  ServiceInv' /\ \A c \in Clients : Forward(c)
<1> USE HlspxdServerAssumption
<1>0. TypeOK /\ DescriptorInv /\ DescriptorInv'
  BY InvStep DEF ServiceInv, DescriptorInv
<1>1. CASE UNCHANGED <<pc, current, ListenSocket, holders, child, conns>>
  BY <1>0, <1>1 DEF ServiceInv, Fresh, Forward
<1>2. CASE ServerEnds /\ UNCHANGED conns
  BY <1>0, <1>2, ServerEndsService
<1>3. ASSUME NEW c \in Clients, ChildEnds(c), Alive(c), UNCHANGED <<parent, conns>>
      PROVE  ServiceInv' /\ \A d \in Clients : Forward(d)
  BY <1>0, <1>3, ChildEndsService
<1>4. CASE Start
  BY <1>0, <1>2, <1>4 DEF Start, ServiceInv, Fresh, Forward
<1>5. CASE OpenPort
  BY <1>0, <1>2, <1>5 DEF OpenPort, ServiceInv, Fresh, Forward, Server
<1>6. CASE Accept
  BY <1>0, <1>6 DEF Accept, ServiceInv, TypeOK, Fresh, Forward, Server
<1>7. CASE AcceptFails
  BY <1>2, <1>7 DEF AcceptFails
<1>8. CASE Fork
  <2>1. CASE UNCHANGED <<child, ListenSocket, holders>>
    BY <1>0, <1>8, <2>1 DEF Fork, ServiceInv, Fresh, Forward
  <2>2. CASE ~UNCHANGED <<child, ListenSocket, holders>>
    <3>1. PICK c \in current :
             /\ child' = [child EXCEPT ![c] = "forked"]
             /\ ListenSocket' = ListenSocket \union {c}
             /\ holders' = [d \in Clients |-> IF Server \in holders[d]
                                              THEN holders[d] \union {c}
                                              ELSE holders[d]]
      BY <1>8, <2>2 DEF Fork
    <3>2. c \in Clients /\ child[c] = "none" /\ pc = "fork" /\ pc' = "close"
          /\ UNCHANGED <<conns, current>>
      BY <1>0, <1>8 DEF Fork, ServiceInv, TypeOK, Fresh
    <3>3. ASSUME NEW d \in Clients
          PROVE  /\ d \in ListenSocket' => child'[d] = "forked"
                 /\ d \in holders'[d] => child'[d] \in Serving
                 /\ Fresh(d)' => child'[d] = "none"
                 /\ Forward(d)
      <4>1. CASE d = c
        BY <1>0, <3>1, <3>2, <4>1 DEF ServiceInv, TypeOK, Serving, Fresh, Forward, Stage
      <4>2. CASE d # c
        BY <1>0, <3>1, <3>2, <4>2 DEF ServiceInv, TypeOK, Fresh, Forward
      <4> QED
        BY <4>1, <4>2
    <3> QED
      BY <1>0, <3>1, <3>2, <3>3 DEF ServiceInv, Server
  <2> QED
    BY <2>1, <2>2
<1>9. CASE CloseClient
  BY <1>0, <1>9 DEF CloseClient, ServiceInv, TypeOK, Fresh, Forward
<1>10. ASSUME NEW c \in Clients,
              CloseListen(c) \/ HandleHup(c) \/ ReadRequest(c) \/ RunViewer(c)
       PROVE  ServiceInv' /\ \A d \in Clients : Forward(d)
  <2>1. ASSUME NEW d \in Clients
        PROVE  /\ d \in ListenSocket' => child'[d] = "forked"
               /\ d \in holders'[d] => child'[d] \in Serving
               /\ Fresh(d)' => child'[d] = "none"
               /\ Forward(d)
    <3>1. CASE d = c
      BY <1>0, <1>10, <3>1
      DEF CloseListen, HandleHup, ReadRequest, RunViewer, parent, ServiceInv, TypeOK, Serving,
          Fresh, Forward, Stage
    <3>2. CASE d # c
      BY <1>0, <1>10, <3>2
      DEF CloseListen, HandleHup, ReadRequest, RunViewer, parent, ServiceInv, TypeOK,
          Fresh, Forward
    <3> QED
      BY <3>1, <3>2
  <2> QED
    BY <1>0, <1>10, <2>1
    DEF CloseListen, HandleHup, ReadRequest, RunViewer, parent, ServiceInv
<1>11. ASSUME NEW c \in Clients, BadRequest(c) \/ RunReturns(c)
       PROVE  ServiceInv' /\ \A d \in Clients : Forward(d)
  BY <1>3, <1>11 DEF BadRequest, RunReturns, Alive
<1>12. ASSUME NEW c \in Clients, TermChild(c)
       PROVE  ServiceInv' /\ \A d \in Clients : Forward(d)
  BY <1>1, <1>3, <1>12 DEF TermChild, parent
<1>13. ASSUME NEW c \in Clients, HupChild(c)
       PROVE  ServiceInv' /\ \A d \in Clients : Forward(d)
  <2>1. CASE ChildEnds(c)
    BY <1>3, <1>13, <2>1 DEF HupChild
  <2>2. CASE UNCHANGED <<child, ListenSocket, holders>>
    BY <1>1, <1>13, <2>2 DEF HupChild, parent
  <2>3. CASE /\ child[c] = "running"
             /\ child' = [child EXCEPT ![c] = "stopping"]
             /\ holders' = [holders EXCEPT ![c] = @ \ {c}]
             /\ UNCHANGED ListenSocket
    <3>1. ASSUME NEW d \in Clients
          PROVE  /\ d \in ListenSocket' => child'[d] = "forked"
                 /\ d \in holders'[d] => child'[d] \in Serving
                 /\ Fresh(d)' => child'[d] = "none"
                 /\ Forward(d)
      BY <1>0, <1>13, <2>3
      DEF HupChild, parent, ServiceInv, TypeOK, Serving, Fresh, Forward, Stage
    <3> QED
      BY <1>0, <1>13, <2>3, <3>1 DEF HupChild, parent, ServiceInv
  <2> QED
    BY <1>13, <2>1, <2>2, <2>3 DEF HupChild
<1>14. ASSUME NEW c \in Clients, Connect(c)
       PROVE  ServiceInv' /\ \A d \in Clients : Forward(d)
  BY <1>0, <1>14 DEF Connect, parent, ServiceInv, Fresh, Forward
<1>15. CASE TermServer \/ HupServer
  BY <1>1, <1>2, <1>15 DEF TermServer, HupServer
<1>16. CASE UNCHANGED vars
  BY <1>1, <1>16 DEF vars
<1> QED
  BY <1>4, <1>5, <1>6, <1>7, <1>8, <1>9, <1>10, <1>11, <1>12, <1>13, <1>14, <1>15, <1>16
  DEF Next, ServerSteps, Over

(* What PortFreed, ClientsReleased and SessionsFollowServer rest on besides*)
(* fairness: which sockets the server and each child hold in which of their*)
(* states, and that a connection is served by one child, once.             *)
THEOREM ServiceInvariant == Spec => []ServiceInv
<1>1. ServiceInv /\ [Next]_vars => ServiceInv'
  BY ServiceStep
<1> QED
  BY <1>1, ServiceInit, PTL DEF Spec

(* When the server has ended its port is held by no one but children that  *)
(* are about to close it: neither a session nor the end of one can keep    *)
(* the port from the next server.                                          *)
THEOREM OnlyForkedHoldPort ==
    Spec => [](pc = "exit" => \A p \in ListenSocket : p \in Clients /\ child[p] = "forked")
<1>1. ServiceInv =>
         (pc = "exit" => \A p \in ListenSocket : p \in Clients /\ child[p] = "forked")
  BY DEF ServiceInv, DescriptorInv, TypeOK, Processes
<1> QED
  BY <1>1, ServiceInvariant, PTL

(* An abandoned connection is held by the server alone, and by the server  *)
(* only while it is between accept and closesocket.                        *)
SoonClosed ==
    \A c \in Clients : Abandoned(c) =>
        holders[c] = {Server} /\ c \in current /\ pc \in {"fork", "close"}

THEOREM AbandonedSoonClosed == Spec => []SoonClosed
<1>1. ServiceInv => SoonClosed
  BY HlspxdServerAssumption
  DEF ServiceInv, DescriptorInv, TypeOK, Abandoned, Serving, SoonClosed
<1> QED
  BY <1>1, ServiceInvariant, PTL

(* Whatever signals come and whenever the server ends, a child only goes   *)
(* forward: a session that has been stopped does not run again, and no     *)
(* connection is ever given to a second child.                             *)
THEOREM ChildrenGoForward == Spec => [][\A c \in Clients : Forward(c)]_vars
<1>1. ServiceInv /\ [Next]_vars => [\A c \in Clients : Forward(c)]_vars
  BY ServiceStep
<1> QED
  BY <1>1, ServiceInvariant, PTL DEF Spec
=============================================================================
