--------------------------- MODULE UpsTool_proofs ---------------------------
(* Proofs about UpsTool, for any number of tools, any options and any      *)
(* unpluggings.                                                            *)
EXTENDS UpsTool, TLAPS

(* What a message changes, and what it cannot: the hold of another tool.   *)
LEMMA MessageStep ==
    ASSUME UpsInv, NEW t \in Tools, NEW ok \in BOOLEAN, Message(t, ok)
    PROVE  /\ bound' \in Tools \union {Kernel, Nobody} /\ alone' \in [Tools -> BOOLEAN]
           /\ bound' = bound \/ (hdev[t] = "open" /\ bound = Nobody /\ bound' = t)
           /\ \A u \in Tools : ~claimed[u] \/ hdev[u] = "open" => alone'[u] = alone[u]
<1> USE UpsToolAssumption
<1>1. CASE Reachable(t)
  <2>1. bound' = t /\ alone' = [u \in Tools |-> alone[u] /\ (u = t \/ ~claimed[u])]
    BY <1>1 DEF Message
  <2>2. bound \in {t, Nobody} /\ hdev[t] = "open"
    BY <1>1 DEF Reachable
  <2>3. alone \in [Tools -> BOOLEAN]
    BY DEF UpsInv, TypeOK
  <2>4. ASSUME NEW u \in Tools, ~claimed[u] \/ hdev[u] = "open"
        PROVE  alone'[u] = alone[u]
    <3>1. u = t \/ ~claimed[u]
      BY <2>2, <2>4 DEF UpsInv, ToolInv
    <3> QED
      BY <2>1, <2>3, <3>1
  <2> QED
    BY <2>1, <2>2, <2>3, <2>4
<1>2. CASE ~Reachable(t)
  BY <1>2 DEF Message, UpsInv, TypeOK
<1> QED
  BY <1>1, <1>2

(* A step within a session, with a message or without: nothing in it can   *)
(* cost another tool what it holds.                                        *)
LEMMA SessionStep ==
    ASSUME UpsInv, TypeOK', NEW t \in Tools, NEW next \in Session,
           pc[t] \in Session, pc' = [pc EXCEPT ![t] = next],
           UNCHANGED <<invoked, hdev, claimed, plugged>>,
           \A u \in Tools : u # t => ret'[u] = ret[u],
           bound' = bound \/ (hdev[t] = "open" /\ bound = Nobody /\ bound' = t),
           \A u \in Tools : ~claimed[u] \/ hdev[u] = "open" => alone'[u] = alone[u]
    PROVE  UpsInv'
<1> USE UpsToolAssumption DEF Option
<1>p. /\ pc'[t] = next
      /\ \A u \in Tools : u # t => pc'[u] = pc[u]
  BY DEF UpsInv, TypeOK
<1>1. ASSUME NEW u \in Tools PROVE ToolInv(u)'
  <2>1. CASE u = t
    BY <1>p, <2>1 DEF UpsInv, ToolInv, Doomed, At, Session, Before
  <2>2. CASE u # t
    BY <1>p, <2>2 DEF UpsInv, ToolInv, Doomed, At, Session, Before
  <2> QED
    BY <2>1, <2>2
<1>2. ASSUME NEW u \in Tools, Friend(u) PROVE Friend(u)'
  BY <1>p, <1>2 DEF Friend, Doomed, At, Session
<1>3. DriverHasFriend'
  BY <1>2 DEF UpsInv, DriverHasFriend
<1> QED
  BY <1>1, <1>3 DEF UpsInv

(* The end of a process, from whatever cause: what it had bound is free,   *)
(* and if that leaves the UPS without a driver, the status tells.          *)
LEMMA ExitStep ==
    ASSUME UpsInv, NEW t \in Tools, NEW status \in 0 .. 2, Exit(t, status),
           UNCHANGED <<invoked, j, device, output, alone>>,
           \/ status # 0
           \/ pc[t] = "options" /\ Option(t, "h")
           \/ pc[t] = "close" /\ status = ret[t]
    PROVE  UpsInv'
<1> USE UpsToolAssumption DEF Option
<1>p. /\ pc'[t] = "exited" /\ ret'[t] = status /\ hdev'[t] = "none" /\ ~claimed'[t]
      /\ \A u \in Tools : u # t => /\ pc'[u] = pc[u] /\ ret'[u] = ret[u]
                                   /\ hdev'[u] = hdev[u] /\ claimed'[u] = claimed[u]
      /\ bound' = IF bound = t THEN Nobody ELSE bound
  BY DEF Exit, Goto, UpsInv, TypeOK
<1>0. TypeOK'
  BY <1>p DEF Exit, Goto, UpsInv, TypeOK, Session, Before, After, device, output
<1>1. ASSUME NEW u \in Tools PROVE ToolInv(u)'
  <2>1. CASE u = t
    BY <1>p, <2>1 DEF UpsInv, ToolInv, Doomed, At, Session, Before, device
  <2>2. CASE u # t
    BY <1>p, <2>2 DEF UpsInv, ToolInv, Doomed, At, Session, Before, device
  <2> QED
    BY <2>1, <2>2
<1>2. ASSUME NEW u \in Tools, Friend(u) PROVE Friend(u)'
  <2>1. CASE u = t
    BY <1>p, <1>2, <2>1 DEF Friend, Doomed, At, Session
  <2>2. CASE u # t
    BY <1>p, <1>2, <2>2 DEF Friend, Doomed, At, Session
  <2> QED
    BY <2>1, <2>2
<1>3. bound = Kernel <=> bound' = Kernel
  BY <1>p
<1>4. DriverHasFriend'
  BY <1>2, <1>3 DEF UpsInv, DriverHasFriend, device
<1> QED
  BY <1>0, <1>1, <1>4 DEF UpsInv

LEMMA InvInit == Init => UpsInv
<1> SUFFICES ASSUME Init PROVE UpsInv
  OBVIOUS
<1>1. TypeOK
  BY UpsToolAssumption DEF Init, TypeOK, Before
<1>2. \A t \in Tools : ToolInv(t)
  BY UpsToolAssumption DEF Init, ToolInv, Before, Session
<1>3. DriverHasFriend
  BY DEF Init, DriverHasFriend
<1> QED
  BY <1>1, <1>2, <1>3 DEF UpsInv

(* Steps of one tool                                                       *)

LEMMA LoopStep ==
    ASSUME UpsInv, NEW t \in Tools, NEW n, NEW next \in Session,
           ReadLoop(t, n, next), pc[t] \in Session,
           UNCHANGED <<told, obeyed>>
    PROVE  UpsInv'
<1>1. PICK ok \in BOOLEAN : Message(t, ok)
  BY DEF ReadLoop
<1>2. \/ pc' = [pc EXCEPT ![t] = next]
      \/ pc' = [pc EXCEPT ![t] = pc[t]]
  BY DEF ReadLoop, Goto, UpsInv, TypeOK
<1>3. TypeOK'
  <2>1. j' \in [Tools -> Nat] /\ pc' \in [Tools -> Before \union Session \union After]
    BY <1>2 DEF ReadLoop, Goto, UpsInv, TypeOK
  <2> QED
    BY <1>1, <2>1, MessageStep DEF ReadLoop, UpsInv, TypeOK, device, output
<1> QED
  BY <1>1, <1>2, <1>3, MessageStep, SessionStep DEF ReadLoop, device

LEMMA CommandStep ==
    ASSUME UpsInv, NEW t \in Tools, NEW name \in {"test", "beeper"}, NEW ok \in BOOLEAN,
           NEW result \in Int, NEW next \in Session, pc[t] \in Session,
           Command(t, name, ok, result, next),
           UNCHANGED <<invoked, hdev, claimed, j, device>>
    PROVE  UpsInv'
<1>1. Message(t, ok)
  BY DEF Command
<1>2. \/ pc' = [pc EXCEPT ![t] = next]
      \/ pc' = [pc EXCEPT ![t] = "release"]
  BY DEF Command, Fail, Goto
<1>3. /\ ret' \in [Tools -> 0 .. 2] /\ \A u \in Tools : u # t => ret'[u] = ret[u]
  BY DEF Command, Fail, UpsInv, TypeOK
<1>4. /\ told' \in [Tools -> SUBSET {"test", "beeper"}]
      /\ obeyed' \in [Tools -> SUBSET {"test", "beeper"}]
  BY DEF Command, UpsInv, TypeOK
<1>5. TypeOK'
  <2>1. pc' \in [Tools -> Before \union Session \union After]
    BY <1>2 DEF UpsInv, TypeOK, Session
  <2> QED
    BY <1>1, <1>3, <1>4, <2>1, MessageStep DEF UpsInv, TypeOK, device
<1>6. "release" \in Session
  BY DEF Session
<1> QED
  BY <1>1, <1>2, <1>3, <1>5, <1>6, MessageStep, SessionStep DEF device

LEMMA ToolStep == ASSUME UpsInv, NEW t \in Tools, Tool(t) PROVE UpsInv'
<1> USE UpsToolAssumption
<1>1. CASE Help(t)
  BY <1>1, ExitStep DEF Help, At
<1>2. CASE OpenFails(t)
  BY <1>2, ExitStep DEF OpenFails
<1>3. CASE Close(t)
  <2>1. ret[t] \in 0 .. 2
    BY DEF UpsInv, TypeOK
  <2> QED
    BY <1>3, <2>1, ExitStep DEF Close, At
<1>4. CASE ParseOptions(t)
  <2>1. TypeOK'
    BY <1>4 DEF ParseOptions, Goto, UpsInv, TypeOK, Before, device, output
  <2>2. ASSUME NEW u \in Tools PROVE ToolInv(u)'
    BY <1>4 DEF ParseOptions, Goto, At, UpsInv, TypeOK, ToolInv, Doomed, Option,
                Before, Session, device
  <2>3. ASSUME NEW u \in Tools, Friend(u) PROVE Friend(u)'
    BY <1>4, <2>3 DEF ParseOptions, Goto, At, UpsInv, TypeOK, Friend, Doomed, Option,
                      Session
  <2> QED
    BY <1>4, <2>1, <2>2, <2>3 DEF ParseOptions, UpsInv, DriverHasFriend, device
<1>5. CASE usb_open_imd(t)
  <2>1. TypeOK'
    BY <1>5 DEF usb_open_imd, Goto, UpsInv, TypeOK, Before, device, output
  <2>2. ASSUME NEW u \in Tools PROVE ToolInv(u)'
    BY <1>5 DEF usb_open_imd, Goto, At, UpsInv, TypeOK, ToolInv, Doomed, Option,
                Before, Session, device
  <2>3. ASSUME NEW u \in Tools, Friend(u) PROVE Friend(u)'
    BY <1>5, <2>3 DEF usb_open_imd, Goto, At, UpsInv, TypeOK, Friend, Doomed, Option,
                      Session
  <2> QED
    BY <1>5, <2>1, <2>2, <2>3 DEF usb_open_imd, UpsInv, DriverHasFriend, device
<1>6. CASE Detach(t)
  <2>1. TypeOK'
    BY <1>6 DEF Detach, Goto, UpsInv, TypeOK, Before, device, output
  <2>2. ASSUME NEW u \in Tools PROVE ToolInv(u)'
    BY <1>6 DEF Detach, Goto, At, UpsInv, TypeOK, ToolInv, Doomed, Option,
                Before, Session, device
  <2>3. ASSUME NEW u \in Tools, Friend(u) PROVE Friend(u)'
    BY <1>6, <2>3 DEF Detach, Goto, At, UpsInv, TypeOK, Friend, Doomed, Option,
                      Session
  <2>4. bound = Kernel /\ bound' # Kernel => Friend(t)'
    BY <1>6 DEF Detach, Goto, At, UpsInv, TypeOK, Friend, Before
  <2> QED
    BY <1>6, <2>1, <2>2, <2>3, <2>4 DEF Detach, UpsInv, DriverHasFriend, device
<1>7. CASE Claim(t)
  <2>1. TypeOK'
    BY <1>7 DEF Claim, Goto, UpsInv, TypeOK, Session, device, output
  <2>2. ASSUME NEW u \in Tools PROVE ToolInv(u)'
    <3>1. CASE hdev[t] = "open" /\ bound = Nobody
      BY <1>7, <3>1 DEF Claim, Goto, At, UpsInv, TypeOK, ToolInv, Doomed, Option,
                        Before, Session, device
    <3>2. CASE ~(hdev[t] = "open" /\ bound = Nobody)
      BY <1>7, <3>2 DEF Claim, Goto, At, UpsInv, TypeOK, ToolInv, Doomed, Option,
                        Before, Session, device
    <3> QED
      BY <3>1, <3>2
  <2>3. ASSUME NEW u \in Tools, Friend(u) PROVE Friend(u)'
    BY <1>7, <2>3 DEF Claim, Goto, At, UpsInv, TypeOK, Friend, Doomed, Option,
                      Session
  <2>4. bound = Kernel <=> bound' = Kernel
    BY <1>7 DEF Claim
  <2> QED
    BY <1>7, <2>1, <2>2, <2>3, <2>4 DEF Claim, UpsInv, DriverHasFriend, device
<1>8. CASE Descriptor(t)
  <2>1. PICK ok \in BOOLEAN :
           /\ Message(t, ok)
           /\ pc' = [pc EXCEPT ![t] = "dummy"] \/ pc' = [pc EXCEPT ![t] = "test"]
                 \/ pc' = [pc EXCEPT ![t] = "release"]
           /\ ret' = ret \/ ret' = [ret EXCEPT ![t] = 1]
    BY <1>8 DEF Descriptor, Goto, Fail
  <2>2. \A u \in Tools : u # t => ret'[u] = ret[u]
    BY <2>1 DEF UpsInv, TypeOK
  <2>3. TypeOK'
    <3>0. ret \in [Tools -> 0 .. 2] /\ pc \in [Tools -> Before \union Session \union After]
      BY DEF UpsInv, TypeOK
    <3>a. ret' \in [Tools -> 0 .. 2]
      BY <2>1, <3>0
    <3>1. ret' \in [Tools -> 0 .. 2] /\ pc' \in [Tools -> Before \union Session \union After]
      BY <2>1, <3>0, <3>a DEF Session
    <3>2. bound' \in Tools \union {Kernel, Nobody} /\ alone' \in [Tools -> BOOLEAN]
      BY <2>1, MessageStep
    <3> QED
      BY <1>8, <3>1, <3>2 DEF Descriptor, UpsInv, TypeOK, device, output
  <2>4. pc[t] \in Session /\ {"dummy", "test", "release"} \subseteq Session
    BY <1>8 DEF Descriptor, At, Session
  <2> QED
    BY <1>8, <2>1, <2>2, <2>3, <2>4, MessageStep, SessionStep DEF Descriptor, device
<1>9. CASE DummyRead(t)
  <2>1. pc[t] \in Session /\ "test" \in Session
    BY <1>9 DEF DummyRead, At, Session
  <2> QED
    BY <1>9, <2>1, LoopStep DEF DummyRead, ReadLoop, output
<1>10. CASE ApcReports(t) \/ WowReports(t)
  <2>1. pc[t] \in Session /\ {"ready", "status"} \subseteq Session
    BY <1>10 DEF ApcReports, WowReports, At, Session
  <2> QED
    BY <1>10, <2>1, LoopStep DEF ApcReports, WowReports, ReadLoop, output
<1>11. CASE Test(t)
  <2>1. pc[t] \in Session /\ "beeper" \in Session
    BY <1>11 DEF Test, At, Session
  <2>2. CASE Option(t, "t")
    <3>1. PICK ok \in BOOLEAN : Command(t, "test", ok, send_test(ok), "beeper")
      BY <1>11, <2>2 DEF Test
    <3>2. send_test(ok) \in Int
      BY DEF send_test, UInt8
    <3> QED
      BY <1>11, <2>1, <3>1, <3>2, CommandStep DEF Test
  <2>3. CASE ~Option(t, "t")
    <3>1. pc' = [pc EXCEPT ![t] = "beeper"] /\ UNCHANGED <<told, obeyed, ret, bound, alone>>
      BY <1>11, <2>3 DEF Test, Goto
    <3>2. TypeOK'
      BY <1>11, <3>1 DEF Test, UpsInv, TypeOK, Session, device
    <3> QED
      BY <1>11, <2>1, <3>1, <3>2, SessionStep DEF Test, device
  <2> QED
    BY <2>2, <2>3
<1>12. CASE Beeper(t)
  <2>1. pc[t] \in Session /\ "reports" \in Session
    BY <1>12 DEF Beeper, At, Session
  <2>2. CASE Option(t, "b")
    <3>1. PICK ok \in BOOLEAN : Command(t, "beeper", ok, send_boff(ok), "reports")
      BY <1>12, <2>2 DEF Beeper
    <3>2. send_boff(ok) \in Int
      BY DEF send_boff, UInt8
    <3> QED
      BY <1>12, <2>1, <3>1, <3>2, CommandStep DEF Beeper
  <2>3. CASE ~Option(t, "b")
    <3>1. pc' = [pc EXCEPT ![t] = "reports"] /\ UNCHANGED <<told, obeyed, ret, bound, alone>>
      BY <1>12, <2>3 DEF Beeper, Goto
    <3>2. TypeOK'
      BY <1>12, <3>1 DEF Beeper, UpsInv, TypeOK, Session, device
    <3> QED
      BY <1>12, <2>1, <3>1, <3>2, SessionStep DEF Beeper, device
  <2> QED
    BY <2>2, <2>3
<1>13. CASE NoReports(t)
  <2>1. pc[t] \in Session /\ "ready" \in Session
    BY <1>13 DEF NoReports, At, Session
  <2>2. TypeOK'
    BY <1>13 DEF NoReports, Goto, UpsInv, TypeOK, Session, device, output
  <2> QED
    BY <1>13, <2>1, <2>2, SessionStep DEF NoReports, Goto, device
<1>14. CASE Status(t)
  <2>1. pc[t] \in Session /\ "ready" \in Session
    BY <1>14 DEF Status, At, Session
  <2>2. PICK ok \in BOOLEAN : Message(t, ok)
    BY <1>14 DEF Status
  <2>3. TypeOK'
    BY <1>14, <2>2, MessageStep DEF Status, Goto, UpsInv, TypeOK, Session, device, output
  <2> QED
    BY <1>14, <2>1, <2>2, <2>3, MessageStep, SessionStep DEF Status, Goto, device
<1>15. CASE Ready(t)
  <2>1. pc[t] \in Session /\ "release" \in Session
    BY <1>15 DEF Ready, At, Session
  <2>2. TypeOK'
    BY <1>15 DEF Ready, Goto, UpsInv, TypeOK, Session, device, output
  <2>3. \A u \in Tools : u # t => ret'[u] = ret[u]
    BY <1>15 DEF Ready, UpsInv, TypeOK
  <2> QED
    BY <1>15, <2>1, <2>2, <2>3, SessionStep DEF Ready, Goto, device
<1>16. CASE Release(t)
  <2>1. TypeOK'
    <3>0. claimed \in [Tools -> BOOLEAN] /\ ret \in [Tools -> 0 .. 2]
      BY DEF UpsInv, TypeOK
    <3>a. claimed' \in [Tools -> BOOLEAN]
      BY <1>16, <3>0 DEF Release
    <3>b. ret' = ret \/ ret' = [ret EXCEPT ![t] = 1]
      BY <1>16 DEF Release, Fail
    <3>1. claimed' \in [Tools -> BOOLEAN] /\ ret' \in [Tools -> 0 .. 2]
      BY <3>0, <3>a, <3>b
    <3>2. bound' \in Tools \union {Kernel, Nobody}
      BY <1>16 DEF Release, UpsInv, TypeOK
    <3>3. pc' \in [Tools -> Before \union Session \union After]
      BY <1>16 DEF Release, Goto, Fail, UpsInv, TypeOK, After
    <3> QED
      BY <1>16, <3>1, <3>2, <3>3 DEF Release, UpsInv, TypeOK, device, output
  <2>2. ASSUME NEW u \in Tools PROVE ToolInv(u)'
    <3>1. CASE claimed[t] /\ hdev[t] = "open"
      BY <1>16, <3>1 DEF Release, Goto, At, UpsInv, TypeOK, ToolInv, Doomed, Option,
                         Before, Session, device
    <3>2. CASE ~(claimed[t] /\ hdev[t] = "open")
      BY <1>16, <3>2 DEF Release, Goto, Fail, At, UpsInv, TypeOK, ToolInv, Doomed, Option,
                         Before, Session, device
    <3> QED
      BY <3>1, <3>2
  <2>3. ASSUME NEW u \in Tools, Friend(u) PROVE Friend(u)'
    BY <1>16, <2>3 DEF Release, Goto, Fail, At, UpsInv, TypeOK, Friend, Doomed, Option,
                       Session
  <2>4. bound' = Kernel => bound = Kernel
    BY <1>16 DEF Release
  <2>5. bound = Kernel => bound' = Kernel
    BY <1>16 DEF Release, UpsInv, ToolInv
  <2> QED
    BY <1>16, <2>1, <2>2, <2>3, <2>4, <2>5 DEF Release, UpsInv, DriverHasFriend, device
<1>17. CASE Attach(t)
  <2>1. TypeOK'
    BY <1>17 DEF Attach, Goto, UpsInv, TypeOK, After, device, output
  <2>2. ASSUME NEW u \in Tools PROVE ToolInv(u)'
    BY <1>17 DEF Attach, Goto, At, UpsInv, TypeOK, ToolInv, Doomed, Option,
                 Before, Session, device
  <2>3. ASSUME NEW u \in Tools, Friend(u), u # t PROVE Friend(u)'
    BY <1>17, <2>3 DEF Attach, Goto, At, UpsInv, TypeOK, Friend, Doomed, Option,
                       Session
  <2>4. ASSUME HasAttach, bound' # Kernel, Friend(t)
        PROVE  \E u \in Tools : Friend(u)'
    <3>1. CASE ~Option(t, "a")
      BY <1>17, <3>1 DEF Attach, Friend, Option
    <3>2. CASE Option(t, "a") /\ ret[t] # 0
      BY <1>17, <3>2 DEF Attach, Goto, At, Friend, Doomed, UpsInv, TypeOK
    <3>3. CASE Option(t, "a") /\ ret[t] = 0
      <4>1. hdev[t] = "open"
        BY <1>17, <2>4, <3>3 DEF Attach, At, Friend, Doomed, Session
      <4>2. bound \in Tools
        BY <1>17, <2>4, <3>3, <4>1 DEF Attach, UpsInv, TypeOK
      <4>3. bound # t
        BY <1>17, <3>3, <4>2 DEF Attach, At, UpsInv, ToolInv, Doomed, Session
      <4>4. Friend(bound)
        BY <4>2 DEF UpsInv, ToolInv, Friend
      <4> QED
        BY <2>3, <4>2, <4>3, <4>4
    <3> QED
      BY <3>1, <3>2, <3>3 DEF UpsInv, TypeOK
  <2> QED
    BY <1>17, <2>1, <2>2, <2>3, <2>4 DEF Attach, UpsInv, DriverHasFriend, device
<1> QED
  BY <1>1, <1>2, <1>3, <1>4, <1>5, <1>6, <1>7, <1>8, <1>9, <1>10, <1>11, <1>12, <1>13,
     <1>14, <1>15, <1>16, <1>17 DEF Tool

LEMMA InvStep == UpsInv /\ [Next]_vars => UpsInv'
<1> SUFFICES ASSUME UpsInv, [Next]_vars PROVE UpsInv'
  OBVIOUS
<1> USE UpsToolAssumption
<1>1. ASSUME NEW t \in Tools, Kill(t) PROVE UpsInv'
  BY <1>1, ExitStep DEF Kill
<1>2. CASE Unplug
  <2>1. TypeOK'
    <3>1. unplugs' \in 0 .. MaxUnplugs
      BY <1>2 DEF Unplug, UpsInv, TypeOK
    <3>2. hdev' \in [Tools -> {"none", "open", "stale"}] /\ alone' \in [Tools -> BOOLEAN]
      BY <1>2 DEF Unplug, UpsInv, TypeOK
    <3> QED
      BY <1>2, <3>1, <3>2 DEF Unplug, UpsInv, TypeOK, output
  <2>2. ASSUME NEW u \in Tools PROVE ToolInv(u)'
    BY <1>2 DEF Unplug, At, UpsInv, TypeOK, ToolInv, Doomed, Option, Before, Session
  <2> QED
    BY <1>2, <2>1, <2>2 DEF Unplug, UpsInv, DriverHasFriend
<1>3. CASE Plug
  <2>1. TypeOK'
    BY <1>3 DEF Plug, UpsInv, TypeOK, output
  <2>2. ASSUME NEW u \in Tools PROVE ToolInv(u)'
    BY <1>3 DEF Plug, At, UpsInv, TypeOK, ToolInv, Doomed, Option, Before, Session
  <2> QED
    BY <1>3, <2>1, <2>2 DEF Plug, UpsInv, DriverHasFriend
<1>4. CASE UNCHANGED vars
  <2>1. TypeOK'
    BY <1>4 DEF vars, UpsInv, TypeOK
  <2>2. ASSUME NEW u \in Tools PROVE ToolInv(u)'
    BY <1>4 DEF vars, At, UpsInv, ToolInv, Doomed, Option
  <2>3. ASSUME NEW u \in Tools, Friend(u) PROVE Friend(u)'
    BY <1>4, <2>3 DEF vars, At, Friend, Doomed, Option
  <2> QED
    BY <1>4, <2>1, <2>2, <2>3 DEF vars, UpsInv, DriverHasFriend
<1> QED
  BY <1>1, <1>2, <1>3, <1>4, ToolStep DEF Next, Over

(* For any number of overlapping tools, what main and the library believe  *)
(* of the interface is what the kernel has.                                *)
THEOREM Invariant == Spec => []UpsInv
  BY InvInit, InvStep, PTL DEF Spec

(* A tool that main lets go on after a failed claim ends with a status     *)
(* other than 0: release: is where that is found out.                      *)
THEOREM WellEndedWasAlone == Spec => []ExitZeroAlone
<1>1. UpsInv => ExitZeroAlone
  BY DEF UpsInv, ToolInv, ExitZeroAlone, At
<1> QED
  BY <1>1, Invariant, PTL

(* The last of the tools to release the interface gives it back to the     *)
(* kernel driver, whichever of them has detached it.                       *)
THEOREM DriverIsBack == Spec => []DriverComesBack
<1>1. UpsInv => DriverComesBack
  BY DEF UpsInv, DriverHasFriend, Friend, Doomed, DriverComesBack, At, Session
<1> QED
  BY <1>1, Invariant, PTL

-----------------------------------------------------------------------------
(* What bounds a run: main has no way back, and reads each a number of     *)
(* reports in a loop.                                                      *)
Place(loc) ==
    CASE loc = "options"    -> 0  [] loc = "open"    -> 1  [] loc = "detach"  -> 2
      [] loc = "claim"      -> 3  [] loc = "descriptor" -> 4 [] loc = "dummy" -> 5
      [] loc = "test"       -> 6  [] loc = "beeper"  -> 7  [] loc = "reports" -> 8
      [] loc = "status"     -> 9  [] loc = "ready"   -> 10 [] loc = "release" -> 11
      [] loc = "attach"     -> 12 [] loc = "close"   -> 13 [] loc = "exited"  -> 14

Reads(loc) == IF loc = "dummy" THEN Dummies ELSE Reports

Advances(t) ==
    \/ Place(pc[t]) < Place(pc'[t])
    \/ /\ pc[t] \in {"dummy", "reports"} /\ pc'[t] = pc[t]
       /\ j'[t] = j[t] + 1 /\ j'[t] < Reads(pc[t])

Untouched(t) == pc'[t] = pc[t] /\ j'[t] = j[t]

LEMMA ToolAdvances ==
    ASSUME TypeOK, NEW t \in Tools, Tool(t)
    PROVE  /\ Advances(t)
           /\ \A u \in Tools : u # t => Untouched(u)
<1> USE DEF Advances, Untouched, Place, At, Goto
<1>0. /\ pc \in [Tools -> Before \union Session \union After] /\ j \in [Tools -> Nat]
      /\ Dummies \in Nat /\ Reports \in Nat
  BY UpsToolAssumption DEF TypeOK
<1>1. ASSUME NEW from \in {"dummy", "reports"}, NEW next, pc[t] = from,
             ReadLoop(t, Reads(from), next), Place(from) < Place(next)
      PROVE  Advances(t) /\ \A u \in Tools : u # t => Untouched(u)
  <2>1. CASE j[t] + 1 < Reads(from)
    BY <1>0, <1>1, <2>1 DEF ReadLoop
  <2>2. CASE ~(j[t] + 1 < Reads(from))
    BY <1>0, <1>1, <2>2 DEF ReadLoop
  <2> QED
    BY <2>1, <2>2
<1>2. CASE DummyRead(t)
  <2>1. pc[t] = "dummy" /\ ReadLoop(t, Reads("dummy"), "test")
    BY <1>2 DEF DummyRead, Reads
  <2>2. Place("dummy") < Place("test")
    OBVIOUS
  <2> QED
    BY <1>1, <2>1, <2>2
<1>3. CASE ApcReports(t) \/ WowReports(t)
  <2>1. PICK next \in {"ready", "status"} :
           pc[t] = "reports" /\ ReadLoop(t, Reads("reports"), next)
    BY <1>3 DEF ApcReports, WowReports, Reads
  <2>2. Place("reports") < Place(next)
    BY <2>1
  <2> QED
    BY <1>1, <2>1, <2>2
<1>4. CASE Help(t) \/ ParseOptions(t) \/ usb_open_imd(t) \/ OpenFails(t)
  BY <1>0, <1>4 DEF Help, ParseOptions, usb_open_imd, OpenFails, Exit
<1>5. CASE Detach(t) \/ Claim(t) \/ Descriptor(t)
  <2>1. CASE Detach(t) \/ Claim(t)
    BY <1>0, <2>1 DEF Detach, Claim
  <2>2. CASE Descriptor(t)
    <3>1. PICK next \in {"dummy", "test", "release"} :
             pc[t] = "descriptor" /\ pc' = [pc EXCEPT ![t] = next] /\ j' = j
      BY <2>2 DEF Descriptor, Fail
    <3> QED
      BY <1>0, <3>1
  <2> QED
    BY <1>5, <2>1, <2>2
<1>6. CASE Test(t) \/ Beeper(t)
  BY <1>0, <1>6 DEF Test, Beeper, Command, Fail
<1>7. CASE NoReports(t) \/ Status(t) \/ Ready(t)
  BY <1>0, <1>7 DEF NoReports, Status, Ready
<1>8. CASE Release(t) \/ Attach(t) \/ Close(t)
  BY <1>0, <1>8 DEF Release, Attach, Close, Fail, Exit
<1> QED
  BY <1>2, <1>3, <1>4, <1>5, <1>6, <1>7, <1>8 DEF Tool

(* What ToolsEnd rests on besides fairness, for any number of tools: each  *)
(* step of a tool takes it further in a finite order, whether its messages *)
(* succeed or not, and nothing that others do sets it back.                *)
THEOREM EveryStepAdvances ==
    Spec => [][\A t \in Tools : /\ Tool(t) => Advances(t)
                                /\ Advances(t) \/ Untouched(t)]_vars
<1>1. UpsInv /\ [Next]_vars =>
         [\A t \in Tools : /\ Tool(t) => Advances(t)
                           /\ Advances(t) \/ Untouched(t)]_vars
  <2> SUFFICES ASSUME UpsInv, Next, NEW t \in Tools
               PROVE  /\ Tool(t) => Advances(t)
                      /\ Advances(t) \/ Untouched(t)
    OBVIOUS
  <2>0. TypeOK
    BY DEF UpsInv
  <2>1. Tool(t) => Advances(t)
    BY <2>0, ToolAdvances
  <2>2. ASSUME NEW u \in Tools, Tool(u) PROVE Advances(t) \/ Untouched(t)
    BY <2>0, <2>2, ToolAdvances
  <2>3. ASSUME NEW u \in Tools, Kill(u) PROVE Advances(t) \/ Untouched(t)
    BY <2>0, <2>3 DEF Kill, Exit, Goto, At, TypeOK, Advances, Untouched, Place,
                      Before, Session, After
  <2>4. Unplug \/ Plug \/ Over => Untouched(t)
    BY DEF Unplug, Plug, Over, vars, Untouched
  <2> QED
    BY <2>1, <2>2, <2>3, <2>4 DEF Next
<1> QED
  BY <1>1, Invariant, PTL DEF Spec
=============================================================================
