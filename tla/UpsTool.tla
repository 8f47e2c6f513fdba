------------------------------- MODULE UpsTool -------------------------------
(***************************************************************************)
(* The UPS tools of 25volt: usb_ups_apc_smart.c and usb_ups_powercom_wow.c *)
(* are one program in two variants, which opens the UPS, claims its HID    *)
(* interface from the kernel driver, sends it commands, reads its reports  *)
(* and gives the interface back.  Several may run at a time (from cron, a  *)
(* web page, a user), nothing but the interface itself keeps them apart.   *)
(*                                                                         *)
(* An interface is bound to the kernel driver, to one process, or to       *)
(* nobody.  A control message of a process that has not claimed it claims  *)
(* it in passing if it is free; the library does not know of such a claim. *)
(***************************************************************************)
EXTENDS Integers, Sequences

CONSTANTS
    Tools,           \* the processes, each runs a program once
    Invocations,     \* what they may be run as: program and options
    Kernel, Nobody,  \* what else the interface can be bound to
    Dummies,         \* dummy reads: 8
    Reports,         \* values read besides the status: 6
    HasAttach,       \* LIBUSB_HAS_ATTACH_KERNEL_DRIVER_NP
    MaxUnplugs       \* bound of the model: times the UPS is unplugged

(* "v" stands for the ids of a UPS that is not there, "h" for help.        *)
Letters == {"u", "s", "t", "b", "d", "a", "v", "h"}

ASSUME UpsToolAssumption ==
    /\ Kernel \notin Tools /\ Nobody \notin Tools /\ Kernel # Nobody
    /\ Invocations \subseteq [prog : {"apc", "wow"}, args : Seq(Letters)]
    /\ Dummies \in Nat \ {0} /\ Reports \in Nat \ {0}
    /\ HasAttach \in BOOLEAN /\ MaxUnplugs \in Nat

VARIABLES
    invoked,   \* what each tool was run as
    pc,        \* where main is
    hdev,      \* the handle: "none", "open", or "stale" after an unplugging
    claimed,   \* the library knows of a claim
    ret,       \* ret of main, then the exit status; 2: killed
    j,         \* the reads done in a loop
    \* the UPS
    plugged, unplugs,
    bound,     \* what its interface is bound to
    \* observed only
    told,      \* commands of which the tool said OK
    obeyed,    \* commands the UPS carried out
    alone      \* nothing came between the tool and the UPS since its claim

output == <<told, obeyed>>
device == <<plugged, unplugs>>
vars   == <<invoked, pc, hdev, claimed, ret, j, plugged, unplugs, bound,
            told, obeyed, alone>>

Option(t, o) == \E i \in DOMAIN invoked[t].args : invoked[t].args[i] = o

skip(t)  == \E o \in {"t", "b", "d", "a"} : Option(t, o)
hflag(t) == Option(t, "u") \/ Option(t, "s")

Init ==
    /\ invoked \in [Tools -> Invocations]
    /\ pc = [t \in Tools |-> "options"]
    /\ hdev = [t \in Tools |-> "none"] /\ claimed = [t \in Tools |-> FALSE]
    /\ ret = [t \in Tools |-> 0] /\ j = [t \in Tools |-> 0]
    /\ plugged = TRUE /\ unplugs = 0 /\ bound = Kernel
    /\ told = [t \in Tools |-> {}] /\ obeyed = [t \in Tools |-> {}]
    /\ alone = [t \in Tools |-> FALSE]

At(t, loc)   == pc[t] = loc
Goto(t, loc) == pc' = [pc EXCEPT ![t] = loc]
Fail(t, loc) == Goto(t, loc) /\ ret' = [ret EXCEPT ![t] = 1]

-----------------------------------------------------------------------------
(* The library and the kernel                                              *)

Reachable(t) == hdev[t] = "open" /\ bound \in {t, Nobody}

(* usb_control_msg: it succeeds or not (a timeout, a stall, an interface   *)
(* that is bound to another); what is sent may have arrived all the same.  *)
Message(t, ok) ==
    IF Reachable(t)
    THEN /\ bound' = t
         /\ alone' = [u \in Tools |-> alone[u] /\ (u = t \/ ~claimed[u])]
    ELSE ~ok /\ UNCHANGED <<bound, alone>>

(* The end of a process closes its handle, and with it what it has bound.  *)
Exit(t, status) ==
    /\ Goto(t, "exited")
    /\ ret' = [ret EXCEPT ![t] = status]
    /\ hdev' = [hdev EXCEPT ![t] = "none"]
    /\ claimed' = [claimed EXCEPT ![t] = FALSE]
    /\ bound' = IF bound = t THEN Nobody ELSE bound

-----------------------------------------------------------------------------
(* main() up to the session                                                *)

Help(t) ==
    /\ At(t, "options") /\ Option(t, "h")
    /\ Exit(t, 0)
    /\ UNCHANGED <<invoked, j, device, output, alone>>

ParseOptions(t) ==
    /\ At(t, "options") /\ ~Option(t, "h")
    /\ Goto(t, "open")
    /\ UNCHANGED <<invoked, hdev, claimed, ret, j, device, bound, output, alone>>

usb_open_imd(t) ==
    /\ At(t, "open") /\ plugged /\ ~Option(t, "v")
    /\ hdev' = [hdev EXCEPT ![t] = "open"]
    /\ Goto(t, "detach")
    /\ UNCHANGED <<invoked, claimed, ret, j, device, bound, output, alone>>

(* There is no such UPS, or it cannot be opened.                           *)
OpenFails(t) ==
    /\ At(t, "open")
    /\ Exit(t, 1)
    /\ UNCHANGED <<invoked, j, device, output, alone>>

Detach(t) ==
    /\ At(t, "detach")
    /\ bound' = IF Option(t, "d") /\ hdev[t] = "open" /\ bound = Kernel
                THEN Nobody ELSE bound
    /\ Goto(t, "claim")
    /\ UNCHANGED <<invoked, hdev, claimed, ret, j, device, output, alone>>

(* Faults: wait until the claim succeeds; think that it has.               *)
Claim_Retry(t) ==
    /\ At(t, "claim")
    /\ IF hdev[t] = "open" /\ bound = Nobody
       THEN /\ bound' = t /\ Goto(t, "descriptor")
            /\ claimed' = [claimed EXCEPT ![t] = TRUE]
            /\ alone' = [alone EXCEPT ![t] = TRUE]
       ELSE UNCHANGED <<bound, claimed, alone, pc>>
    /\ UNCHANGED <<invoked, hdev, ret, j, device, output>>

Claim_Blind(t) ==
    /\ At(t, "claim")
    /\ bound' = IF hdev[t] = "open" /\ bound = Nobody THEN t ELSE bound
    /\ claimed' = [claimed EXCEPT ![t] = TRUE]
    /\ alone' = [alone EXCEPT ![t] = TRUE]
    /\ Goto(t, "descriptor")
    /\ UNCHANGED <<invoked, hdev, ret, j, device, output>>

(* usb_claim_interface; that it fails is only worth a warning.             *)
Claim(t) ==
    /\ At(t, "claim")
    /\ IF hdev[t] = "open" /\ bound = Nobody
       THEN /\ bound' = t
            /\ claimed' = [claimed EXCEPT ![t] = TRUE]
            /\ alone' = [alone EXCEPT ![t] = TRUE]
       ELSE UNCHANGED <<bound, claimed, alone>>
    /\ Goto(t, "descriptor")
    /\ UNCHANGED <<invoked, hdev, ret, j, device, output>>

Descriptor(t) ==
    /\ At(t, "descriptor")
    /\ \/ /\ Message(t, TRUE) /\ UNCHANGED ret
          /\ Goto(t, IF invoked[t].prog = "apc" THEN "dummy" ELSE "test")
       \/ Message(t, FALSE) /\ Fail(t, "release")
    /\ UNCHANGED <<invoked, hdev, claimed, j, device, output>>

-----------------------------------------------------------------------------
(* The session                                                             *)

(* A loop of n reads whose results nobody looks at.                        *)
ReadLoop(t, n, next) ==
    /\ \E ok \in BOOLEAN : Message(t, ok)
    /\ IF j[t] + 1 < n
       THEN j' = [j EXCEPT ![t] = @ + 1] /\ UNCHANGED pc
       ELSE j' = [j EXCEPT ![t] = 0] /\ Goto(t, next)
    /\ UNCHANGED <<invoked, hdev, claimed, ret, device, output>>

(* "dummy read - clear all", APC only                                      *)
DummyRead(t) == At(t, "dummy") /\ ReadLoop(t, Dummies, "test")

(* send_test and send_boff return uint8_t; main tests the result for < 0.  *)
UInt8(n) == n % 256

send_test(ok) == UInt8(IF ok THEN 1 ELSE -1)
send_boff(ok) == UInt8(IF ok THEN 0 ELSE -1)

(* A command whose answer is result: carried out or not, OK or Failed.     *)
Command(t, name, ok, result, next) ==
    /\ Message(t, ok)
    /\ \/ Reachable(t) /\ obeyed' = [obeyed EXCEPT ![t] = @ \union {name}]
       \/ ~ok /\ UNCHANGED obeyed
    /\ IF result < 0 THEN Fail(t, "release") /\ UNCHANGED told
       ELSE /\ told' = [told EXCEPT ![t] = @ \union {name}]
            /\ Goto(t, next) /\ UNCHANGED ret

Test(t) ==
    /\ At(t, "test")
    /\ IF Option(t, "t")
       THEN \E ok \in BOOLEAN : Command(t, "test", ok, send_test(ok), "beeper")
       ELSE Goto(t, "beeper") /\ UNCHANGED <<told, obeyed, ret, bound, alone>>
    /\ UNCHANGED <<invoked, hdev, claimed, j, device>>

Beeper(t) ==
    /\ At(t, "beeper")
    /\ IF Option(t, "b")
       THEN \E ok \in BOOLEAN : Command(t, "beeper", ok, send_boff(ok), "reports")
       ELSE Goto(t, "reports") /\ UNCHANGED <<told, obeyed, ret, bound, alone>>
    /\ UNCHANGED <<invoked, hdev, claimed, j, device>>

(* -u, -s, or no option that makes the tool do something else              *)
Shows(t) == hflag(t) \/ ~skip(t)

(* The data of an APC; the status is not part of it (PRINT_STATUS).        *)
ApcReports(t) ==
    /\ At(t, "reports") /\ invoked[t].prog = "apc" /\ Shows(t)
    /\ ReadLoop(t, Reports, "ready")

WowReports(t) ==
    /\ At(t, "reports") /\ invoked[t].prog = "wow" /\ Shows(t)
    /\ ReadLoop(t, Reports, "status")

NoReports(t) ==
    /\ At(t, "reports") /\ ~Shows(t)
    /\ Goto(t, "ready")
    /\ UNCHANGED <<invoked, hdev, claimed, ret, j, device, bound, output, alone>>

(* The status of the WOW; which flags are shown as on is left out.         *)
Status(t) ==
    /\ At(t, "status")
    /\ \E ok \in BOOLEAN : Message(t, ok)
    /\ Goto(t, "ready")
    /\ UNCHANGED <<invoked, hdev, claimed, ret, j, device, output>>

Ready(t) ==
    /\ At(t, "ready")
    /\ ret' = [ret EXCEPT ![t] = 0]
    /\ Goto(t, "release")
    /\ UNCHANGED <<invoked, hdev, claimed, j, device, bound, output, alone>>

-----------------------------------------------------------------------------
(* release:                                                                *)

(* Fault: that the release failed is not in the exit status.               *)
Release_Silent(t) ==
    /\ At(t, "release")
    /\ IF claimed[t] /\ hdev[t] = "open"
       THEN claimed' = [claimed EXCEPT ![t] = FALSE] /\ bound' = Nobody
       ELSE UNCHANGED <<claimed, bound>>
    /\ Goto(t, "attach")
    /\ UNCHANGED <<invoked, hdev, ret, j, device, output, alone>>

(* usb_release_interface fails if the library knows of no claim, even if   *)
(* the kernel does.                                                        *)
Release(t) ==
    /\ At(t, "release")
    /\ IF claimed[t] /\ hdev[t] = "open"
       THEN /\ claimed' = [claimed EXCEPT ![t] = FALSE] /\ bound' = Nobody
            /\ Goto(t, "attach") /\ UNCHANGED ret
       ELSE Fail(t, "attach") /\ UNCHANGED <<claimed, bound>>
    /\ UNCHANGED <<invoked, hdev, j, device, output, alone>>

(* Fault: only who was asked to detach attaches.                           *)
Attach_IfDetached(t) ==
    /\ At(t, "attach")
    /\ bound' = IF /\ HasAttach /\ Option(t, "a") /\ Option(t, "d")
                   /\ hdev[t] = "open" /\ bound = Nobody
                THEN Kernel ELSE bound
    /\ Goto(t, "close")
    /\ UNCHANGED <<invoked, hdev, claimed, ret, j, device, output, alone>>

(* That this fails is not worth a warning.                                 *)
Attach(t) ==
    /\ At(t, "attach")
    /\ bound' = IF /\ HasAttach /\ Option(t, "a")
                   /\ hdev[t] = "open" /\ bound = Nobody
                THEN Kernel ELSE bound
    /\ Goto(t, "close")
    /\ UNCHANGED <<invoked, hdev, claimed, ret, j, device, output, alone>>

Close(t) ==
    /\ At(t, "close")
    /\ Exit(t, ret[t])
    /\ UNCHANGED <<invoked, j, device, output, alone>>

Tool(t) ==
    \/ Help(t) \/ ParseOptions(t) \/ usb_open_imd(t) \/ OpenFails(t)
    \/ Detach(t) \/ Claim(t) \/ Descriptor(t) \/ DummyRead(t)
    \/ Test(t) \/ Beeper(t) \/ ApcReports(t) \/ WowReports(t) \/ NoReports(t)
    \/ Status(t) \/ Ready(t) \/ Release(t) \/ Attach(t) \/ Close(t)

-----------------------------------------------------------------------------
(* The surroundings                                                        *)

(* ^C, or a timeout of the script that runs the tool                       *)
Kill(t) ==
    /\ ~At(t, "exited")
    /\ Exit(t, 2)
    /\ UNCHANGED <<invoked, j, device, output, alone>>

Unplug ==
    /\ plugged /\ unplugs < MaxUnplugs
    /\ plugged' = FALSE /\ unplugs' = unplugs + 1 /\ bound' = Nobody
    /\ hdev' = [t \in Tools |-> IF hdev[t] = "open" THEN "stale" ELSE hdev[t]]
    /\ alone' = [t \in Tools |-> alone[t] /\ ~claimed[t]]
    /\ UNCHANGED <<invoked, pc, claimed, ret, j, output>>

(* The kernel driver binds to a UPS that is plugged in.                    *)
Plug ==
    /\ ~plugged
    /\ plugged' = TRUE /\ bound' = Kernel
    /\ UNCHANGED <<invoked, pc, hdev, claimed, ret, j, unplugs, output, alone>>

Over == (\A t \in Tools : At(t, "exited")) /\ UNCHANGED vars

Next == (\E t \in Tools : Tool(t) \/ Kill(t)) \/ Unplug \/ Plug \/ Over
Spec == Init /\ [][Next]_vars

(* The processes run on; a message has a timeout of five seconds.          *)
FairSpec == Spec /\ \A t \in Tools : WF_vars(Tool(t))

-----------------------------------------------------------------------------
Before  == {"options", "open", "detach", "claim"}
Session == {"descriptor", "dummy", "test", "beeper", "reports", "status",
            "ready", "release"}
After   == {"attach", "close", "exited"}

TypeOK ==
    /\ invoked \in [Tools -> Invocations]
    /\ pc \in [Tools -> Before \union Session \union After]
    /\ hdev \in [Tools -> {"none", "open", "stale"}]
    /\ claimed \in [Tools -> BOOLEAN] /\ ret \in [Tools -> 0 .. 2]
    /\ j \in [Tools -> Nat]
    /\ plugged \in BOOLEAN /\ unplugs \in 0 .. MaxUnplugs
    /\ bound \in Tools \union {Kernel, Nobody}
    /\ told \in [Tools -> SUBSET {"test", "beeper"}]
    /\ obeyed \in [Tools -> SUBSET {"test", "beeper"}]
    /\ alone \in [Tools -> BOOLEAN]

(* A tool that is going to end with a status other than 0.                 *)
Doomed(t) ==
    \/ At(t, "exited") /\ ret[t] # 0
    \/ pc[t] \in {"attach", "close"} /\ ret[t] # 0
    \/ pc[t] \in Session /\ (~claimed[t] \/ hdev[t] = "stale")

(* Whoever has claimed the interface, and has still the UPS of its handle, *)
(* has it bound and to itself; a process that has it bound is in the midst *)
(* of a session, or will fail; so what ends well was alone.                *)
ToolInv(t) ==
    /\ hdev[t] = "open" => plugged
    /\ pc[t] \in {"options", "open", "exited"} => hdev[t] = "none"
    /\ pc[t] \in Before \union {"exited"} => ~claimed[t]
    /\ claimed[t] /\ hdev[t] = "open" => pc[t] \in Session /\ bound = t /\ alone[t]
    /\ bound = t => /\ hdev[t] = "open"
                    /\ pc[t] \in Session \union {"attach", "close"}
                    /\ claimed[t] \/ Doomed(t)
    /\ pc[t] \in {"attach", "close"} => ret[t] # 0 \/ (alone[t] /\ ~claimed[t])
    /\ pc[t] = "exited" /\ ~Option(t, "h") => ret[t] # 0 \/ alone[t]

(* A kernel driver that is detached has somebody who is going to attach it *)
(* again, or a culprit: one that fails or was not asked to.                *)
Friend(t) ==
    \/ ~Option(t, "a") \/ Doomed(t)
    \/ hdev[t] = "open" /\ pc[t] \in {"claim"} \union Session \union {"attach"}

DriverHasFriend ==
    HasAttach /\ plugged /\ bound # Kernel => \E t \in Tools : Friend(t)

UpsInv ==
    /\ TypeOK
    /\ \A t \in Tools : ToolInv(t)
    /\ DriverHasFriend

(* An exit status of 0 of a run that was not for help means that the UPS   *)
(* was the tool's own from claim to release: no message of another tool    *)
(* reached it, it was not unplugged, and what was read is of one moment of *)
(* one UPS, although a failed claim is only worth a warning to main.       *)
ExitZeroAlone ==
    \A t \in Tools :
       At(t, "exited") /\ ret[t] = 0 /\ ~Option(t, "h") => alone[t]

(* "-a: attach kernel driver after use interface": when tools that were    *)
(* all given -a have ended well, however they overlapped, the kernel       *)
(* driver has its UPS again.  (A tool by itself cannot promise that: its   *)
(* attach fails, without a word, if another has claimed the interface.)    *)
DriverComesBack ==
    /\ HasAttach /\ plugged
    /\ \A t \in Tools : At(t, "exited") /\ ret[t] = 0 /\ Option(t, "a")
    => bound = Kernel

(* Whatever other tools hold, no tool waits for ever.                      *)
ToolsEnd == \A t \in Tools : <>At(t, "exited")

(* "OK" (usb_ups_apc_smart.c:352), as opposed to "Failed" (line 348): the  *)
(* UPS has been given the command.                                         *)
OKMeansDone == \A t \in Tools : told[t] \subseteq obeyed[t]
=============================================================================
