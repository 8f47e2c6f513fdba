------------------------------ MODULE RcUnslung ------------------------------
(***************************************************************************)
(* entware-opt/files/rc.unslung: runs every executable S* script of        *)
(* /opt/etc/init.d, one after the other, at boot, at shutdown or by hand.  *)
(* Composed with RcFunc: one shell, Boot, runs the scripts of the list;    *)
(* the other shells of Callers run single scripts meanwhile, as Boot does  *)
(* when it does not run rc.unslung.                                        *)
(*                                                                         *)
(* The name of a script is S, digits and a rest, as characters: numbers in *)
(* the order of the sort, the digits 0 .. 9.  A name that ends in .sh is   *)
(* sourced: the script's exit is then that of rc.unslung.                  *)
(***************************************************************************)
EXTENDS RcFunc, Integers, SequencesExt

CONSTANTS
    Boot,        \* the shell of rc.unslung
    Runs,        \* what rc.unslung is asked: [action, who]
    Digits,      \* the digits after the S of a script's name
    Rest,        \* what follows them, from the first other character on
    Sourced,     \* scripts named *.sh
    Executable,  \* scripts with the execute permission
    Missing      \* scripts that find no binary and exit before rc.func

ASSUME RcUnslungAssumption ==
    /\ Boot \in Callers /\ Runs \subseteq [action : Actions, who : STRING]
    /\ Digits \in [Services -> Seq(0 .. 9) \ {<<>>}]
    /\ Rest \in [Services -> Seq(Int)]
    /\ \A s \in Services : Rest[s] # <<>> => Rest[s][1] \notin 0 .. 9
    /\ \A s, t \in Services :
          Digits[s] \o Rest[s] = Digits[t] \o Rest[t] => s = t
    /\ Sourced \subseteq Services
    /\ Executable \subseteq Services /\ IsFiniteSet(Executable)
    /\ Missing \subseteq Services

VARIABLES
    todo,      \* scripts the for loop has still to run
    boot,      \* the request rc.unslung was called with, or Off
    visited,   \* observed only: scripts this run has run
    orderly    \* observed only: the services were in order when the run began

Off    == [action |-> "off"]
runner == <<todo, boot, visited, orderly>>
uvars  == <<sh, proc, old, crashes, todo, boot, visited, orderly>>

-----------------------------------------------------------------------------
(* sort: by character, a shorter name before its extensions                *)
Name(s) == Digits[s] \o Rest[s]

Before(s, t) ==
    LET a == Name(s)  b == Name(t)
    IN  \/ \E i \in DOMAIN a \intersect DOMAIN b :
              a[i] < b[i] /\ \A j \in 1 .. i - 1 : a[j] = b[j]
        \/ IsStrictPrefix(a, b)

Sorted(reverse) ==
    {list \in SetToSeqs(Executable) :
        \A i \in DOMAIN list : \A j \in 1 .. i - 1 :
           IF reverse THEN Before(list[i], list[j]) ELSE Before(list[j], list[i])}

(* Fault: the wrong way round.                                             *)
ORDER_Swapped(action) == action \notin {"stop", "restart", "kill"}

ORDER(action) == action \in {"stop", "restart", "kill"}

-----------------------------------------------------------------------------
(* What an observer sees of the services                                   *)

(* The number of s is lower than that of t: the digit of the highest power *)
(* of ten in which they differ is, a number without one having 0 there.    *)
DigitAt(s, k) == IF k < Len(Digits[s]) THEN Digits[s][Len(Digits[s]) - k] ELSE 0
Lower(s, t) ==
    \E k \in 0 .. Len(Digits[t]) - 1 :
       /\ DigitAt(s, k) < DigitAt(t, k)
       /\ \A m \in k + 1 .. Len(Digits[s]) + Len(Digits[t]) :
             DigitAt(s, m) = DigitAt(t, m)

(* A service has a process, launched or running, only while those of lower *)
(* numbers are up.                                                         *)
Ordered ==
    \A s, t \in Services :
       Lower(s, t) /\ ProcessesOf(t) # {} =>
          \A i \in DOMAIN Procs[s] : pidof(Procs[s][i])

(* No process dies of a signal nobody waits for.                           *)
Attended ==
    \A p \in Pids : proc[p].state = "dying" =>
        \E c \in Callers : At(c, "stopwait") /\ PROC(c) = proc[p].name

-----------------------------------------------------------------------------
UInit ==
    /\ Init
    /\ todo = <<>> /\ boot = Off /\ visited = {} /\ orderly = FALSE

RunUnslung(r) ==
    /\ boot = Off /\ At(Boot, "idle")
    /\ boot' = r
    /\ todo' \in Sorted(ORDER(r.action))
    /\ visited' = {}
    /\ orderly' = (Ordered /\ Attended)
    /\ UNCHANGED vars

(* Fault: a script that finds no binary is tried again.                    *)
RunScript_Retry ==
    /\ boot # Off /\ todo # <<>> /\ At(Boot, "idle")
    /\ visited' = visited \union {Head(todo)}
    /\ IF Head(todo) \in Missing
       THEN UNCHANGED <<vars, todo>>
       ELSE Invoke(Boot, Head(todo), boot) /\ todo' = Tail(todo)
    /\ UNCHANGED <<boot, orderly>>

(* A script without its binary exits at once: nothing, unless sourced.     *)
RunScript ==
    /\ boot # Off /\ todo # <<>> /\ At(Boot, "idle")
    /\ visited' = visited \union {Head(todo)}
    /\ IF Head(todo) \in Missing
       THEN /\ todo' = IF Head(todo) \in Sourced THEN <<>> ELSE Tail(todo)
            /\ UNCHANGED vars
       ELSE /\ Invoke(Boot, Head(todo), boot)
            /\ todo' = Tail(todo)
    /\ UNCHANGED <<boot, orderly>>

(* Fault: the first script that fails ends the loop.                       *)
BootShell_FirstError ==
    /\ boot # Off /\ Shell(Boot)
    /\ todo' = IF At(Boot, "exit") /\ sh[Boot].status # 0 THEN <<>> ELSE todo
    /\ UNCHANGED <<boot, visited, orderly>>

(* The usage error of rc.func and a failed fork exit the shell.            *)
BootShell ==
    /\ boot # Off /\ Shell(Boot)
    /\ todo' = IF /\ At(Boot, "exit") /\ sh[Boot].svc \in Sourced
                  /\ (sh[Boot].action = "?" \/ sh[Boot].status = 2)
               THEN <<>> ELSE todo
    /\ UNCHANGED <<boot, visited, orderly>>

EndUnslung ==
    /\ boot # Off /\ todo = <<>> /\ At(Boot, "idle")
    /\ boot' = Off
    /\ UNCHANGED <<vars, todo, visited, orderly>>

(* A shell that runs a single script, for cron or for a user.              *)
Single(c) == (c # Boot \/ boot = Off) /\ Shell(c) /\ UNCHANGED runner
Request(c, s, r) ==
    /\ c # Boot \/ boot = Off
    /\ s \notin Missing /\ Invoke(c, s, r)
    /\ UNCHANGED runner

UNext ==
    \/ \E r \in Runs : RunUnslung(r)
    \/ RunScript \/ BootShell \/ EndUnslung
    \/ \E c \in Callers :
          Single(c) \/ \E s \in Services, r \in Requests : Request(c, s, r)
    \/ \E p \in Pids : Process(p) /\ UNCHANGED runner

USpec == UInit /\ [][UNext]_uvars

(* The same fairness as RcFunc's; the loop of rc.unslung runs on.          *)
UFairSpec ==
    /\ USpec
    /\ WF_uvars(RunScript \/ BootShell \/ EndUnslung)
    /\ \A c \in Callers : WF_uvars(Single(c))
    /\ \A p \in Pids : /\ WF_uvars(Exec(p) /\ UNCHANGED runner)
                       /\ WF_uvars(Gone(p) /\ UNCHANGED runner)

-----------------------------------------------------------------------------
UTypeOK ==
    /\ TypeOK
    /\ todo \in Seq(Services) /\ visited \subseteq Services
    /\ boot \in Runs \union {Off} /\ orderly \in BOOLEAN

(* A sourced script that ended in an exit of the shell has ended the run.  *)
Aborted ==
    \E s \in Sourced \intersect visited :
       s \in Missing \/ boot.action = "?" \/ sh[Boot].status = 2

(* Every script is behind the run or before it, and the script that runs   *)
(* is one of this run.                                                     *)
RunCovers ==
    boot # Off =>
       /\ \/ visited \union ToSet(todo) = Executable
          \/ todo = <<>> /\ At(Boot, "idle") /\ Aborted
       /\ ~At(Boot, "idle") => /\ sh[Boot].svc \in visited
                               /\ sh[Boot].action = boot.action
                               /\ sh[Boot].who = boot.who

(* The script that runs comes before all that are left, and these are in   *)
(* the order of the run.                                                   *)
Precedes(s, t) == IF ORDER(boot.action) THEN Before(t, s) ELSE Before(s, t)

RunSorted ==
    boot # Off =>
       /\ \A i, j \in DOMAIN todo : i < j => Precedes(todo[i], todo[j])
       /\ ~At(Boot, "idle") => \A i \in DOMAIN todo : Precedes(sh[Boot].svc, todo[i])

(* The shells do what RcInv says, and the run goes through its list.       *)
UnslungInv == RcInv /\ UTypeOK /\ RunCovers /\ RunSorted

(* What keeps the services in order, see KeepsOrder: a run of start goes   *)
(* on when all PROCs of a script are up, and a run of stop when they are   *)
(* all gone.                                                               *)
InOrder(action) == orderly /\ boot # Off /\ boot.action = action /\ crashes = 0
Passed(i, locs) == i < sh[Boot].idx \/ (i = sh[Boot].idx /\ sh[Boot].pc \in locs)
AllUp(s)        == \A i \in DOMAIN Procs[s] : pidof(Procs[s][i])

StartInv ==
    /\ \A p \in Pids : proc[p].state # "dying"
    /\ \A s \in visited : AllUp(s) \/ (~At(Boot, "idle") /\ s = sh[Boot].svc)
    /\ ~At(Boot, "idle") =>
         /\ sh[Boot].pc \in {"case", "start", "spawn", "startwait", "started", "next", "exit"}
         /\ At(Boot, "startwait") => Processes(PROC(Boot)) # {}
         /\ \A i \in DOMAIN Procs[sh[Boot].svc] :
               Passed(i, {"started", "next", "exit"}) => pidof(Procs[sh[Boot].svc][i])
         /\ At(Boot, "exit") => sh[Boot].idx = Len(Procs[sh[Boot].svc])

StopInv ==
    /\ \A p \in Pids : proc[p].state = "dying" =>
         ~At(Boot, "idle") /\ p \in ProcessesOf(sh[Boot].svc)
    /\ \A s \in visited : ProcessesOf(s) = {} \/ (~At(Boot, "idle") /\ s = sh[Boot].svc)
    /\ ~At(Boot, "idle") =>
         /\ sh[Boot].pc \in {"case", "check", "stop", "stopwait", "stopped", "next", "exit"}
         /\ \A i \in DOMAIN Procs[sh[Boot].svc] :
               Passed(i, {"stopped", "next", "exit"}) => Processes(Procs[sh[Boot].svc][i]) = {}
         /\ At(Boot, "exit") => sh[Boot].idx = Len(Procs[sh[Boot].svc])

OrderInv ==
    /\ UnslungInv
    /\ InOrder("start") => StartInv /\ Ordered
    /\ InOrder("stop")  => StopInv /\ Ordered

(* "starting them in numerical order" (rc.unslung:6): when the start of a  *)
(* script begins, every script of a lower number has been run.             *)
StartedInOrder ==
    [][\A s \in Executable :
          /\ boot # Off /\ ~At(Boot, "start") /\ At(Boot, "start")'
          /\ s # sh[Boot].svc /\ Lower(s, sh[Boot].svc)
          => s \in visited]_uvars

(* Starting and stopping the whole system keeps the order of the numbers   *)
(* in the services themselves, not only in the calls: no service ever runs *)
(* without one it was started after, not even while it shuts down, as long *)
(* as no daemon crashes and none was out of order or dying at the outset.  *)
KeepsOrder ==
    orderly /\ boot # Off /\ boot.action \in {"start", "stop"} /\ crashes = 0
       => Ordered

(* No script that fails, hangs or finds no binary keeps the later ones     *)
(* from being run, unless it is sourced and exits.                         *)
RunVisitsAll ==
    [][boot # Off /\ boot' = Off => visited = Executable \/ Aborted]_uvars

(* A run of rc.unslung comes to its end.                                   *)
RunEnds == boot # Off ~> boot = Off

(* "Start/stop all init scripts" (rc.unslung:5): a run of start brings up  *)
(* every service it may start, all its processes at the same time, though  *)
(* launches outlast the wait, other scripts fail before and the scripts of *)
(* other shells overlap.  What excuses it is a later crash, no room for    *)
(* its own process, or the exit of a script that is sourced.               *)
MayStart == {s \in (Executable \intersect Enabled) \ Missing :
                s \in Critical \/ \A r \in Runs : r.who # "cron"}
ForkFailed(s) == At(Boot, "exit") /\ sh[Boot].svc = s /\ sh[Boot].status = 2

BootStartsServices ==
    (\A r \in Requests : r.action = "start") =>
       \A s \in MayStart, n \in 0 .. MaxCrashes :
          boot # Off /\ boot.action = "start" /\ visited = {} /\ crashes = n
             ~> AllUp(s) \/ crashes > n \/ ForkFailed(s) \/ Aborted
=============================================================================
