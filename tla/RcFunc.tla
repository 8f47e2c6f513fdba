------------------------------- MODULE RcFunc -------------------------------
(***************************************************************************)
(* The service control of Entware: entware-opt/files/rc.func, sourced by   *)
(* every start-stop script /opt/etc/init.d/S??name with its PROCS, ENABLED *)
(* and CRITICAL set, and run as "S??name ACTION [CALLER]".                 *)
(*                                                                         *)
(* A caller is a shell that runs one script.  It knows the daemons only by *)
(* their name: pidof tells whether a process of that name exists, killall  *)
(* signals all of them, nothing is locked and no pid is kept.  Between any *)
(* two commands of one shell other shells and the daemons take steps.  A   *)
(* process just forked is still called sh: pidof and killall do not see it.*)
(***************************************************************************)
EXTENDS Naturals, Sequences, FiniteSets

CONSTANTS
    Services,    \* the start-stop scripts
    Procs,       \* their PROCS, a sequence of process names each
    Enabled,     \* those with ENABLED=yes
    Critical,    \* those with CRITICAL=yes
    Callers,     \* shells that run a script
    Requests,    \* what is asked: [action, who], who is "cron" or another CALLER
    Pids,        \* process slots
    LIMIT,       \* seconds waited for a start or a stop: 10
    Timely,      \* no launch and no shutdown takes longer than the wait
    MaxCrashes   \* bound of the model: deaths no script asked for

Names   == UNION {{Procs[s][i] : i \in DOMAIN Procs[s]} : s \in Services}
Actions == {"start", "stop", "restart", "check", "kill", "reconfigure", "?"}

ASSUME RcFuncAssumption ==
    /\ Procs \in [Services -> Seq(STRING) \ {<<>>}]
    /\ Enabled \subseteq Services /\ Critical \subseteq Services
    /\ Requests \subseteq [action : Actions, who : STRING]
    /\ IsFiniteSet(Pids)
    /\ LIMIT \in Nat /\ MaxCrashes \in Nat /\ Timely \in BOOLEAN

VARIABLES
    sh,        \* the shells: where each is, for which script and request
    proc,      \* the processes: state and name
    old,       \* observed only: processes up when a restart began
    crashes    \* how many crashes there have been

vars == <<sh, proc, old, crashes>>

Free == [state |-> "free"]
Idle == [pc |-> "idle", status |-> 0]

-----------------------------------------------------------------------------
(* What the shell can see and do of the processes                          *)

Visible(n)  == {p \in Pids : proc[p].state \in {"up", "dying"} /\ proc[p].name = n}
Unborn(n)   == {p \in Pids : proc[p].state = "forked" /\ proc[p].name = n}
Processes(n) == Visible(n) \union Unborn(n)
pidof(n)    == Visible(n) # {}

PROC(c)     == Procs[sh[c].svc][sh[c].idx]

At(c, loc)        == sh[c].pc = loc
Goto(c, loc)      == sh' = [sh EXCEPT ![c].pc = loc]
Wait(c, loc)      == sh' = [sh EXCEPT ![c].pc = loc, ![c].counter = 0]
SleepOne(c)       == sh' = [sh EXCEPT ![c].counter = @ + 1]

(* The function returns: the status of the loop body, then the next PROC.  *)
Return(c, status) == sh' = [sh EXCEPT ![c].pc = "next", ![c].status = status]

ProcsSame         == UNCHANGED <<proc, crashes>>

-----------------------------------------------------------------------------
Init ==
    /\ sh = [c \in Callers |-> Idle]
    /\ proc \in [Pids -> {Free} \union [state : {"up"}, name : Names]]
    /\ \A n \in Names : Cardinality(Visible(n)) <= 1
    /\ old = [c \in Callers |-> {}]
    /\ crashes = 0

(* cron, rc.unslung or a user runs the script of a service.                *)
Invoke(c, s, r) ==
    /\ At(c, "idle")
    /\ sh' = [sh EXCEPT ![c] = [pc |-> "case", svc |-> s, action |-> r.action,
                                who |-> r.who, idx |-> 1, counter |-> 0,
                                status |-> 0]]
    /\ old' = [old EXCEPT ![c] =
                 {p \in Pids : r.action = "restart" /\ proc[p].state = "up"}]
    /\ ProcsSame

(* for PROC in $PROCS; do case $ACTION in ...                              *)
Case(c) ==
    /\ At(c, "case")
    /\ CASE sh[c].action = "start"                          -> Goto(c, "start")
         [] sh[c].action \in {"stop", "kill", "restart", "check"} -> Goto(c, "check")
         [] sh[c].action = "reconfigure"                    -> Goto(c, "reconfigure")
         [] OTHER -> sh' = [sh EXCEPT ![c].pc = "exit", ![c].status = 1]
    /\ ProcsSame /\ UNCHANGED old

(* Fault: one PROC too many.                                               *)
NextProc_OffByOne(c) ==
    /\ At(c, "next")
    /\ IF sh[c].idx <= Len(Procs[sh[c].svc])
       THEN sh' = [sh EXCEPT ![c].pc = "case", ![c].idx = @ + 1]
       ELSE Goto(c, "exit")
    /\ ProcsSame /\ UNCHANGED old

NextProc(c) ==
    /\ At(c, "next")
    /\ IF sh[c].idx < Len(Procs[sh[c].svc])
       THEN sh' = [sh EXCEPT ![c].pc = "case", ![c].idx = @ + 1]
       ELSE Goto(c, "exit")
    /\ ProcsSame /\ UNCHANGED old

(* The script ends; its exit status is that of the last PROC.              *)
Exit(c) ==
    /\ At(c, "exit")
    /\ sh' = [sh EXCEPT ![c] = [Idle EXCEPT !.status = sh[c].status]]
    /\ old' = [old EXCEPT ![c] = {}]
    /\ ProcsSame

-----------------------------------------------------------------------------
(* start()                                                                 *)

Refused(c) ==
    IF sh[c].svc \notin Critical /\ sh[c].who = "cron" THEN 7
    ELSE IF sh[c].svc \notin Enabled THEN 8 ELSE 0

(* Fault: start does not look whether the daemon runs.                     *)
StartTest_Blind(c) ==
    /\ At(c, "start")
    /\ IF Refused(c) # 0 THEN Return(c, Refused(c)) ELSE Goto(c, "spawn")
    /\ ProcsSame /\ UNCHANGED old

StartTest(c) ==
    /\ At(c, "start")
    /\ IF Refused(c) # 0     THEN Return(c, Refused(c))
       ELSE IF pidof(PROC(c)) THEN Return(c, 0)
       ELSE Goto(c, "spawn")
    /\ ProcsSame /\ UNCHANGED old

(* $PRECMD; $PREARGS $PROC $ARGS &   A fork that fails ends the shell.     *)
Spawn(c) ==
    /\ At(c, "spawn")
    /\ \/ \E p \in Pids :
             /\ proc[p] = Free
             /\ proc' = [proc EXCEPT ![p] = [state |-> "forked", name |-> PROC(c)]]
             /\ Wait(c, "startwait")
       \/ /\ \A p \in Pids : proc[p] # Free
          /\ sh' = [sh EXCEPT ![c].pc = "exit", ![c].status = 2]
          /\ UNCHANGED proc
    /\ UNCHANGED <<old, crashes>>

(* Fault: the wait has no limit.                                           *)
StartWait_Endless(c) ==
    /\ At(c, "startwait")
    /\ IF pidof(PROC(c)) THEN Goto(c, "started") ELSE UNCHANGED sh
    /\ ProcsSame /\ UNCHANGED old

(* One turn of the loop; the last one sees the end of the launch if Timely.*)
StartWait(c) ==
    /\ At(c, "startwait")
    /\ IF ~pidof(PROC(c)) /\ sh[c].counter <= LIMIT
       THEN /\ Timely /\ sh[c].counter = LIMIT => Unborn(PROC(c)) = {}
            /\ SleepOne(c)
       ELSE Goto(c, "started")
    /\ ProcsSame /\ UNCHANGED old

(* Fault: a launch that outlasts the wait is given up and killed.          *)
Started_GiveUp(c) ==
    /\ At(c, "started")
    /\ proc' = [p \in Pids |-> IF p \in Unborn(PROC(c)) THEN Free ELSE proc[p]]
    /\ Return(c, IF pidof(PROC(c)) THEN 0 ELSE 255)
    /\ UNCHANGED <<old, crashes>>

(* $POSTCMD, then the verdict.                                             *)
Started(c) ==
    /\ At(c, "started")
    /\ Return(c, IF pidof(PROC(c)) THEN 0 ELSE 255)
    /\ ProcsSame /\ UNCHANGED old

-----------------------------------------------------------------------------
(* check() and what follows it in the loop: check && stop, or for restart  *)
(* check && stop; start                                                    *)

Check(c) ==
    /\ At(c, "check")
    /\ LET alive == pidof(PROC(c))
       IN  CASE sh[c].action = "check"           -> Return(c, IF alive THEN 0 ELSE 1)
             [] sh[c].action # "check" /\ alive  -> Goto(c, "stop")
             [] sh[c].action = "restart" /\ ~alive -> Goto(c, "start")
             [] OTHER                            -> Return(c, 1)
    /\ ProcsSame /\ UNCHANGED old

(* killall: TERM starts the shutdown of a daemon, KILL cannot be refused.  *)
Stop(c) ==
    /\ At(c, "stop")
    /\ proc' = [p \in Pids |->
                  IF p \in Visible(PROC(c))
                  THEN [proc[p] EXCEPT !.state = "dying"] ELSE proc[p]]
    /\ IF sh[c].action = "kill" THEN Goto(c, "stopped") ELSE Wait(c, "stopwait")
    /\ UNCHANGED <<old, crashes>>

(* Fault: stop does not wait for the end of the daemon.                    *)
StopWait_None(c) ==
    /\ At(c, "stopwait") /\ Goto(c, "stopped")
    /\ ProcsSame /\ UNCHANGED old

StopWait(c) ==
    /\ At(c, "stopwait")
    /\ IF pidof(PROC(c)) /\ sh[c].counter <= LIMIT
       THEN /\ Timely /\ sh[c].counter = LIMIT =>
                 \A p \in Visible(PROC(c)) : proc[p].state # "dying"
            /\ SleepOne(c)
       ELSE Goto(c, "stopped")
    /\ ProcsSame /\ UNCHANGED old

(* Fault: stop always reports success.                                     *)
Stopped_Blind(c) ==
    /\ At(c, "stopped")
    /\ IF sh[c].action = "restart" THEN Goto(c, "start") ELSE Return(c, 0)
    /\ ProcsSame /\ UNCHANGED old

(* The status of stop is that of the loop body unless a start follows.     *)
Stopped(c) ==
    /\ At(c, "stopped")
    /\ IF sh[c].action = "restart" THEN Goto(c, "start")
       ELSE Return(c, IF pidof(PROC(c)) THEN 255 ELSE 0)
    /\ ProcsSame /\ UNCHANGED old

(* killall -SIGHUP: a daemon without a handler dies of it.                 *)
Reconfigure(c) ==
    /\ At(c, "reconfigure")
    /\ \E victims \in SUBSET Visible(PROC(c)) :
          proc' = [p \in Pids |->
                     IF p \in victims THEN [proc[p] EXCEPT !.state = "dying"]
                     ELSE proc[p]]
    /\ Return(c, IF pidof(PROC(c)) THEN 0 ELSE 1)
    /\ UNCHANGED <<old, crashes>>

Shell(c) ==
    \/ Case(c) \/ NextProc(c) \/ Exit(c)
    \/ StartTest(c) \/ Spawn(c) \/ StartWait(c) \/ Started(c)
    \/ Check(c) \/ Stop(c) \/ StopWait(c) \/ Stopped(c)
    \/ Reconfigure(c)

-----------------------------------------------------------------------------
(* The daemons                                                             *)

Exec(p) ==
    /\ proc[p].state = "forked"
    /\ proc' = [proc EXCEPT ![p].state = "up"]
    /\ UNCHANGED <<sh, old, crashes>>

(* A dying process is gone once its exit is complete.                      *)
Gone(p) ==
    /\ proc[p].state = "dying"
    /\ proc' = [proc EXCEPT ![p] = Free]
    /\ old' = [c \in Callers |-> old[c] \ {p}]
    /\ UNCHANGED <<sh, crashes>>

(* The launch fails (no such program, bad configuration) or the daemon     *)
(* crashes.                                                                *)
Crash(p) ==
    /\ proc[p].state \in {"forked", "up"} /\ crashes < MaxCrashes
    /\ proc' = [proc EXCEPT ![p] = Free]
    /\ old' = [c \in Callers |-> old[c] \ {p}]
    /\ crashes' = crashes + 1
    /\ UNCHANGED sh

Process(p) == Exec(p) \/ Gone(p) \/ Crash(p)

Next ==
    \/ \E c \in Callers :
          \/ Shell(c)
          \/ \E s \in Services, r \in Requests : Invoke(c, s, r)
    \/ \E p \in Pids : Process(p)

Spec == Init /\ [][Next]_vars

(* The shells run on and a launch or a shutdown comes to its end; nobody   *)
(* has to invoke anything.                                                 *)
FairSpec ==
    /\ Spec
    /\ \A c \in Callers : WF_vars(Shell(c))
    /\ \A p \in Pids : WF_vars(Exec(p)) /\ WF_vars(Gone(p))

-----------------------------------------------------------------------------
Locations == {"idle", "case", "next", "exit", "start", "spawn", "startwait",
              "started", "check", "stop", "stopwait", "stopped", "reconfigure"}

Statuses    == {0, 1, 2, 7, 8, 255}
ShellStates ==
    [pc : {"idle"}, status : Statuses]
    \union [pc : Locations \ {"idle"}, svc : Services, action : Actions, who : STRING,
            idx : Nat \ {0}, counter : 0 .. LIMIT + 1, status : Statuses]

TypeOK ==
    /\ sh \in [Callers -> ShellStates]
    /\ \A c \in Callers : ~At(c, "idle") => sh[c].idx \in DOMAIN Procs[sh[c].svc]
    /\ proc \in [Pids -> {Free} \union
                         [state : {"forked", "up", "dying"}, name : Names]]
    /\ old \in [Callers -> SUBSET Pids]
    /\ crashes \in 0 .. MaxCrashes

(* Timely launches, and scripts that overlap only if their daemons differ: *)
(* no script ever leaves two processes of a daemon, whatever is asked in   *)
(* whatever order and even if daemons crash in between.                    *)
AtMostOneInstance ==
    \A n \in Names : Cardinality(Processes(n)) <= 1

ProcessesOf(s) == UNION {Processes(Procs[s][i]) : i \in DOMAIN Procs[s]}
LastOf(s)      == Processes(Procs[s][Len(Procs[s])])

-----------------------------------------------------------------------------
(* The inductive invariant of timely daemons and of shells that run at the *)
(* same time only scripts for different daemons                            *)

OneCaller == \A c, d \in Callers : c = d

Owns(c, n) == ~At(c, "idle") /\ \E i \in DOMAIN Procs[sh[c].svc] : Procs[sh[c].svc][i] = n
Disjoint   == \A c, d \in Callers : \A n \in Names : Owns(c, n) /\ Owns(d, n) => c = d

OneEach ==
    \A p, q \in Pids :
       proc[p] # Free /\ proc[q] # Free /\ proc[p].name = proc[q].name => p = q

(* What is still being launched is waited for.                             *)
Awaits(c, p) == At(c, "startwait") /\ PROC(c) = proc[p].name /\ sh[c].counter <= LIMIT
LaunchesAwaited ==
    \A p \in Pids : proc[p].state = "forked" => \E c \in Callers : Awaits(c, p)

ActionFits(c) ==
    /\ sh[c].pc \in {"start", "spawn", "startwait", "started"} =>
          sh[c].action \in {"start", "restart"}
    /\ sh[c].pc \in {"check", "stop", "stopwait", "stopped"} =>
          sh[c].action \in {"stop", "kill", "restart", "check"}
    /\ sh[c].pc \in {"stop", "stopwait", "stopped"} => sh[c].action # "check"
    /\ At(c, "stopwait") => sh[c].action # "kill"
    /\ At(c, "reconfigure") => sh[c].action = "reconfigure"

(* Spawning begins when there is nothing of that name.                     *)
SpawnsAlone(c) == At(c, "spawn") => Processes(PROC(c)) = {}

(* stop waits until what killall has signalled is gone.                    *)
StopsComplete(c) ==
    /\ At(c, "stopwait") => \A p \in Visible(PROC(c)) : proc[p].state = "dying"
    /\ \/ At(c, "stopwait") /\ sh[c].counter > LIMIT
       \/ At(c, "stopped") /\ sh[c].action # "kill"
       => Visible(PROC(c)) = {}

(* The exit status is that of the last PROC, unless it is an error that    *)
(* ends the shell; refusals are for good.                                  *)
StatusMeansLast(c) ==
    /\ At(c, "exit") /\ sh[c].status \in {0, 7, 8} =>
          sh[c].idx = Len(Procs[sh[c].svc])
    /\ At(c, "next") \/ At(c, "exit") =>
          (sh[c].action \in {"stop", "kill"} /\ sh[c].status = 0 =>
             Processes(PROC(c)) = {})
    /\ ~At(c, "idle") /\ sh[c].status \in {7, 8} => Refused(c) # 0

(* The PROCs that the loop of stop, kill and restart has brought down: all *)
(* before this one, and this one once check or stop is over.               *)
Handled(c, i) ==
    \/ i < sh[c].idx
    \/ i = sh[c].idx /\ sh[c].pc \notin {"case", "check", "stop", "stopwait", "stopped"}

(* restart has left nothing of what ran before, and nothing at all if its  *)
(* start is refused.                                                       *)
RestartSoFar(c) ==
    /\ \A p \in old[c] : proc[p].state \in {"up", "dying"}
    /\ ~At(c, "idle") =>
          /\ Refused(c) # 0 => sh[c].pc \notin {"spawn", "startwait", "started"}
          /\ sh[c].action = "restart" =>
                \A i \in DOMAIN Procs[sh[c].svc] : Handled(c, i) =>
                   /\ \A p \in old[c] : proc[p].name # Procs[sh[c].svc][i]
                   /\ Refused(c) # 0 => Processes(Procs[sh[c].svc][i]) = {}

(* What keeps AtMostOneInstance, and what makes exit statuses true: see    *)
(* StopLeavesNone, RestartReplaces and RefusedRestartStops.                *)
ShellInv(c) ==
    /\ ActionFits(c) /\ SpawnsAlone(c) /\ StopsComplete(c)
    /\ StatusMeansLast(c) /\ RestartSoFar(c)

RcInv == TypeOK /\ OneEach /\ LaunchesAwaited /\ \A c \in Callers : ShellInv(c)

-----------------------------------------------------------------------------
(* What exit statuses mean                                                 *)

Ends(c, actions, status) ==
    /\ At(c, "exit") /\ At(c, "idle")'
    /\ sh[c].action \in actions /\ sh[c].status \in status

(* stop or kill that exits 0 leaves no process of the last PROC, not even  *)
(* one that is still being launched and that killall could not see.        *)
StopLeavesNone ==
    [][\A c \in Callers :
          Ends(c, {"stop", "kill"}, {0}) => LastOf(sh[c].svc) = {}]_vars

(* restart that exits 0 has replaced the daemon: none of the processes     *)
(* that ran when it was asked for still runs.                              *)
RestartReplaces ==
    [][\A c \in Callers :
          Ends(c, {"restart"}, {0}) => old[c] \intersect ProcessesOf(sh[c].svc) = {}]_vars

(* restart whose start is refused (7: not CRITICAL and asked for by cron,  *)
(* 8: not ENABLED) has nevertheless stopped the service: it is down.       *)
RefusedRestartStops ==
    [][\A c \in Callers :
          Ends(c, {"restart"}, {7, 8}) => ProcessesOf(sh[c].svc) = {}]_vars

(* Every script comes to its end, whatever the daemons and the other       *)
(* shells do: the waits are bounded.                                       *)
ScriptsEnd == \A c \in Callers : ~At(c, "idle") ~> At(c, "idle")
=============================================================================
