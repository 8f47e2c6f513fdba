----------------------------- MODULE RcFunc_proofs -----------------------------
(* Proofs about RcFunc, for any scripts, process names and requests.       *)
EXTENDS RcFunc, FiniteSetTheorems, TLAPS

Busy == [pc : Locations \ {"idle"}, svc : Services, action : Actions, who : STRING,
         idx : Nat \ {0}, counter : 0 .. LIMIT + 1, status : Statuses]

ProcStates == {Free} \union [state : {"forked", "up", "dying"}, name : Names]

LEMMA BusyShell ==
    ASSUME TypeOK, NEW c \in Callers, ~At(c, "idle")
    PROVE  /\ sh[c] \in Busy
           /\ sh[c].idx \in DOMAIN Procs[sh[c].svc]
           /\ PROC(c) \in Names
<1>1. sh[c] \in Busy /\ sh[c].idx \in DOMAIN Procs[sh[c].svc]
  BY DEF TypeOK, ShellStates, Busy, At
<1> QED
  BY <1>1 DEF PROC, Names, Busy

(* A shell that takes a step, to wherever, with the same request.          *)
Moves(c, loc, idx, counter, status) ==
    /\ sh[c] \in Busy /\ sh'[c] \in Busy
    /\ sh' = [sh EXCEPT ![c] = sh'[c]]
    /\ sh'[c].pc = loc /\ sh'[c].idx = idx /\ sh'[c].counter = counter
    /\ sh'[c].status = status
    /\ sh'[c].svc = sh[c].svc /\ sh'[c].action = sh[c].action /\ sh'[c].who = sh[c].who

LEMMA ShellMoves ==
    ASSUME TypeOK, NEW c \in Callers, ~At(c, "idle")
    PROVE  /\ \A l \in Locations \ {"idle"} : Goto(c, l) =>
                Moves(c, l, sh[c].idx, sh[c].counter, sh[c].status)
           /\ \A l \in Locations \ {"idle"} : Wait(c, l) =>
                Moves(c, l, sh[c].idx, 0, sh[c].status)
           /\ SleepOne(c) /\ sh[c].counter <= LIMIT =>
                Moves(c, sh[c].pc, sh[c].idx, sh[c].counter + 1, sh[c].status)
           /\ \A st \in Statuses : Return(c, st) =>
                Moves(c, "next", sh[c].idx, sh[c].counter, st)
<1>1. sh[c] \in Busy /\ sh \in [Callers -> ShellStates]
  BY BusyShell DEF TypeOK
<1>2. 0 \in 0 .. LIMIT + 1 /\ LIMIT \in Nat
  BY RcFuncAssumption
<1>3. ASSUME NEW l \in Locations \ {"idle"}, Goto(c, l)
      PROVE  Moves(c, l, sh[c].idx, sh[c].counter, sh[c].status)
  BY <1>1, <1>3 DEF Goto, Moves, Busy
<1>4. ASSUME NEW l \in Locations \ {"idle"}, Wait(c, l)
      PROVE  Moves(c, l, sh[c].idx, 0, sh[c].status)
  BY <1>1, <1>2, <1>4 DEF Wait, Moves, Busy
<1>5. ASSUME SleepOne(c), sh[c].counter <= LIMIT
      PROVE  Moves(c, sh[c].pc, sh[c].idx, sh[c].counter + 1, sh[c].status)
  BY <1>1, <1>2, <1>5 DEF SleepOne, Moves, Busy
<1>6. ASSUME NEW st \in Statuses, Return(c, st)
      PROVE  Moves(c, "next", sh[c].idx, sh[c].counter, st)
  BY <1>1, <1>6 DEF Return, Moves, Busy, Locations
<1> QED
  BY <1>3, <1>4, <1>5, <1>6

LEMMA ShellEnds ==
    ASSUME TypeOK, NEW c \in Callers, ~At(c, "idle"), NEW st \in Statuses,
           sh' = [sh EXCEPT ![c].pc = "exit", ![c].status = st]
    PROVE  Moves(c, "exit", sh[c].idx, sh[c].counter, st)
<1>1. sh[c] \in Busy /\ sh \in [Callers -> ShellStates]
  BY BusyShell DEF TypeOK
<1> QED
  BY <1>1 DEF Moves, Busy, Locations

LEMMA ShellTurns ==
    ASSUME TypeOK, NEW c \in Callers, ~At(c, "idle"),
           sh' = [sh EXCEPT ![c].pc = "case", ![c].idx = @ + 1]
    PROVE  Moves(c, "case", sh[c].idx + 1, sh[c].counter, sh[c].status)
<1>1. sh[c] \in Busy /\ sh \in [Callers -> ShellStates]
  BY BusyShell DEF TypeOK
<1> QED
  BY <1>1 DEF Moves, Busy, Locations

(* What every shell's variables have to be, apart from the processes.      *)
ShellType(f) ==
    /\ f \in [Callers -> ShellStates]
    /\ \A c \in Callers : f[c].pc # "idle" => f[c].idx \in DOMAIN Procs[f[c].svc]

LEMMA MovesType ==
    ASSUME TypeOK, NEW c \in Callers, NEW loc, NEW idx, NEW counter, NEW st,
           Moves(c, loc, idx, counter, st), idx \in DOMAIN Procs[sh[c].svc]
    PROVE  ShellType(sh')
<1>1. sh'[c] \in ShellStates
  BY DEF Moves, ShellStates, Busy
<1>2. sh' \in [Callers -> ShellStates]
  BY <1>1 DEF Moves, TypeOK
<1>3. ASSUME NEW d \in Callers, sh'[d].pc # "idle"
      PROVE  sh'[d].idx \in DOMAIN Procs[sh'[d].svc]
  <2>1. CASE d = c
    BY <2>1 DEF Moves
  <2>2. CASE d # c
    BY <1>3, <2>2 DEF Moves, TypeOK, At
  <2> QED
    BY <2>1, <2>2
<1> QED
  BY <1>2, <1>3 DEF ShellType

(* Processes that are signalled keep their names and stay visible.         *)
LEMMA Signalled ==
    ASSUME TypeOK, NEW victims,
           \A p \in Pids : p \in victims => proc[p].state \in {"up", "dying"},
           proc' = [p \in Pids |-> IF p \in victims
                                    THEN [proc[p] EXCEPT !.state = "dying"] ELSE proc[p]]
    PROVE  /\ proc' \in [Pids -> ProcStates]
           /\ \A p \in Pids :
                 /\ proc'[p] # Free <=> proc[p] # Free
                 /\ proc[p] # Free => proc'[p].name = proc[p].name
                 /\ proc'[p].state = "forked" <=> proc[p].state = "forked"
                 /\ proc'[p].state \in {"up", "dying"} <=> proc[p].state \in {"up", "dying"}
                 /\ p \in victims => proc'[p].state = "dying"
                 /\ p \notin victims => proc'[p] = proc[p]
<1>1. ASSUME NEW p \in Pids
      PROVE  /\ proc'[p] \in ProcStates
             /\ proc'[p] # Free <=> proc[p] # Free
             /\ proc[p] # Free => proc'[p].name = proc[p].name
             /\ proc'[p].state = "forked" <=> proc[p].state = "forked"
             /\ proc'[p].state \in {"up", "dying"} <=> proc[p].state \in {"up", "dying"}
             /\ p \in victims => proc'[p].state = "dying"
             /\ p \notin victims => proc'[p] = proc[p]
             /\ proc[p].state # "free" => proc[p] # Free
  <2>1. proc[p] \in ProcStates
    BY DEF TypeOK, ProcStates
  <2> QED
    BY <2>1 DEF ProcStates, Free
<1>2. proc' \in [Pids -> ProcStates]
  BY <1>1
<1> QED
  BY <1>1, <1>2

LEMMA ShellRuns ==
    ASSUME TypeOK, NEW c \in Callers, ~At(c, "idle")
    PROVE  /\ sh[c].idx \in Nat /\ sh[c].idx \in DOMAIN Procs[sh[c].svc]
           /\ sh[c].action \in Actions /\ sh[c].status \in Statuses
           /\ sh[c].counter \in 0 .. LIMIT + 1 /\ LIMIT \in Nat
           /\ Len(Procs[sh[c].svc]) \in Nat
           /\ DOMAIN Procs[sh[c].svc] = 1 .. Len(Procs[sh[c].svc])
  BY BusyShell, RcFuncAssumption DEF Busy

(* Where a command that leaves the processes alone takes the shell.        *)
CaseMoves(c) ==
    /\ At(c, "case")
    /\ \/ /\ sh[c].action = "start" /\ Moves(c, "start", sh[c].idx, sh[c].counter, sh[c].status)
       \/ /\ sh[c].action \in {"stop", "kill", "restart", "check"}
          /\ Moves(c, "check", sh[c].idx, sh[c].counter, sh[c].status)
       \/ /\ sh[c].action = "reconfigure"
          /\ Moves(c, "reconfigure", sh[c].idx, sh[c].counter, sh[c].status)
       \/ /\ sh[c].action = "?" /\ Moves(c, "exit", sh[c].idx, sh[c].counter, 1)

NextProcMoves(c) ==
    /\ At(c, "next")
    /\ \/ /\ sh[c].idx < Len(Procs[sh[c].svc])
          /\ Moves(c, "case", sh[c].idx + 1, sh[c].counter, sh[c].status)
       \/ /\ sh[c].idx = Len(Procs[sh[c].svc])
          /\ Moves(c, "exit", sh[c].idx, sh[c].counter, sh[c].status)

StartTestMoves(c) ==
    /\ At(c, "start")
    /\ \/ /\ Refused(c) # 0 /\ Moves(c, "next", sh[c].idx, sh[c].counter, Refused(c))
       \/ /\ Refused(c) = 0 /\ pidof(PROC(c))
          /\ Moves(c, "next", sh[c].idx, sh[c].counter, 0)
       \/ /\ Refused(c) = 0 /\ ~pidof(PROC(c))
          /\ Moves(c, "spawn", sh[c].idx, sh[c].counter, sh[c].status)

StartWaitMoves(c) ==
    /\ At(c, "startwait")
    /\ \/ /\ ~pidof(PROC(c)) /\ sh[c].counter < LIMIT
          /\ Moves(c, "startwait", sh[c].idx, sh[c].counter + 1, sh[c].status)
       \/ /\ ~pidof(PROC(c)) /\ sh[c].counter = LIMIT /\ Unborn(PROC(c)) = {}
          /\ Moves(c, "startwait", sh[c].idx, sh[c].counter + 1, sh[c].status)
       \/ /\ pidof(PROC(c)) \/ sh[c].counter > LIMIT
          /\ Moves(c, "started", sh[c].idx, sh[c].counter, sh[c].status)

StartedMoves(c) ==
    /\ At(c, "started")
    /\ \E st \in {0, 255} : Moves(c, "next", sh[c].idx, sh[c].counter, st)

CheckMoves(c) ==
    /\ At(c, "check")
    /\ \/ /\ sh[c].action = "check"
          /\ \E st \in {0, 1} : Moves(c, "next", sh[c].idx, sh[c].counter, st)
       \/ /\ sh[c].action # "check" /\ pidof(PROC(c))
          /\ Moves(c, "stop", sh[c].idx, sh[c].counter, sh[c].status)
       \/ /\ sh[c].action = "restart" /\ ~pidof(PROC(c))
          /\ Moves(c, "start", sh[c].idx, sh[c].counter, sh[c].status)
       \/ /\ sh[c].action # "restart" /\ ~pidof(PROC(c))
          /\ Moves(c, "next", sh[c].idx, sh[c].counter, 1)

StopWaitMoves(c) ==
    /\ At(c, "stopwait")
    /\ \/ /\ pidof(PROC(c)) /\ sh[c].counter < LIMIT
          /\ Moves(c, "stopwait", sh[c].idx, sh[c].counter + 1, sh[c].status)
       \/ /\ sh[c].counter = LIMIT /\ \A p \in Visible(PROC(c)) : proc[p].state # "dying"
          /\ Moves(c, "stopwait", sh[c].idx, sh[c].counter + 1, sh[c].status)
       \/ /\ ~pidof(PROC(c)) \/ sh[c].counter > LIMIT
          /\ Moves(c, "stopped", sh[c].idx, sh[c].counter, sh[c].status)

StoppedMoves(c) ==
    /\ At(c, "stopped")
    /\ \/ /\ sh[c].action = "restart"
          /\ Moves(c, "start", sh[c].idx, sh[c].counter, sh[c].status)
       \/ /\ sh[c].action # "restart"
          /\ \/ pidof(PROC(c)) /\ Moves(c, "next", sh[c].idx, sh[c].counter, 255)
             \/ ~pidof(PROC(c)) /\ Moves(c, "next", sh[c].idx, sh[c].counter, 0)

QuietMove(c) ==
    \/ CaseMoves(c) \/ NextProcMoves(c) \/ StartTestMoves(c) \/ StartWaitMoves(c)
    \/ StartedMoves(c) \/ CheckMoves(c) \/ StopWaitMoves(c) \/ StoppedMoves(c)

-----------------------------------------------------------------------------
(* Shells that run at the same time, for different daemons                 *)

LEMMA OwnProc ==
    ASSUME TypeOK, NEW c \in Callers, ~At(c, "idle")
    PROVE  PROC(c) \in Names /\ Owns(c, PROC(c))
BY BusyShell DEF Owns, PROC

(* A launch of one of a shell's daemons is that shell's.                   *)
LEMMA OwnLaunch ==
    ASSUME RcInv, Disjoint, NEW c \in Callers, NEW p \in Pids,
           proc[p].state = "forked", Owns(c, proc[p].name)
    PROVE  Awaits(c, p)
<1>1. PICK d \in Callers : Awaits(d, p)
  BY DEF RcInv, LaunchesAwaited
<1>2. ~At(d, "idle") /\ TypeOK
  BY <1>1 DEF Awaits, At, RcInv
<1>3. proc[p].name \in Names /\ Owns(d, proc[p].name)
  BY <1>1, <1>2, OwnProc DEF Awaits
<1> QED
  BY <1>1, <1>3 DEF Disjoint

(* What a command of a shell may do to the processes: launch one of the    *)
(* name it is about, or signal those of that name.                         *)
Touches(c) ==
    \A p \in Pids :
       \/ proc'[p] = proc[p]
       \/ /\ proc[p] = Free
          /\ proc'[p].state = "forked" /\ proc'[p].name = PROC(c)
       \/ /\ proc[p].state \in {"up", "dying"} /\ proc[p].name = PROC(c)
          /\ proc'[p].state = "dying" /\ proc'[p].name = PROC(c)

LEMMA Bystander ==
    ASSUME RcInv, Disjoint, NEW c \in Callers, ~At(c, "idle"), Touches(c),
           NEW d \in Callers, d # c, sh'[d] = sh[d], old'[d] = old[d]
    PROVE  ShellInv(d)'
<1>0. TypeOK /\ ShellInv(d) /\ old[d] \subseteq Pids
  BY DEF RcInv, TypeOK
<1>1. \A n \in Names : Owns(d, n) => n # PROC(c)
  BY <1>0, OwnProc DEF Disjoint
<1>2. ASSUME NEW n \in Names, Owns(d, n)
      PROVE  /\ Visible(n)' = Visible(n) /\ Processes(n)' = Processes(n)
             /\ \A p \in Visible(n) : proc'[p] = proc[p]
  <2>1. ASSUME NEW p \in Pids
        PROVE  \/ proc'[p] = proc[p]
               \/ ~(proc[p].state \in {"forked", "up", "dying"} /\ proc[p].name = n)
                  /\ proc'[p].name # n
    BY <1>1, <1>2 DEF Touches, Free
  <2> QED
    BY <2>1 DEF Visible, Unborn, Processes
<1>3. \A p \in old[d] : proc'[p].state \in {"up", "dying"} /\ proc'[p].name = proc[p].name
  <2>1. \A p \in old[d] : p \in Pids /\ proc[p].state \in {"up", "dying"}
    BY <1>0 DEF ShellInv, RestartSoFar
  <2> QED
    BY <2>1 DEF Touches, Free
<1>4. CASE At(d, "idle")
  BY <1>3, <1>4 DEF ShellInv, ActionFits, SpawnsAlone, StopsComplete, StatusMeansLast,
                    RestartSoFar, At
<1>5. CASE ~At(d, "idle")
  <2>1. /\ PROC(d)' = PROC(d) /\ Refused(d)' = Refused(d)
        /\ \A i : Handled(d, i)' <=> Handled(d, i)
    BY DEF PROC, Refused, Handled
  <2>2. PROC(d) \in Names /\ Owns(d, PROC(d))
    BY <1>0, <1>5, OwnProc
  <2>3. /\ Visible(PROC(d))' = Visible(PROC(d)) /\ Processes(PROC(d))' = Processes(PROC(d))
        /\ \A p \in Visible(PROC(d)) : proc'[p] = proc[p]
    BY <1>2, <2>1, <2>2 DEF Visible, Unborn, Processes
  <2>4. ActionFits(d)' /\ SpawnsAlone(d)' /\ StopsComplete(d)' /\ StatusMeansLast(d)'
    BY <1>0, <2>1, <2>3
    DEF ShellInv, ActionFits, SpawnsAlone, StopsComplete, StatusMeansLast, At
  <2>5. ASSUME NEW i \in DOMAIN Procs[sh[d].svc]
        PROVE  Processes(Procs[sh[d].svc][i])' = Processes(Procs[sh[d].svc][i])
    <3>1. Procs[sh[d].svc][i] \in Names /\ Owns(d, Procs[sh[d].svc][i])
      BY <1>0, <1>5, BusyShell DEF Names, Owns, Busy
    <3> QED
      BY <1>2, <3>1 DEF Visible, Unborn, Processes
  <2>6. RestartSoFar(d)'
    <3>1. RestartSoFar(d)
      BY <1>0 DEF ShellInv
    <3>2. \A p \in old'[d] : proc'[p].state \in {"up", "dying"}
      BY <1>3
    <3>3. Refused(d) # 0 => sh'[d].pc \notin {"spawn", "startwait", "started"}
      BY <1>5, <3>1 DEF RestartSoFar
    <3>4. ASSUME sh[d].action = "restart", NEW i \in DOMAIN Procs[sh[d].svc], Handled(d, i)
          PROVE  /\ \A p \in old'[d] : proc'[p].name # Procs[sh[d].svc][i]
                 /\ Refused(d) # 0 => Processes(Procs[sh[d].svc][i])' = {}
      BY <1>3, <1>5, <2>5, <3>1, <3>4 DEF RestartSoFar
    <3> QED
      BY <2>1, <3>2, <3>3, <3>4 DEF RestartSoFar, Processes, Visible, Unborn
  <2> QED
    BY <2>4, <2>6 DEF ShellInv
<1> QED
  BY <1>4, <1>5

(* So the invariant is kept by a step that is right for its own shell.     *)
LEMMA OwnStep ==
    ASSUME RcInv, Disjoint, NEW c \in Callers, ~At(c, "idle"), Touches(c),
           \A d \in Callers : d # c => sh'[d] = sh[d] /\ old'[d] = old[d],
           TypeOK', OneEach', ShellInv(c)',
           \A p \in Pids : proc'[p].state = "forked" /\ Owns(c, proc'[p].name) => Awaits(c, p)'
    PROVE  RcInv'
<1>1. \A d \in Callers : ShellInv(d)'
  BY Bystander
<1>2. LaunchesAwaited'
  <2> SUFFICES ASSUME NEW p \in Pids, proc'[p].state = "forked", ~Owns(c, proc'[p].name)
               PROVE  \E d \in Callers : Awaits(d, p)'
    BY DEF LaunchesAwaited
  <2>1. TypeOK /\ PROC(c) \in Names /\ Owns(c, PROC(c))
    BY OwnProc DEF RcInv
  <2>2. proc'[p] = proc[p]
    BY <2>1 DEF Touches
  <2>3. PICK d \in Callers : Awaits(d, p)
    BY <2>2 DEF RcInv, LaunchesAwaited
  <2>4. d # c
    BY <2>1, <2>2, <2>3 DEF Awaits
  <2> QED
    BY <2>2, <2>3, <2>4 DEF Awaits, At, PROC
<1> QED
  BY <1>1, <1>2 DEF RcInv

(* Such a move keeps the invariant, whatever the command.                  *)
LEMMA QuietStep ==
    ASSUME RcInv, Disjoint, Timely, NEW c \in Callers, ~At(c, "idle"),
           proc' = proc, old' = old, crashes' = crashes, QuietMove(c)
    PROVE  RcInv'
<1>0. TypeOK /\ OneEach /\ ShellInv(c)
  BY DEF RcInv
<1>b. /\ sh[c].idx \in Nat /\ sh[c].idx \in DOMAIN Procs[sh[c].svc]
      /\ sh[c].action \in Actions /\ sh[c].status \in Statuses
      /\ sh[c].counter \in 0 .. LIMIT + 1 /\ LIMIT \in Nat
      /\ Len(Procs[sh[c].svc]) \in Nat
      /\ DOMAIN Procs[sh[c].svc] = 1 .. Len(Procs[sh[c].svc])
  BY <1>0, ShellRuns
<1>f. \A p \in Pids : proc[p].state = "forked" /\ Owns(c, proc[p].name) => Awaits(c, p)
  BY OwnLaunch
<1>o. PROC(c) \in Names /\ Owns(c, PROC(c))
  BY <1>0, OwnProc
<1>g. /\ \A n : Visible(n)' = Visible(n) /\ Processes(n)' = Processes(n)
      /\ ~At(c, "startwait") => Processes(PROC(c)) = Visible(PROC(c))
  <2>1. \A n : Visible(n)' = Visible(n) /\ Processes(n)' = Processes(n)
    BY DEF Visible, Unborn, Processes
  <2>2. ~At(c, "startwait") => Unborn(PROC(c)) = {}
    BY <1>f, <1>o DEF Unborn, Awaits
  <2> QED
    BY <2>1, <2>2 DEF Processes
<1>k. /\ Moves(c, sh'[c].pc, sh'[c].idx, sh'[c].counter, sh'[c].status)
      /\ sh'[c].idx = sh[c].idx \/ (NextProcMoves(c) /\ sh'[c].idx = sh[c].idx + 1)
      /\ sh'[c].idx \in DOMAIN Procs[sh[c].svc]
  BY <1>b DEF QuietMove, CaseMoves, NextProcMoves, StartTestMoves, StartWaitMoves,
              StartedMoves, CheckMoves, StopWaitMoves, StoppedMoves, Moves
<1>r. /\ Refused(c)' = Refused(c)
      /\ sh'[c].idx = sh[c].idx => PROC(c)' = PROC(c)
  BY <1>k DEF Moves, Refused, PROC
<1>1. TypeOK'
  <2>1. ShellType(sh')
    BY <1>0, <1>k, MovesType
  <2> QED
    BY <1>0, <2>1 DEF TypeOK, ShellType, At
<1>2. OneEach' /\ ActionFits(c)'
  <2>1. OneEach'
    BY <1>0 DEF OneEach
  <2> DEFINE Fits(pc, action) ==
        /\ pc \in {"start", "spawn", "startwait", "started"} => action \in {"start", "restart"}
        /\ pc \in {"check", "stop", "stopwait", "stopped"} =>
              action \in {"stop", "kill", "restart", "check"}
        /\ pc \in {"stop", "stopwait", "stopped"} => action # "check"
        /\ pc = "stopwait" => action # "kill"
        /\ pc = "reconfigure" => action = "reconfigure"
  <2>2. Fits(sh[c].pc, sh[c].action)
    BY <1>0 DEF ShellInv, ActionFits, At
  <2>3. Fits(sh'[c].pc, sh[c].action)
    <3>1. CASE CaseMoves(c) \/ NextProcMoves(c)
      BY <3>1 DEF Moves, CaseMoves, NextProcMoves
    <3>2. CASE StartTestMoves(c) \/ StartWaitMoves(c) \/ StartedMoves(c)
      BY <2>2, <3>2 DEF Moves, At, StartTestMoves, StartWaitMoves, StartedMoves
    <3>3. CASE CheckMoves(c)
      BY <2>2, <3>3 DEF Moves, At, CheckMoves
    <3>4. CASE StopWaitMoves(c) \/ StoppedMoves(c)
      BY <2>2, <3>4 DEF Moves, At, StopWaitMoves, StoppedMoves
    <3> QED
      BY <3>1, <3>2, <3>3, <3>4 DEF QuietMove
  <2>4. Fits(sh'[c].pc, sh'[c].action)
    BY <1>k, <2>3 DEF Moves
  <2>5. ActionFits(c)'
    BY <2>4 DEF ActionFits, At
  <2> QED
    BY <2>1, <2>5
<1>3. ASSUME NEW p \in Pids, proc[p].state = "forked", Owns(c, proc[p].name)
      PROVE  Awaits(c, p)'
  <2>1. At(c, "startwait") /\ PROC(c) = proc[p].name /\ sh[c].counter <= LIMIT
    BY <1>f, <1>3 DEF Awaits
  <2>2. ~pidof(PROC(c)) /\ Unborn(PROC(c)) # {}
    BY <1>0, <1>3, <2>1 DEF OneEach, Free, pidof, Visible, Unborn
  <2>3. StartWaitMoves(c)
    BY <2>1
    DEF QuietMove, CaseMoves, NextProcMoves, StartTestMoves, StartWaitMoves,
        StartedMoves, CheckMoves, StopWaitMoves, StoppedMoves, At
  <2>4. Moves(c, "startwait", sh[c].idx, sh[c].counter + 1, sh[c].status) /\ sh[c].counter < LIMIT
    BY <1>b, <2>1, <2>2, <2>3 DEF StartWaitMoves
  <2> QED
    BY <1>b, <1>r, <2>1, <2>4 DEF Moves, At, Awaits
<1>s. SpawnsAlone(c)'
  <2> SUFFICES ASSUME At(c, "spawn")' PROVE Processes(PROC(c))' = {}
    BY DEF SpawnsAlone
  <2>1. StartTestMoves(c) /\ ~pidof(PROC(c)) /\ sh'[c].idx = sh[c].idx
    BY DEF QuietMove, CaseMoves, NextProcMoves, StartTestMoves, StartWaitMoves,
           StartedMoves, CheckMoves, StopWaitMoves, StoppedMoves, Moves, At
  <2>2. Processes(PROC(c)) = {} /\ PROC(c)' = PROC(c)
    BY <1>g, <1>r, <2>1 DEF StartTestMoves, At, pidof
  <2> QED
    BY <1>g, <2>2
<1>4. StopsComplete(c)'
  <2>1. CASE StopWaitMoves(c)
    <3>1. sh'[c].idx = sh[c].idx /\ \A p \in Visible(PROC(c)) : proc[p].state = "dying"
      BY <2>1 DEF RcInv, ShellInv, StopsComplete, StopWaitMoves, Moves
    <3>2. \/ sh'[c].pc = "stopwait" /\ sh'[c].counter <= LIMIT
          \/ sh'[c].pc = "stopwait" /\ Visible(PROC(c)) = {}
          \/ sh'[c].pc = "stopped" /\ Visible(PROC(c)) = {}
      BY <1>b, <2>1, <3>1 DEF RcInv, ShellInv, StopsComplete, StopWaitMoves, Moves, At, pidof
    <3>3. Visible(PROC(c))' = Visible(PROC(c))
      BY <1>g, <1>r, <3>1
    <3>4. sh'[c].counter \in Nat
      BY <1>b, <2>1 DEF StopWaitMoves, Moves
    <3> QED
      BY <1>b, <3>1, <3>2, <3>3, <3>4 DEF StopsComplete, At
  <2>2. CASE ~StopWaitMoves(c)
    <3>1. sh'[c].pc \notin {"stopwait", "stopped"}
      BY <2>2
      DEF QuietMove, CaseMoves, NextProcMoves, StartTestMoves, StartWaitMoves,
          StartedMoves, CheckMoves, StoppedMoves, Moves
    <3> QED
      BY <3>1 DEF StopsComplete, At
  <2> QED
    BY <2>1, <2>2
<1>5. StatusMeansLast(c)'
  <2>1. ASSUME At(c, "exit")', sh'[c].status \in {0, 7, 8}
        PROVE  sh'[c].idx = Len(Procs[sh'[c].svc])
    BY <2>1
    DEF QuietMove, CaseMoves, NextProcMoves, StartTestMoves, StartWaitMoves,
        StartedMoves, CheckMoves, StopWaitMoves, StoppedMoves, Moves, At
  <2>2. ASSUME At(c, "next")' \/ At(c, "exit")', sh[c].action \in {"stop", "kill"},
               sh'[c].status = 0
        PROVE  Processes(PROC(c))' = {}
    <3>1. /\ sh'[c].idx = sh[c].idx
          /\ \/ At(c, "next") /\ sh[c].status = 0
             \/ At(c, "stopped") /\ ~pidof(PROC(c))
      BY <1>0, <2>2
      DEF QuietMove, CaseMoves, NextProcMoves, StartTestMoves, StartWaitMoves,
          StartedMoves, CheckMoves, StopWaitMoves, StoppedMoves, Moves, At, ShellInv, ActionFits
    <3>2. Processes(PROC(c)) = {}
      BY <1>g, <2>2, <3>1 DEF RcInv, ShellInv, StatusMeansLast, At, pidof
    <3> QED
      BY <1>g, <1>r, <3>1, <3>2
  <2>3. ASSUME sh'[c].status \in {7, 8} PROVE Refused(c)' # 0
    <3>1. sh[c].status \in {7, 8} => Refused(c) # 0
      BY DEF RcInv, ShellInv, StatusMeansLast
    <3>2. sh'[c].status = sh[c].status \/ Refused(c) # 0
      BY <2>3
      DEF QuietMove, CaseMoves, NextProcMoves, StartTestMoves, StartWaitMoves,
          StartedMoves, CheckMoves, StopWaitMoves, StoppedMoves, Moves
    <3> QED
      BY <1>r, <2>3, <3>1, <3>2
  <2>4. sh'[c].action = sh[c].action
    BY <1>k DEF Moves
  <2> QED
    BY <2>1, <2>2, <2>3, <2>4 DEF StatusMeansLast, At
<1>6. RestartSoFar(c)'
  <2>1. ASSUME sh[c].action = "restart", NEW i \in DOMAIN Procs[sh[c].svc], Handled(c, i)'
        PROVE  Handled(c, i) \/ (i = sh[c].idx /\ Processes(PROC(c)) = {})
    <3>1. CASE CaseMoves(c) \/ NextProcMoves(c) \/ StartTestMoves(c)
      BY <1>b, <2>1, <3>1
      DEF Handled, Moves, At, CaseMoves, NextProcMoves, StartTestMoves
    <3>2. CASE StartWaitMoves(c) \/ StartedMoves(c)
      BY <1>b, <2>1, <3>2 DEF Handled, Moves, At, StartWaitMoves, StartedMoves
    <3>3. CASE CheckMoves(c)
      BY <1>b, <1>g, <2>1, <3>3 DEF Handled, Moves, At, CheckMoves, pidof
    <3>4. CASE StopWaitMoves(c)
      BY <1>b, <2>1, <3>4 DEF Handled, Moves, At, StopWaitMoves
    <3>5. CASE StoppedMoves(c)
      <4>1. Visible(PROC(c)) = {}
        BY <2>1, <3>5 DEF RcInv, ShellInv, StopsComplete, StoppedMoves, At
      <4> QED
        BY <1>b, <1>g, <2>1, <3>5, <4>1 DEF Handled, Moves, At, StoppedMoves
    <3> QED
      BY <3>1, <3>2, <3>3, <3>4, <3>5 DEF QuietMove
  <2>2. ASSUME sh[c].action = "restart", NEW i \in DOMAIN Procs[sh[c].svc], Handled(c, i)'
        PROVE  /\ \A p \in old[c] : proc[p].name # Procs[sh[c].svc][i]
               /\ Refused(c) # 0 => Processes(Procs[sh[c].svc][i]) = {}
    BY <1>0, <2>1, <2>2 DEF RcInv, ShellInv, TypeOK, RestartSoFar, PROC, Processes, Visible
  <2>3. Refused(c) # 0 => sh'[c].pc \notin {"spawn", "startwait", "started"}
    <3>1. Refused(c) # 0 => sh[c].pc \notin {"spawn", "startwait", "started"}
      BY DEF RcInv, ShellInv, RestartSoFar
    <3> QED
      BY <3>1
      DEF QuietMove, CaseMoves, NextProcMoves, StartTestMoves, StartWaitMoves,
          StartedMoves, CheckMoves, StopWaitMoves, StoppedMoves, Moves, At
  <2>4. /\ sh'[c].action = sh[c].action /\ sh'[c].svc = sh[c].svc
        /\ \A p \in old[c] : proc[p].state \in {"up", "dying"}
    BY <1>k DEF Moves, RcInv, ShellInv, RestartSoFar
  <2> QED
    BY <1>g, <1>r, <2>2, <2>3, <2>4 DEF RestartSoFar
<1>d. \A d \in Callers : d # c => sh'[d] = sh[d] /\ old'[d] = old[d]
  BY <1>0, <1>k DEF Moves, TypeOK
<1>e. ShellInv(c)'
  BY <1>2, <1>s, <1>4, <1>5, <1>6 DEF ShellInv
<1> QED
  BY <1>1, <1>2, <1>3, <1>d, <1>e, OwnStep DEF Touches

LEMMA CaseStep ==
    ASSUME RcInv, Disjoint, Timely, NEW c \in Callers, Case(c)
    PROVE  RcInv'
<1>1. ~At(c, "idle") /\ At(c, "case") /\ TypeOK
  BY DEF Case, At, RcInv
<1>2. /\ sh[c].idx \in Nat /\ sh[c].idx \in 1 .. Len(Procs[sh[c].svc])
      /\ Len(Procs[sh[c].svc]) \in Nat /\ LIMIT \in Nat
      /\ sh[c].action \in Actions /\ sh[c].status \in Statuses /\ sh[c].counter \in 0 .. LIMIT + 1
  BY <1>1, ShellRuns
<1>3. CaseMoves(c)
  BY <1>1, <1>2, ShellMoves, ShellEnds
  DEF Case, CaseMoves, Statuses, Locations, Actions, At, Refused
<1> QED
  BY <1>1, <1>3, QuietStep DEF Case, ProcsSame, QuietMove

LEMMA NextProcStep ==
    ASSUME RcInv, Disjoint, Timely, NEW c \in Callers, NextProc(c)
    PROVE  RcInv'
<1>1. ~At(c, "idle") /\ At(c, "next") /\ TypeOK
  BY DEF NextProc, At, RcInv
<1>2. /\ sh[c].idx \in Nat /\ sh[c].idx \in 1 .. Len(Procs[sh[c].svc])
      /\ Len(Procs[sh[c].svc]) \in Nat /\ LIMIT \in Nat
      /\ sh[c].action \in Actions /\ sh[c].status \in Statuses /\ sh[c].counter \in 0 .. LIMIT + 1
  BY <1>1, ShellRuns
<1>3. NextProcMoves(c)
  BY <1>1, <1>2, ShellMoves, ShellTurns
  DEF NextProc, NextProcMoves, Statuses, Locations, Actions, At, Refused
<1> QED
  BY <1>1, <1>3, QuietStep DEF NextProc, ProcsSame, QuietMove

LEMMA StartTestStep ==
    ASSUME RcInv, Disjoint, Timely, NEW c \in Callers, StartTest(c)
    PROVE  RcInv'
<1>1. ~At(c, "idle") /\ At(c, "start") /\ TypeOK
  BY DEF StartTest, At, RcInv
<1>2. /\ sh[c].idx \in Nat /\ sh[c].idx \in 1 .. Len(Procs[sh[c].svc])
      /\ Len(Procs[sh[c].svc]) \in Nat /\ LIMIT \in Nat
      /\ sh[c].action \in Actions /\ sh[c].status \in Statuses /\ sh[c].counter \in 0 .. LIMIT + 1
  BY <1>1, ShellRuns
<1>3. StartTestMoves(c)
  BY <1>1, <1>2, ShellMoves
  DEF StartTest, StartTestMoves, Statuses, Locations, Actions, At, Refused
<1> QED
  BY <1>1, <1>3, QuietStep DEF StartTest, ProcsSame, QuietMove

LEMMA StartWaitStep ==
    ASSUME RcInv, Disjoint, Timely, NEW c \in Callers, StartWait(c)
    PROVE  RcInv'
<1>1. ~At(c, "idle") /\ At(c, "startwait") /\ TypeOK
  BY DEF StartWait, At, RcInv
<1>2. /\ sh[c].idx \in Nat /\ sh[c].idx \in 1 .. Len(Procs[sh[c].svc])
      /\ Len(Procs[sh[c].svc]) \in Nat /\ LIMIT \in Nat
      /\ sh[c].action \in Actions /\ sh[c].status \in Statuses /\ sh[c].counter \in 0 .. LIMIT + 1
  BY <1>1, ShellRuns
<1>3. StartWaitMoves(c)
  BY <1>1, <1>2, ShellMoves
  DEF StartWait, StartWaitMoves, Statuses, Locations, Actions, At, Refused
<1> QED
  BY <1>1, <1>3, QuietStep DEF StartWait, ProcsSame, QuietMove

LEMMA StartedStep ==
    ASSUME RcInv, Disjoint, Timely, NEW c \in Callers, Started(c)
    PROVE  RcInv'
<1>1. ~At(c, "idle") /\ At(c, "started") /\ TypeOK
  BY DEF Started, At, RcInv
<1>2. /\ sh[c].idx \in Nat /\ sh[c].idx \in 1 .. Len(Procs[sh[c].svc])
      /\ Len(Procs[sh[c].svc]) \in Nat /\ LIMIT \in Nat
      /\ sh[c].action \in Actions /\ sh[c].status \in Statuses /\ sh[c].counter \in 0 .. LIMIT + 1
  BY <1>1, ShellRuns
<1>3. StartedMoves(c)
  BY <1>1, <1>2, ShellMoves
  DEF Started, StartedMoves, Statuses, Locations, Actions, At, Refused
<1> QED
  BY <1>1, <1>3, QuietStep DEF Started, ProcsSame, QuietMove

LEMMA CheckStep ==
    ASSUME RcInv, Disjoint, Timely, NEW c \in Callers, Check(c)
    PROVE  RcInv'
<1>1. ~At(c, "idle") /\ At(c, "check") /\ TypeOK
  BY DEF Check, At, RcInv
<1>2. /\ sh[c].idx \in Nat /\ sh[c].idx \in 1 .. Len(Procs[sh[c].svc])
      /\ Len(Procs[sh[c].svc]) \in Nat /\ LIMIT \in Nat
      /\ sh[c].action \in Actions /\ sh[c].status \in Statuses /\ sh[c].counter \in 0 .. LIMIT + 1
  BY <1>1, ShellRuns
<1>3. CheckMoves(c)
  BY <1>1, <1>2, ShellMoves
  DEF Check, CheckMoves, Statuses, Locations, Actions, At, Refused
<1> QED
  BY <1>1, <1>3, QuietStep DEF Check, ProcsSame, QuietMove

LEMMA StopWaitStep ==
    ASSUME RcInv, Disjoint, Timely, NEW c \in Callers, StopWait(c)
    PROVE  RcInv'
<1>1. ~At(c, "idle") /\ At(c, "stopwait") /\ TypeOK
  BY DEF StopWait, At, RcInv
<1>2. /\ sh[c].idx \in Nat /\ sh[c].idx \in 1 .. Len(Procs[sh[c].svc])
      /\ Len(Procs[sh[c].svc]) \in Nat /\ LIMIT \in Nat
      /\ sh[c].action \in Actions /\ sh[c].status \in Statuses /\ sh[c].counter \in 0 .. LIMIT + 1
  BY <1>1, ShellRuns
<1>3. StopWaitMoves(c)
  BY <1>1, <1>2, ShellMoves
  DEF StopWait, StopWaitMoves, Statuses, Locations, Actions, At, Refused
<1> QED
  BY <1>1, <1>3, QuietStep DEF StopWait, ProcsSame, QuietMove

LEMMA StoppedStep ==
    ASSUME RcInv, Disjoint, Timely, NEW c \in Callers, Stopped(c)
    PROVE  RcInv'
<1>1. ~At(c, "idle") /\ At(c, "stopped") /\ TypeOK
  BY DEF Stopped, At, RcInv
<1>2. /\ sh[c].idx \in Nat /\ sh[c].idx \in 1 .. Len(Procs[sh[c].svc])
      /\ Len(Procs[sh[c].svc]) \in Nat /\ LIMIT \in Nat
      /\ sh[c].action \in Actions /\ sh[c].status \in Statuses /\ sh[c].counter \in 0 .. LIMIT + 1
  BY <1>1, ShellRuns
<1>3. StoppedMoves(c)
  BY <1>1, <1>2, ShellMoves
  DEF Stopped, StoppedMoves, Statuses, Locations, Actions, At, Refused
<1> QED
  BY <1>1, <1>3, QuietStep DEF Stopped, ProcsSame, QuietMove

LEMMA SpawnStep ==
    ASSUME RcInv, Disjoint, Timely, NEW c \in Callers, Spawn(c)
    PROVE  RcInv'
<1>0. ~At(c, "idle") /\ At(c, "spawn") /\ TypeOK
  BY DEF Spawn, At, RcInv
<1>b. /\ sh[c].idx \in Nat /\ sh[c].idx \in DOMAIN Procs[sh[c].svc]
      /\ sh[c].action \in Actions /\ sh[c].status \in Statuses
      /\ sh[c].counter \in 0 .. LIMIT + 1 /\ LIMIT \in Nat
      /\ Len(Procs[sh[c].svc]) \in Nat
      /\ DOMAIN Procs[sh[c].svc] = 1 .. Len(Procs[sh[c].svc])
      /\ PROC(c) \in Names
  BY <1>0, BusyShell, RcFuncAssumption DEF Busy
<1>f. \A p \in Pids : proc[p].state = "forked" => ~Owns(c, proc[p].name)
  BY <1>0, OwnLaunch DEF Awaits, At
<1>a. old' = old /\ crashes' = crashes
  BY DEF Spawn
<1>d. \A d \in Callers : d # c => sh'[d] = sh[d] /\ old'[d] = old[d]
  BY <1>0, <1>a DEF Spawn, Wait, TypeOK
<1>s. Processes(PROC(c)) = {} /\ Refused(c) = 0
  BY <1>0 DEF RcInv, ShellInv, SpawnsAlone, RestartSoFar, At
<1>g. CASE \E p \in Pids : /\ proc[p] = Free
                          /\ proc' = [proc EXCEPT ![p] = [state |-> "forked", name |-> PROC(c)]]
                          /\ Wait(c, "startwait")
  <2>1. PICK p \in Pids : /\ proc[p] = Free
                          /\ proc' = [proc EXCEPT ![p] = [state |-> "forked", name |-> PROC(c)]]
                          /\ Wait(c, "startwait")
    BY <1>g
  <2>m. Moves(c, "startwait", sh[c].idx, 0, sh[c].status)
    BY <1>0, <2>1, ShellMoves DEF Locations
  <2>p. /\ proc \in [Pids -> ProcStates] /\ proc' \in [Pids -> ProcStates]
        /\ proc'[p] = [state |-> "forked", name |-> PROC(c)]
        /\ \A q \in Pids : q # p => proc'[q] = proc[q]
        /\ \A q \in Pids : proc[q] # Free => proc[q].name # PROC(c)
        /\ proc[p].state = "free"
    <3>1. proc \in [Pids -> ProcStates]
      BY <1>0 DEF TypeOK, ProcStates
    <3>2. proc' \in [Pids -> ProcStates]
      BY <1>b, <2>1, <3>1 DEF ProcStates
    <3> QED
      BY <1>s, <2>1, <3>1, <3>2 DEF ProcStates, Processes, Visible, Unborn, Free
  <2>1a. TypeOK'
    <3>1. ShellType(sh')
      BY <1>0, <1>b, <2>m, MovesType
    <3> QED
      BY <1>0, <1>a, <2>p, <3>1 DEF TypeOK, ShellType, ProcStates, At
  <2>2. OneEach' /\ ActionFits(c)'
    BY <1>0, <2>p, <2>m DEF RcInv, ShellInv, OneEach, ActionFits, Moves, At
  <2>3. /\ SpawnsAlone(c)'
        /\ \A q \in Pids : proc'[q].state = "forked" /\ Owns(c, proc'[q].name) => Awaits(c, q)'
    <3>1. ASSUME NEW q \in Pids, proc'[q].state = "forked", Owns(c, proc'[q].name)
          PROVE  Awaits(c, q)'
      <4>1. q = p
        BY <1>f, <2>p, <3>1
      <4> QED
        BY <1>b, <2>m, <2>p, <4>1 DEF Awaits, Moves, At, PROC
    <3> QED
      BY <2>m, <3>1 DEF SpawnsAlone, Moves, At
  <2>4. StopsComplete(c)'
    BY <1>0, <2>m DEF StopsComplete, Moves, At
  <2>5. StatusMeansLast(c)'
    BY <1>0, <2>m DEF RcInv, ShellInv, StatusMeansLast, Moves, At, Refused
  <2>6. RestartSoFar(c)'
    <3>1. \A q \in old[c] : q \in Pids /\ q # p
      BY <1>0, <2>p DEF RcInv, ShellInv, TypeOK, RestartSoFar
    <3>2. /\ Refused(c)' = 0 /\ \A i : Handled(c, i)' <=> Handled(c, i)
      BY <1>0, <1>s, <2>m DEF Moves, Refused, Handled, At
    <3> QED
      BY <1>0, <1>a, <2>m, <2>p, <3>1, <3>2 DEF RcInv, ShellInv, RestartSoFar, Moves, At
  <2>7. ShellInv(c)' /\ Touches(c)
    BY <2>1, <2>2, <2>3, <2>4, <2>5, <2>6, <2>p DEF ShellInv, Touches
  <2> QED
    BY <1>0, <1>d, <2>1a, <2>2, <2>3, <2>7, OwnStep
<1>h. CASE proc' = proc /\ sh' = [sh EXCEPT ![c].pc = "exit", ![c].status = 2]
  <2>m. Moves(c, "exit", sh[c].idx, sh[c].counter, 2)
    BY <1>0, <1>h, ShellEnds DEF Statuses
  <2>1. TypeOK'
    <3>1. ShellType(sh')
      BY <1>0, <1>b, <2>m, MovesType
    <3> QED
      BY <1>0, <1>a, <1>h, <3>1 DEF TypeOK, ShellType, At
  <2>2. OneEach' /\ ActionFits(c)'
    BY <1>0, <1>h, <2>m DEF RcInv, ShellInv, OneEach, ActionFits, Moves, At
  <2>3. SpawnsAlone(c)'
    BY <2>m DEF SpawnsAlone, Moves, At
  <2>4. StopsComplete(c)' /\ StatusMeansLast(c)'
    BY <1>0, <2>m DEF StopsComplete, StatusMeansLast, Moves, At
  <2>6. RestartSoFar(c)'
    <3>2. /\ Refused(c)' = 0 /\ \A i : Handled(c, i)' <=> Handled(c, i)
      BY <1>0, <1>s, <2>m DEF Moves, Refused, Handled, At
    <3>3. /\ \A p \in old[c] : proc[p].state \in {"up", "dying"}
          /\ sh[c].action = "restart" =>
                \A i \in DOMAIN Procs[sh[c].svc] : Handled(c, i) =>
                   \A p \in old[c] : proc[p].name # Procs[sh[c].svc][i]
      BY <1>0 DEF RcInv, ShellInv, RestartSoFar
    <3>4. sh'[c].svc = sh[c].svc /\ sh'[c].action = sh[c].action /\ sh'[c].pc = "exit"
      BY <2>m DEF Moves
    <3>5. \A p \in old'[c] : proc'[p].state \in {"up", "dying"}
      BY <1>a, <1>h, <3>3
    <3>6. sh[c].action = "restart" =>
             \A i \in DOMAIN Procs[sh[c].svc] : Handled(c, i)' =>
                \A p \in old'[c] : proc'[p].name # Procs[sh[c].svc][i]
      BY <1>a, <1>h, <3>2, <3>3
    <3> QED
      BY <3>2, <3>4, <3>5, <3>6 DEF RestartSoFar
  <2>7. ShellInv(c)' /\ Touches(c)
    BY <1>h, <2>2, <2>3, <2>4, <2>6 DEF ShellInv, Touches
  <2> QED
    BY <1>0, <1>d, <1>f, <1>h, <2>1, <2>2, <2>7, OwnStep
<1> QED
  BY <1>g, <1>h DEF Spawn

LEMMA StopStep ==
    ASSUME RcInv, Disjoint, Timely, NEW c \in Callers, Stop(c)
    PROVE  RcInv'
<1>0. ~At(c, "idle") /\ At(c, "stop") /\ TypeOK
  BY DEF Stop, At, RcInv
<1>b. /\ sh[c].idx \in Nat /\ sh[c].idx \in DOMAIN Procs[sh[c].svc]
      /\ sh[c].counter \in 0 .. LIMIT + 1 /\ LIMIT \in Nat
  BY <1>0, BusyShell, RcFuncAssumption DEF Busy
<1>f. \A p \in Pids : proc[p].state = "forked" => ~Owns(c, proc[p].name)
  BY <1>0, OwnLaunch DEF Awaits, At
<1>a. old' = old /\ crashes' = crashes
  BY DEF Stop
<1>m. \/ /\ sh[c].action = "kill"
         /\ Moves(c, "stopped", sh[c].idx, sh[c].counter, sh[c].status)
      \/ /\ sh[c].action # "kill" /\ Moves(c, "stopwait", sh[c].idx, 0, sh[c].status)
  BY <1>0, ShellMoves DEF Stop, Locations
<1>p. /\ proc' \in [Pids -> ProcStates]
      /\ \A p \in Pids :
            /\ proc'[p] # Free <=> proc[p] # Free
            /\ proc[p] # Free => proc'[p].name = proc[p].name
            /\ proc'[p].state = "forked" <=> proc[p].state = "forked"
            /\ proc'[p].state \in {"up", "dying"} <=> proc[p].state \in {"up", "dying"}
            /\ p \in Visible(PROC(c)) => proc'[p].state = "dying"
  <2> DEFINE victims == Visible(PROC(c))
  <2>1. \A p \in Pids : p \in victims => proc[p].state \in {"up", "dying"}
    BY DEF Visible
  <2>2. proc' = [p \in Pids |-> IF p \in victims
                                 THEN [proc[p] EXCEPT !.state = "dying"] ELSE proc[p]]
    BY DEF Stop
  <2> HIDE DEF victims
  <2>3. \A p \in Pids : p \in victims => proc'[p].state = "dying"
    BY <1>0, <2>1, <2>2, Signalled
  <2>4. /\ proc' \in [Pids -> ProcStates]
        /\ \A p \in Pids :
            /\ proc'[p] # Free <=> proc[p] # Free
            /\ proc[p] # Free => proc'[p].name = proc[p].name
            /\ proc'[p].state = "forked" <=> proc[p].state = "forked"
            /\ proc'[p].state \in {"up", "dying"} <=> proc[p].state \in {"up", "dying"}
      BY <1>0, <2>1, <2>2, Signalled
  <2> QED
    BY <2>3, <2>4 DEF victims
<1>t. Touches(c)
  <2>1. \A p \in Pids : p \notin Visible(PROC(c)) => proc'[p] = proc[p]
    BY DEF Stop
  <2> QED
    BY <1>p, <2>1 DEF Touches, Visible, Free
<1>1. TypeOK'
  <2>1. ShellType(sh')
    BY <1>0, <1>b, <1>m, MovesType
  <2> QED
    BY <1>0, <1>a, <1>p, <2>1 DEF TypeOK, ShellType, ProcStates, At
<1>2. OneEach' /\ ActionFits(c)'
  BY <1>0, <1>m, <1>p DEF RcInv, ShellInv, OneEach, ActionFits, Moves, At
<1>3. /\ SpawnsAlone(c)'
      /\ \A p \in Pids : proc'[p].state = "forked" => ~Owns(c, proc'[p].name)
  <2>1. SpawnsAlone(c)'
    BY <1>m DEF SpawnsAlone, Moves, At
  <2> QED
    BY <1>f, <1>p, <2>1 DEF Free
<1>4. StopsComplete(c)'
  <2>1. PROC(c)' = PROC(c)
    BY <1>m DEF Moves, PROC
  <2>2. ASSUME NEW p \in Pids, proc'[p].state \in {"up", "dying"}, proc'[p].name = PROC(c)
        PROVE  proc'[p].state = "dying"
    <3>1. proc[p].state \in {"up", "dying"} /\ proc[p] # Free
      BY <1>p, <2>2 DEF Free
    <3>2. p \in Visible(PROC(c))
      BY <1>p, <2>2, <3>1 DEF Visible
    <3> QED
      BY <1>p, <3>2
  <2> QED
    BY <1>0, <1>b, <1>m, <2>1, <2>2 DEF StopsComplete, Moves, At, Visible
<1>5. StatusMeansLast(c)'
  BY <1>0, <1>m DEF RcInv, ShellInv, StatusMeansLast, Moves, At, Refused
<1>6. RestartSoFar(c)'
  <2>1. sh[c].action = "restart" =>
           \A i \in DOMAIN Procs[sh[c].svc] : Handled(c, i)' => Handled(c, i)
    BY <1>0, <1>m DEF RcInv, ShellInv, ActionFits, Handled, Moves, At
  <2>2. ASSUME sh[c].action = "restart", NEW i \in DOMAIN Procs[sh[c].svc], Handled(c, i)'
        PROVE  /\ \A p \in old[c] : proc'[p].name # Procs[sh[c].svc][i]
               /\ Refused(c) # 0 => Processes(Procs[sh[c].svc][i])' = {}
    <3>1. /\ \A p \in old[c] : p \in Pids /\ proc[p].name # Procs[sh[c].svc][i]
          /\ \A p \in old[c] : proc[p].state \in {"up", "dying"}
          /\ Refused(c) # 0 => Processes(Procs[sh[c].svc][i]) = {}
      BY <1>0, <2>1, <2>2 DEF RcInv, ShellInv, TypeOK, RestartSoFar
    <3>2. \A p \in old[c] : proc[p] # Free
      BY <3>1 DEF Free
    <3>3. ASSUME NEW p \in Pids, p \in Processes(Procs[sh[c].svc][i])'
          PROVE  p \in Processes(Procs[sh[c].svc][i])
      <4>1. /\ proc'[p].state \in {"forked", "up", "dying"}
            /\ proc'[p].name = Procs[sh[c].svc][i]
        BY <1>m, <3>3 DEF Moves, Processes, Visible, Unborn
      <4>2. /\ proc[p].state \in {"forked", "up", "dying"} /\ proc[p] # Free
        BY <1>p, <4>1 DEF Free
      <4> QED
        BY <1>p, <4>1, <4>2 DEF Processes, Visible, Unborn
    <3>4. Processes(Procs[sh[c].svc][i])' \subseteq Pids
      BY DEF Processes, Visible, Unborn
    <3> QED
      BY <1>p, <3>1, <3>2, <3>3, <3>4
  <2>3. /\ Refused(c)' = Refused(c)
        /\ sh'[c].pc \notin {"spawn", "startwait", "started"}
        /\ \A p \in old[c] : proc'[p].state \in {"up", "dying"}
    BY <1>0, <1>m, <1>p DEF RcInv, ShellInv, TypeOK, RestartSoFar, Moves, At, Refused
  <2>4. sh'[c].svc = sh[c].svc /\ sh'[c].action = sh[c].action
    BY <1>m DEF Moves
  <2> QED
    BY <1>a, <2>2, <2>3, <2>4 DEF RestartSoFar
<1>7. ShellInv(c)'
  BY <1>2, <1>3, <1>4, <1>5, <1>6 DEF ShellInv
<1>8. \A d \in Callers : d # c => sh'[d] = sh[d] /\ old'[d] = old[d]
  BY <1>0, <1>a DEF Stop, Goto, Wait, TypeOK
<1> QED
  BY <1>0, <1>1, <1>2, <1>3, <1>7, <1>8, <1>t, OwnStep

LEMMA ReconfigureStep ==
    ASSUME RcInv, Disjoint, Timely, NEW c \in Callers, Reconfigure(c)
    PROVE  RcInv'
<1>0. ~At(c, "idle") /\ At(c, "reconfigure") /\ TypeOK
  BY DEF Reconfigure, At, RcInv
<1>b. /\ sh[c].idx \in Nat /\ sh[c].idx \in DOMAIN Procs[sh[c].svc]
      /\ sh[c].counter \in 0 .. LIMIT + 1 /\ LIMIT \in Nat
  BY <1>0, BusyShell, RcFuncAssumption DEF Busy
<1>f. \A p \in Pids : proc[p].state = "forked" => ~Owns(c, proc[p].name)
  BY <1>0, OwnLaunch DEF Awaits, At
<1>a. old' = old /\ crashes' = crashes
  BY DEF Reconfigure
<1>m. \E st \in {0, 1} : Moves(c, "next", sh[c].idx, sh[c].counter, st)
  BY <1>0, ShellMoves DEF Reconfigure, Statuses
<1>p. /\ Touches(c)
      /\ proc' \in [Pids -> ProcStates]
      /\ \A p \in Pids :
            /\ proc'[p] # Free <=> proc[p] # Free
            /\ proc[p] # Free => proc'[p].name = proc[p].name
            /\ proc'[p].state = "forked" <=> proc[p].state = "forked"
            /\ proc'[p].state \in {"up", "dying"} <=> proc[p].state \in {"up", "dying"}
  <2>1. PICK victims \in SUBSET Visible(PROC(c)) :
           proc' = [p \in Pids |-> IF p \in victims
                                    THEN [proc[p] EXCEPT !.state = "dying"] ELSE proc[p]]
    BY DEF Reconfigure
  <2>2. \A p \in Pids : p \in victims => proc[p].state \in {"up", "dying"}
    BY DEF Visible
  <2>3. /\ proc' \in [Pids -> ProcStates]
        /\ \A p \in Pids :
              /\ proc'[p] # Free <=> proc[p] # Free
              /\ proc[p] # Free => proc'[p].name = proc[p].name
              /\ proc'[p].state = "forked" <=> proc[p].state = "forked"
              /\ proc'[p].state \in {"up", "dying"} <=> proc[p].state \in {"up", "dying"}
              /\ p \in victims => proc'[p].state = "dying"
              /\ p \notin victims => proc'[p] = proc[p]
    BY <1>0, <2>1, <2>2, Signalled
  <2>4. Touches(c)
    BY <2>1, <2>3 DEF Touches, Visible, Free
  <2> QED
    BY <2>3, <2>4
<1>1. TypeOK'
  <2>1. ShellType(sh')
    BY <1>0, <1>b, <1>m, MovesType
  <2> QED
    BY <1>0, <1>a, <1>p, <2>1 DEF TypeOK, ShellType, ProcStates, At
<1>2. OneEach' /\ ActionFits(c)'
  BY <1>0, <1>m, <1>p DEF RcInv, ShellInv, OneEach, ActionFits, Moves, At
<1>3. /\ SpawnsAlone(c)'
      /\ \A p \in Pids : proc'[p].state = "forked" => ~Owns(c, proc'[p].name)
  <2>1. SpawnsAlone(c)'
    BY <1>m DEF SpawnsAlone, Moves, At
  <2> QED
    BY <1>f, <1>p, <2>1 DEF Free
<1>4. StopsComplete(c)'
  BY <1>0, <1>m DEF StopsComplete, Moves, At
<1>5. StatusMeansLast(c)'
  BY <1>0, <1>m DEF RcInv, ShellInv, StatusMeansLast, ActionFits, Moves, At, Refused
<1>6. RestartSoFar(c)'
  <2>1. sh[c].action = "restart" =>
           \A i \in DOMAIN Procs[sh[c].svc] : Handled(c, i)' => Handled(c, i)
    BY <1>0, <1>m DEF RcInv, ShellInv, ActionFits, Handled, Moves, At
  <2>2. ASSUME sh[c].action = "restart", NEW i \in DOMAIN Procs[sh[c].svc], Handled(c, i)'
        PROVE  /\ \A p \in old[c] : proc'[p].name # Procs[sh[c].svc][i]
               /\ Refused(c) # 0 => Processes(Procs[sh[c].svc][i])' = {}
    <3>1. /\ \A p \in old[c] : p \in Pids /\ proc[p].name # Procs[sh[c].svc][i]
          /\ \A p \in old[c] : proc[p].state \in {"up", "dying"}
          /\ Refused(c) # 0 => Processes(Procs[sh[c].svc][i]) = {}
      BY <1>0, <2>1, <2>2 DEF RcInv, ShellInv, TypeOK, RestartSoFar
    <3>2. \A p \in old[c] : proc[p] # Free
      BY <3>1 DEF Free
    <3>3. ASSUME NEW p \in Pids, p \in Processes(Procs[sh[c].svc][i])'
          PROVE  p \in Processes(Procs[sh[c].svc][i])
      <4>1. /\ proc'[p].state \in {"forked", "up", "dying"}
            /\ proc'[p].name = Procs[sh[c].svc][i]
        BY <1>m, <3>3 DEF Moves, Processes, Visible, Unborn
      <4>2. /\ proc[p].state \in {"forked", "up", "dying"} /\ proc[p] # Free
        BY <1>p, <4>1 DEF Free
      <4> QED
        BY <1>p, <4>1, <4>2 DEF Processes, Visible, Unborn
    <3>4. Processes(Procs[sh[c].svc][i])' \subseteq Pids
      BY DEF Processes, Visible, Unborn
    <3> QED
      BY <1>p, <3>1, <3>2, <3>3, <3>4
  <2>3. /\ Refused(c)' = Refused(c)
        /\ sh'[c].pc \notin {"spawn", "startwait", "started"}
        /\ \A p \in old[c] : proc'[p].state \in {"up", "dying"}
    BY <1>0, <1>m, <1>p DEF RcInv, ShellInv, TypeOK, RestartSoFar, Moves, At, Refused
  <2>4. sh'[c].svc = sh[c].svc /\ sh'[c].action = sh[c].action
    BY <1>m DEF Moves
  <2> QED
    BY <1>a, <2>2, <2>3, <2>4 DEF RestartSoFar
<1>7. ShellInv(c)'
  BY <1>2, <1>3, <1>4, <1>5, <1>6 DEF ShellInv
<1>8. \A d \in Callers : d # c => sh'[d] = sh[d] /\ old'[d] = old[d]
  BY <1>0, <1>a DEF Reconfigure, Return, TypeOK
<1> QED
  BY <1>0, <1>1, <1>2, <1>3, <1>7, <1>8, <1>p, OwnStep

LEMMA ExitStep ==
    ASSUME RcInv, Disjoint, NEW c \in Callers, Exit(c)
    PROVE  RcInv'
<1>0. ~At(c, "idle") /\ At(c, "exit") /\ TypeOK /\ proc' = proc /\ crashes' = crashes
  BY DEF Exit, At, RcInv, ProcsSame
<1>1. /\ sh'[c] = [pc |-> "idle", status |-> sh[c].status] /\ sh'[c] \in ShellStates
      /\ sh' \in [Callers -> ShellStates] /\ old' \in [Callers -> SUBSET Pids] /\ old'[c] = {}
  BY <1>0, BusyShell DEF Exit, Idle, TypeOK, ShellStates, Busy
<1>2. \A d \in Callers : d # c => sh'[d] = sh[d] /\ old'[d] = old[d]
  BY <1>0 DEF Exit, TypeOK
<1>3. TypeOK'
  BY <1>0, <1>1, <1>2 DEF TypeOK, At
<1>4. OneEach' /\ Touches(c)
  BY <1>0 DEF RcInv, OneEach, Touches
<1>5. ShellInv(c)'
  BY <1>1 DEF ShellInv, ActionFits, SpawnsAlone, StopsComplete, StatusMeansLast,
              RestartSoFar, At
<1>6. \A p \in Pids : proc[p].state = "forked" => ~Owns(c, proc[p].name)
  BY <1>0, OwnLaunch DEF Awaits, At
<1> QED
  BY <1>0, <1>2, <1>3, <1>4, <1>5, <1>6, OwnStep

LEMMA InvokeType ==
    ASSUME TypeOK, NEW c \in Callers, NEW s \in Services, NEW r,
           r.action \in Actions, r.who \in STRING, Invoke(c, s, r)
    PROVE  TypeOK'
<1>1. /\ sh'[c] = [pc |-> "case", svc |-> s, action |-> r.action, who |-> r.who, idx |-> 1,
                   counter |-> 0, status |-> 0]
      /\ sh' = [sh EXCEPT ![c] = sh'[c]]
  BY DEF Invoke, TypeOK
<1>2. 1 \in DOMAIN Procs[s] /\ 0 \in 0 .. LIMIT + 1
  BY RcFuncAssumption
<1>3. sh'[c] \in ShellStates
  BY <1>1, <1>2 DEF ShellStates, Locations, Statuses
<1>4. /\ sh' \in [Callers -> ShellStates] /\ old' \in [Callers -> SUBSET Pids]
      /\ proc' = proc /\ crashes' = crashes
  BY <1>1, <1>3 DEF TypeOK, Invoke, ProcsSame
<1>5. ASSUME NEW d \in Callers, sh'[d].pc # "idle"
      PROVE  sh'[d].idx \in DOMAIN Procs[sh'[d].svc]
  <2>1. CASE d = c
    BY <1>1, <1>2, <2>1
  <2>2. CASE d # c
    BY <1>1, <1>5, <2>2 DEF TypeOK, At
  <2> QED
    BY <2>1, <2>2
<1> QED
  BY <1>4, <1>5 DEF TypeOK, At

LEMMA InvokeStep ==
    ASSUME RcInv, NEW c \in Callers, NEW s \in Services, NEW r,
           r.action \in Actions, r.who \in STRING, Invoke(c, s, r)
    PROVE  RcInv'
<1>0. At(c, "idle") /\ TypeOK /\ proc' = proc
  BY DEF Invoke, RcInv, ProcsSame
<1>1. /\ sh'[c] = [pc |-> "case", svc |-> s, action |-> r.action, who |-> r.who, idx |-> 1,
                   counter |-> 0, status |-> 0]
      /\ old'[c] = {p \in Pids : r.action = "restart" /\ proc[p].state = "up"}
      /\ \A d \in Callers : d # c => sh'[d] = sh[d] /\ old'[d] = old[d]
  BY <1>0 DEF Invoke, TypeOK
<1>2. TypeOK'
  BY <1>0, InvokeType
<1>3. OneEach'
  BY <1>0 DEF RcInv, OneEach
<1>4. LaunchesAwaited'
  <2>1. ASSUME NEW p \in Pids, proc[p].state = "forked"
        PROVE  \E d \in Callers : d # c /\ Awaits(d, p)
    BY <1>0, <2>1 DEF RcInv, LaunchesAwaited, Awaits, At
  <2> QED
    BY <1>0, <1>1, <2>1 DEF LaunchesAwaited, Awaits, At, PROC
<1>5. ShellInv(c)'
  <2>1. /\ ActionFits(c)' /\ SpawnsAlone(c)' /\ StopsComplete(c)' /\ StatusMeansLast(c)'
    BY <1>1 DEF ActionFits, SpawnsAlone, StopsComplete, StatusMeansLast, At
  <2>2. \A i \in DOMAIN Procs[s] : ~Handled(c, i)'
    BY <1>1, RcFuncAssumption DEF Handled
  <2>3. RestartSoFar(c)'
    BY <1>0, <1>1, <2>2 DEF RestartSoFar, At
  <2> QED
    BY <2>1, <2>3 DEF ShellInv
<1>6. ASSUME NEW d \in Callers, d # c
      PROVE  ShellInv(d)'
  <2>1. ShellInv(d) /\ sh'[d] = sh[d] /\ old'[d] = old[d]
    BY <1>1, <1>6 DEF RcInv
  <2>2. /\ ActionFits(d)' /\ SpawnsAlone(d)' /\ StopsComplete(d)' /\ StatusMeansLast(d)'
    BY <1>0, <2>1
    DEF ShellInv, ActionFits, SpawnsAlone, StopsComplete, StatusMeansLast,
        Refused, Processes, Visible, Unborn, PROC, At
  <2>3. RestartSoFar(d)'
    BY <1>0, <2>1
    DEF ShellInv, RestartSoFar, Handled, Refused, Processes, Visible, Unborn, At
  <2> QED
    BY <2>2, <2>3 DEF ShellInv
<1> QED
  BY <1>2, <1>3, <1>4, <1>5, <1>6 DEF RcInv

LEMMA ProcessMoves ==
    ASSUME TypeOK, NEW p \in Pids, Process(p)
    PROVE  /\ TypeOK' /\ sh' = sh
           /\ \A q \in Pids : proc'[q] # Free =>
                 /\ proc[q] # Free /\ proc'[q].name = proc[q].name
                 /\ proc'[q] = proc[q] \/ (proc[q].state = "forked" /\ proc'[q].state = "up")
           /\ \A c \in Callers : \A q \in old'[c] :
                 q \in old[c] /\ (proc[q].state # "forked" => proc'[q] = proc[q])
<1>1. proc \in [Pids -> ProcStates] /\ proc[p] \in ProcStates /\ old \in [Callers -> SUBSET Pids]
  BY DEF TypeOK, ProcStates
<1>2. CASE Exec(p)
  <2>1. /\ proc'[p].state = "up" /\ proc'[p].name = proc[p].name /\ proc'[p] \in ProcStates
        /\ proc' = [proc EXCEPT ![p] = proc'[p]] /\ proc[p] # Free
        /\ UNCHANGED <<sh, old, crashes>> /\ proc[p].state = "forked"
    BY <1>1, <1>2 DEF Exec, ProcStates, Free
  <2>2. TypeOK'
    BY <1>1, <2>1 DEF TypeOK, ProcStates, At
  <2> QED
    BY <1>1, <2>1, <2>2
<1>3. CASE Gone(p) \/ Crash(p)
  <2>1. /\ proc' = [proc EXCEPT ![p] = Free] /\ old' = [c \in Callers |-> old[c] \ {p}]
        /\ sh' = sh /\ crashes' \in 0 .. MaxCrashes
    BY <1>3, RcFuncAssumption DEF Gone, Crash, TypeOK
  <2>2. TypeOK'
    BY <1>1, <2>1 DEF TypeOK, ProcStates, At
  <2> QED
    BY <1>1, <2>1, <2>2
<1> QED
  BY <1>2, <1>3 DEF Process

LEMMA ProcessStep ==
    ASSUME RcInv, Disjoint, NEW p \in Pids, Process(p)
    PROVE  RcInv'
<1>0. TypeOK /\ TypeOK' /\ sh' = sh
  BY ProcessMoves DEF RcInv
<1>1. \A q \in Pids : proc'[q] # Free =>
         /\ proc[q] # Free /\ proc'[q].name = proc[q].name
         /\ proc'[q] = proc[q] \/ (proc[q].state = "forked" /\ proc'[q].state = "up")
  BY <1>0, ProcessMoves
<1>2. \A c \in Callers : \A q \in old'[c] :
         /\ q \in Pids /\ q \in old[c] /\ proc[q].state \in {"up", "dying"} /\ proc'[q] = proc[q]
  BY <1>0, ProcessMoves DEF RcInv, ShellInv, TypeOK, RestartSoFar
<1>3. \A n : Processes(n) = {} => Processes(n)' = {}
  BY <1>1 DEF Processes, Visible, Unborn, Free
<1>4. OneEach'
  BY <1>0, <1>1 DEF RcInv, OneEach
<1>5. LaunchesAwaited'
  <2>1. ASSUME NEW q \in Pids, proc'[q].state = "forked"
        PROVE  proc[q].state = "forked" /\ proc'[q].name = proc[q].name
    BY <1>1, <2>1 DEF Free
  <2> QED
    BY <1>0, <2>1 DEF RcInv, LaunchesAwaited, Awaits, At, PROC
<1>6. ASSUME NEW c \in Callers
      PROVE  ShellInv(c)'
  <2>0. /\ ShellInv(c) /\ Refused(c)' = Refused(c) /\ PROC(c)' = PROC(c)
        /\ \A i : Handled(c, i)' <=> Handled(c, i)
    BY <1>0 DEF RcInv, Refused, PROC, Handled
  <2>1. Processes(PROC(c)) = {} => Processes(PROC(c))' = {}
    BY <1>3, <2>0 DEF Processes, Visible, Unborn
  <2>2. ActionFits(c)' /\ SpawnsAlone(c)' /\ StatusMeansLast(c)'
    BY <1>0, <2>0, <2>1 DEF ShellInv, ActionFits, SpawnsAlone, StatusMeansLast, At
  <2>3. StopsComplete(c)'
    <3>1. ASSUME At(c, "stopwait") \/ At(c, "stopped"),
                 NEW q \in Pids, q \in Visible(PROC(c))'
          PROVE  proc'[q] = proc[q] /\ q \in Visible(PROC(c))
      <4>1. /\ proc'[q].state \in {"up", "dying"} /\ proc'[q].name = PROC(c)
        BY <2>0, <3>1 DEF Visible
      <4>2. proc[q].name = PROC(c)
        BY <1>1, <4>1 DEF Free
      <4>3. Owns(c, PROC(c))
        BY <1>0, <3>1, OwnProc DEF At
      <4>4. proc[q].state # "forked"
        BY <3>1, <4>2, <4>3, OwnLaunch DEF Awaits, At
      <4> QED
        BY <1>1, <4>1, <4>4 DEF Visible, Free
    <3>2. Visible(PROC(c))' \subseteq Pids
      BY DEF Visible
    <3>3. StopsComplete(c)
      BY <2>0 DEF ShellInv
    <3>4. At(c, "stopwait") => \A q \in Visible(PROC(c))' : proc'[q].state = "dying"
      BY <3>1, <3>2, <3>3 DEF StopsComplete
    <3>5. \/ At(c, "stopwait") /\ sh[c].counter > LIMIT
          \/ At(c, "stopped") /\ sh[c].action # "kill"
          => Visible(PROC(c))' = {}
      BY <3>1, <3>2, <3>3 DEF StopsComplete
    <3> QED
      BY <1>0, <3>4, <3>5 DEF StopsComplete, At
  <2>4. RestartSoFar(c)'
    <3>1. RestartSoFar(c)
      BY <2>0 DEF ShellInv
    <3>2. \A i : Processes(Procs[sh[c].svc][i]) = {} => Processes(Procs[sh[c].svc][i])' = {}
      BY <1>0, <1>3 DEF Processes, Visible, Unborn
    <3>3. ASSUME ~At(c, "idle"), sh[c].action = "restart",
                 NEW i \in DOMAIN Procs[sh[c].svc], Handled(c, i)
          PROVE  /\ \A q \in old'[c] : proc'[q].name # Procs[sh[c].svc][i]
                 /\ Refused(c) # 0 => Processes(Procs[sh[c].svc][i])' = {}
      BY <1>2, <3>1, <3>2, <3>3 DEF RestartSoFar
    <3>4. ~At(c, "idle") /\ Refused(c) # 0 => sh[c].pc \notin {"spawn", "startwait", "started"}
      BY <3>1 DEF RestartSoFar
    <3>5. \A q \in old'[c] : proc'[q].state \in {"up", "dying"}
      BY <1>2
    <3> QED
      BY <1>0, <2>0, <3>3, <3>4, <3>5 DEF RestartSoFar, At, Processes, Visible, Unborn
  <2> QED
    BY <2>2, <2>3, <2>4 DEF ShellInv
<1> QED
  BY <1>0, <1>4, <1>5, <1>6 DEF RcInv

-----------------------------------------------------------------------------
(* A shell that does not end its script goes on with it.                    *)
LEMMA ShellGoesOn ==
    ASSUME TypeOK, NEW c \in Callers, Shell(c), ~Exit(c)
    PROVE  \E loc, idx, counter, st :
              Moves(c, loc, idx, counter, st) /\ idx \in DOMAIN Procs[sh[c].svc]
<1>0. /\ ~At(c, "idle")
      /\ Len(Procs[sh[c].svc]) \in Nat /\ LIMIT \in Nat /\ sh[c].idx \in Nat
      /\ DOMAIN Procs[sh[c].svc] = 1 .. Len(Procs[sh[c].svc])
      /\ sh[c].idx \in DOMAIN Procs[sh[c].svc]
      /\ Refused(c) \in Statuses
  <2>1. ~At(c, "idle")
    BY DEF Shell, At, Case, NextProc, StartTest, Spawn, StartWait, Started, Check,
                Stop, StopWait, Stopped, Reconfigure
  <2> QED
    BY <2>1, BusyShell, RcFuncAssumption DEF Busy, Refused, Statuses
<1>1. CASE Case(c)
  BY <1>0, <1>1, ShellMoves, ShellEnds DEF Case, Statuses, Locations
<1>2. CASE NextProc(c)
  BY <1>0, <1>2, ShellMoves, ShellTurns DEF NextProc, Locations
<1>3. CASE StartTest(c) \/ Started(c) \/ Reconfigure(c)
  BY <1>0, <1>3, ShellMoves DEF StartTest, Started, Reconfigure, Statuses, Locations
<1>4. CASE Spawn(c)
  BY <1>0, <1>4, ShellMoves, ShellEnds DEF Spawn, Statuses, Locations
<1>5. CASE StartWait(c) \/ StopWait(c)
  BY <1>0, <1>5, ShellMoves DEF StartWait, StopWait, Locations
<1>6. CASE Check(c) \/ Stopped(c)
  BY <1>0, <1>6, ShellMoves DEF Check, Stopped, Statuses, Locations
<1>7. CASE Stop(c)
  BY <1>0, <1>7, ShellMoves DEF Stop, Locations
<1> QED
  BY <1>1, <1>2, <1>3, <1>4, <1>5, <1>6, <1>7 DEF Shell

(* Whatever the number of callers, the variables keep their types.         *)
LEMMA ShellKeepsType ==
    ASSUME TypeOK, NEW c \in Callers, Shell(c)
    PROVE  TypeOK'
<1>1. CASE Exit(c)
  <2>1. /\ sh'[c] = [pc |-> "idle", status |-> sh[c].status] /\ sh'[c] \in ShellStates
        /\ sh' = [sh EXCEPT ![c] = sh'[c]] /\ old' \in [Callers -> SUBSET Pids]
        /\ proc' = proc /\ crashes' = crashes
    BY <1>1, BusyShell DEF Exit, Idle, TypeOK, ShellStates, Busy, At, ProcsSame
  <2> QED
    BY <2>1 DEF TypeOK, At
<1>2. CASE ~Exit(c)
  <2>1. \E loc, idx, counter, st :
           Moves(c, loc, idx, counter, st) /\ idx \in DOMAIN Procs[sh[c].svc]
    BY <1>2, ShellGoesOn
  <2>2. ShellType(sh')
    BY <2>1, MovesType
  <2>3. proc' \in [Pids -> ProcStates] /\ UNCHANGED <<old, crashes>>
    <3>0. proc \in [Pids -> ProcStates]
      BY DEF TypeOK, ProcStates
    <3>1. CASE UNCHANGED <<proc, old, crashes>>
      BY <3>0, <3>1
    <3>2. CASE Spawn(c)
      BY <3>0, <3>2, BusyShell DEF Spawn, ProcStates, At
    <3>3. CASE Stop(c)
      <4>1. \A p \in Pids : p \in Visible(PROC(c)) => proc[p].state \in {"up", "dying"}
        BY DEF Visible
      <4> DEFINE victims == Visible(PROC(c))
      <4>2. proc' = [p \in Pids |-> IF p \in victims
                                     THEN [proc[p] EXCEPT !.state = "dying"] ELSE proc[p]]
        BY <3>3 DEF Stop
      <4> HIDE DEF victims
      <4> QED
        BY <3>3, <4>1, <4>2, Signalled DEF Stop, victims
    <3>4. CASE Reconfigure(c)
      <4>1. PICK victims \in SUBSET Visible(PROC(c)) :
               proc' = [p \in Pids |-> IF p \in victims
                                        THEN [proc[p] EXCEPT !.state = "dying"] ELSE proc[p]]
        BY <3>4 DEF Reconfigure
      <4>2. \A p \in Pids : p \in victims => proc[p].state \in {"up", "dying"}
        BY DEF Visible
      <4> QED
        BY <3>4, <4>1, <4>2, Signalled DEF Reconfigure
    <3> QED
      BY <1>2, <3>1, <3>2, <3>3, <3>4
      DEF Shell, Case, NextProc, StartTest, StartWait, Started, Check, StopWait, Stopped,
          ProcsSame
  <2> QED
    BY <2>2, <2>3 DEF TypeOK, ShellType, ProcStates, At
<1> QED
  BY <1>1, <1>2

(* A step of one shell leaves the others alone; it ends its script or goes *)
(* on with it, and always keeps its request and its status once it exits.  *)
LEMMA ShellFrame ==
    ASSUME TypeOK, NEW c \in Callers, Shell(c)
    PROVE  /\ ~At(c, "idle")
           /\ \A d \in Callers : d # c => sh'[d] = sh[d]
           /\ \/ At(c, "exit") /\ Exit(c) /\ At(c, "idle")' /\ sh'[c].status = sh[c].status
              \/ ~Exit(c) /\ ~At(c, "idle")' /\ sh'[c].svc = sh[c].svc
                 /\ sh'[c].action = sh[c].action /\ sh'[c].who = sh[c].who
<1>1. CASE Exit(c)
  <2>1. sh \in [Callers -> ShellStates]
    BY DEF TypeOK
  <2> QED
    BY <1>1, <2>1 DEF Exit, Idle, At
<1>2. CASE ~Exit(c)
  <2>1. PICK loc, idx, counter, st : Moves(c, loc, idx, counter, st)
    BY <1>2, ShellGoesOn
  <2>2. sh[c].pc # "idle" /\ sh'[c].pc # "idle" /\ sh \in [Callers -> ShellStates]
    BY <2>1 DEF Moves, Busy, TypeOK
  <2> QED
    BY <1>2, <2>1, <2>2 DEF Moves, At
<1> QED
  BY <1>1, <1>2

LEMMA InitInv == Init => RcInv
<1> SUFFICES ASSUME Init PROVE RcInv
  OBVIOUS
<1>1. /\ sh = [c \in Callers |-> Idle] /\ old = [c \in Callers |-> {}] /\ crashes = 0
      /\ proc \in [Pids -> {Free} \union [state : {"up"}, name : Names]]
      /\ MaxCrashes \in Nat
  BY RcFuncAssumption DEF Init
<1>2. TypeOK
  BY <1>1 DEF TypeOK, ShellStates, Statuses, Idle, At
<1>3. OneEach
  <2> SUFFICES ASSUME NEW p \in Pids, NEW q \in Pids, proc[p] # Free, proc[q] # Free,
                      proc[p].name = proc[q].name
               PROVE  p = q
    BY DEF OneEach
  <2>1. proc[p].name \in Names /\ {p, q} \in SUBSET Visible(proc[p].name)
    BY <1>1 DEF Visible
  <2>2. IsFiniteSet(Visible(proc[p].name)) /\ Cardinality(Visible(proc[p].name)) <= 1
    <3>1. Visible(proc[p].name) \in SUBSET Pids /\ IsFiniteSet(Pids)
      BY RcFuncAssumption DEF Visible
    <3> QED
      BY <2>1, <3>1, FS_Subset DEF Init
  <2>3. Cardinality(Visible(proc[p].name)) \in Nat /\ Cardinality(Visible(proc[p].name)) # 0
    BY <2>1, <2>2, FS_EmptySet, FS_CardinalityType
  <2>4. Cardinality(Visible(proc[p].name)) = 1
    BY <2>2, <2>3
  <2>5. \E x : Visible(proc[p].name) = {x}
    BY <2>2, <2>4, FS_Singleton
  <2> QED
    BY <2>1, <2>5
<1>4. \A p \in Pids : proc[p].state # "forked"
  BY <1>1 DEF Free
<1> QED
  BY <1>1, <1>2, <1>3, <1>4
  DEF RcInv, ShellInv, ActionFits, LaunchesAwaited, SpawnsAlone, StopsComplete,
      StatusMeansLast, RestartSoFar, Idle, At

LEMMA ShellStep ==
    ASSUME RcInv, Disjoint, Timely, NEW c \in Callers, Shell(c)
    PROVE  RcInv'
BY CaseStep, NextProcStep, StartTestStep, SpawnStep, StartWaitStep, StartedStep, CheckStep,
   StopStep, StopWaitStep, StoppedStep, ReconfigureStep, ExitStep DEF Shell

LEMMA StutterStep == RcInv /\ UNCHANGED vars => RcInv'
<1> SUFFICES ASSUME RcInv, sh' = sh, proc' = proc, old' = old, crashes' = crashes
             PROVE  RcInv'
  BY DEF vars
<1>1. TypeOK' /\ OneEach' /\ LaunchesAwaited'
  BY DEF RcInv, TypeOK, OneEach, LaunchesAwaited, Awaits, PROC, At
<1>2. ASSUME NEW c \in Callers
      PROVE  ShellInv(c)'
  <2>1. ShellInv(c)
    BY DEF RcInv
  <2>2. ActionFits(c)' /\ SpawnsAlone(c)' /\ StopsComplete(c)'
    BY <2>1 DEF ShellInv, ActionFits, SpawnsAlone, StopsComplete, Processes, Visible,
                Unborn, PROC, At
  <2>3. StatusMeansLast(c)'
    BY <2>1 DEF ShellInv, StatusMeansLast, Refused, Processes, Visible, Unborn, PROC, At
  <2>4. RestartSoFar(c)'
    BY <2>1 DEF ShellInv, RestartSoFar, Handled, Refused, Processes, Visible, Unborn, At
  <2> QED
    BY <2>2, <2>3, <2>4 DEF ShellInv
<1> QED
  BY <1>1, <1>2 DEF RcInv

LEMMA InductiveStep ==
    ASSUME RcInv, Disjoint, Timely, [Next]_vars
    PROVE  RcInv'
<1>1. ASSUME NEW c \in Callers, Shell(c)
      PROVE  RcInv'
  BY <1>1, ShellStep
<1>2. ASSUME NEW c \in Callers, NEW s \in Services, NEW r \in Requests, Invoke(c, s, r)
      PROVE  RcInv'
  <2>1. r.action \in Actions /\ r.who \in STRING
    BY RcFuncAssumption
  <2> QED
    BY <1>2, <2>1, InvokeStep
<1>3. ASSUME NEW p \in Pids, Process(p)
      PROVE  RcInv'
  BY <1>3, ProcessStep
<1> QED
  BY <1>1, <1>2, <1>3, StutterStep DEF Next

(* What RcInv says of the processes, and of a script that ends.            *)
LEMMA InvOneInstance == RcInv => AtMostOneInstance
<1> SUFFICES ASSUME RcInv, NEW n \in Names PROVE Cardinality(Processes(n)) <= 1
  BY DEF AtMostOneInstance
<1>1. \A p, q \in Processes(n) : p = q
  BY DEF RcInv, OneEach, Processes, Visible, Unborn, Free
<1>2. CASE Processes(n) = {}
  BY <1>2, FS_EmptySet
<1>3. CASE \E x : Processes(n) = {x}
  BY <1>3, FS_Singleton
<1> QED
  BY <1>1, <1>2, <1>3

LEMMA InvExits ==
    ASSUME RcInv, NEW c \in Callers, At(c, "exit")
    PROVE  /\ sh[c].action \in {"stop", "kill"} /\ sh[c].status = 0 =>
                 LastOf(sh[c].svc) = {}
           /\ sh[c].action = "restart" /\ sh[c].status = 0 =>
                 old[c] \intersect ProcessesOf(sh[c].svc) = {}
           /\ sh[c].action = "restart" /\ sh[c].status \in {7, 8} =>
                 ProcessesOf(sh[c].svc) = {}
<1>0. ~At(c, "idle") /\ TypeOK
  BY DEF At, RcInv
<1>1. /\ sh[c].status \in {0, 7, 8} => sh[c].idx = Len(Procs[sh[c].svc])
      /\ sh[c].action \in {"stop", "kill"} /\ sh[c].status = 0 => Processes(PROC(c)) = {}
      /\ sh[c].status \in {7, 8} => Refused(c) # 0
  BY <1>0 DEF RcInv, ShellInv, StatusMeansLast
<1>2. sh[c].idx \in Nat /\ DOMAIN Procs[sh[c].svc] = 1 .. Len(Procs[sh[c].svc])
  BY <1>0, BusyShell, RcFuncAssumption DEF Busy
<1>3. ASSUME sh[c].status \in {0, 7, 8}, sh[c].action = "restart",
             NEW i \in DOMAIN Procs[sh[c].svc]
      PROVE  /\ \A p \in old[c] : proc[p].name # Procs[sh[c].svc][i]
             /\ Refused(c) # 0 => Processes(Procs[sh[c].svc][i]) = {}
  <2>1. Handled(c, i)
    BY <1>1, <1>2, <1>3 DEF Handled, At
  <2> QED
    BY <1>0, <1>3, <2>1 DEF RcInv, ShellInv, RestartSoFar
<1>4. \A n : \A p \in Processes(n) : proc[p].name = n
  BY DEF Processes, Visible, Unborn
<1>5. sh[c].action \in {"stop", "kill"} /\ sh[c].status = 0 => LastOf(sh[c].svc) = {}
  BY <1>1 DEF LastOf, PROC
<1>6. sh[c].action = "restart" /\ sh[c].status = 0 =>
         old[c] \intersect ProcessesOf(sh[c].svc) = {}
  BY <1>3, <1>4 DEF ProcessesOf
<1>7. sh[c].action = "restart" /\ sh[c].status \in {7, 8} => ProcessesOf(sh[c].svc) = {}
  <2>1. sh[c].action = "restart" /\ sh[c].status \in {7, 8} =>
           \A i \in DOMAIN Procs[sh[c].svc] : Processes(Procs[sh[c].svc][i]) = {}
    BY <1>1, <1>3
  <2> QED
    BY <2>1 DEF ProcessesOf
<1> QED
  BY <1>5, <1>6, <1>7

-----------------------------------------------------------------------------
(* The variables of the shells, processes and observers keep their types,  *)
(* for any number of callers and launches and shutdowns as slow as one     *)
(* likes.                                                                  *)
THEOREM TypeCorrect == Spec => []TypeOK
<1>1. Init => TypeOK
  BY InitInv DEF RcInv
<1>2. TypeOK /\ [Next]_vars => TypeOK'
  <2> SUFFICES ASSUME TypeOK, [Next]_vars PROVE TypeOK'
    OBVIOUS
  <2>1. ASSUME NEW c \in Callers, NEW s \in Services, NEW r \in Requests, Invoke(c, s, r)
        PROVE  TypeOK'
    <3>1. r.action \in Actions /\ r.who \in STRING
      BY RcFuncAssumption
    <3> QED
      BY <2>1, <3>1, InvokeType
  <2>2. CASE UNCHANGED vars
    BY <2>2 DEF vars, TypeOK, At
  <2> QED
    BY <2>1, <2>2, ShellKeepsType, ProcessMoves DEF Next
<1> QED
  BY <1>1, <1>2, PTL DEF Spec

(* Scripts that overlap only for different daemons, and daemons that come  *)
(* up and go down within the wait of rc.func: its whole inductive invariant*)
(* holds, whatever is asked of how many shells.                            *)
THEOREM Invariance ==
    ASSUME Timely
    PROVE  Spec /\ []Disjoint => []RcInv
<1>1. RcInv /\ Disjoint /\ [Next]_vars => RcInv'
  BY InductiveStep
<1> QED
  BY <1>1, InitInv, PTL DEF Spec

(* Then the pidof test of start is enough, without any lock: no sequence   *)
(* and no overlap of scripts, with crashes in between, leads to two        *)
(* processes of one daemon.                                                *)
THEOREM OneInstance ==
    ASSUME Timely
    PROVE  Spec /\ []Disjoint => []AtMostOneInstance
BY Invariance, InvOneInstance, PTL

(* stop and kill that exit 0 have left no process of the last PROC.        *)
THEOREM StopStops ==
    ASSUME Timely
    PROVE  Spec /\ []Disjoint => StopLeavesNone
<1>1. RcInv => \A c \in Callers :
                  Ends(c, {"stop", "kill"}, {0}) => LastOf(sh[c].svc) = {}
  BY InvExits DEF Ends
<1> QED
  BY <1>1, Invariance, PTL DEF StopLeavesNone

(* restart that exits 0 has replaced every process it found.               *)
THEOREM RestartReplacesAll ==
    ASSUME Timely
    PROVE  Spec /\ []Disjoint => RestartReplaces
<1>1. RcInv => \A c \in Callers :
                  Ends(c, {"restart"}, {0}) => old[c] \intersect ProcessesOf(sh[c].svc) = {}
  BY InvExits DEF Ends
<1> QED
  BY <1>1, Invariance, PTL DEF RestartReplaces

(* restart that is refused its start leaves the service down.              *)
THEOREM RefusedRestart ==
    ASSUME Timely
    PROVE  Spec /\ []Disjoint => RefusedRestartStops
<1>1. RcInv => \A c \in Callers :
                  Ends(c, {"restart"}, {7, 8}) => ProcessesOf(sh[c].svc) = {}
  BY InvExits DEF Ends
<1> QED
  BY <1>1, Invariance, PTL DEF RefusedRestartStops

(* A single shell can never overlap with another: the hypothesis is then   *)
(* no hypothesis on the behaviour.                                         *)
LEMMA AloneDisjoint == OneCaller => Disjoint
BY DEF OneCaller, Disjoint

THEOREM AloneInvariance ==
    ASSUME OneCaller, Timely
    PROVE  Spec => []RcInv
<1>1. RcInv /\ [Next]_vars => RcInv'
  BY AloneDisjoint, InductiveStep
<1> QED
  BY <1>1, InitInv, PTL DEF Spec

-----------------------------------------------------------------------------
(* What bounds a script: for one PROC the commands come in this order,     *)
(* stop before start, a wait has a counter, and a PROC does not come back. *)
Place(loc) ==
    CASE loc = "case"      -> 0  [] loc = "check"    -> 1  [] loc = "reconfigure" -> 2
      [] loc = "stop"      -> 3  [] loc = "stopwait" -> 4  [] loc = "stopped"     -> 5
      [] loc = "start"     -> 6  [] loc = "spawn"    -> 7  [] loc = "startwait"   -> 8
      [] loc = "started"   -> 9  [] loc = "next"     -> 10 [] loc = "exit"        -> 11

Advances(c) ==
    \/ At(c, "idle")'
    \/ /\ sh'[c].svc = sh[c].svc /\ sh'[c].idx \in DOMAIN Procs[sh[c].svc]
       /\ \/ sh[c].idx < sh'[c].idx
          \/ /\ sh'[c].idx = sh[c].idx
             /\ \/ Place(sh[c].pc) < Place(sh'[c].pc)
                \/ /\ sh'[c].pc = sh[c].pc /\ sh'[c].counter \in 0 .. LIMIT + 1
                   /\ sh[c].counter < sh'[c].counter

LEMMA ShellAdvances ==
    ASSUME TypeOK, NEW c \in Callers, Shell(c)
    PROVE  Advances(c)
<1>0. /\ ~At(c, "idle")
      /\ Len(Procs[sh[c].svc]) \in Nat /\ LIMIT \in Nat /\ sh[c].idx \in Nat
      /\ DOMAIN Procs[sh[c].svc] = 1 .. Len(Procs[sh[c].svc])
      /\ sh[c].idx \in DOMAIN Procs[sh[c].svc] /\ sh[c].counter \in 0 .. LIMIT + 1
      /\ Refused(c) \in Statuses
  BY ShellFrame, ShellRuns DEF Refused, Statuses
<1>1. ASSUME NEW loc, NEW n, NEW st, Moves(c, loc, sh[c].idx, n, st),
             Place(sh[c].pc) < Place(loc)
      PROVE  Advances(c)
  BY <1>0, <1>1 DEF Advances, Moves
<1>2. CASE Exit(c)
  BY <1>2, ShellFrame DEF Advances
<1>3. CASE Case(c)
  BY <1>0, <1>1, <1>3, ShellMoves, ShellEnds DEF Case, Statuses, Locations, At, Place
<1>4. CASE NextProc(c)
  BY <1>0, <1>4, ShellMoves, ShellTurns DEF NextProc, Locations, At, Place, Advances, Moves
<1>5. CASE StartTest(c) \/ Started(c) \/ Reconfigure(c)
  <2>1. CASE StartTest(c)
    BY <1>0, <1>1, <2>1, ShellMoves DEF StartTest, Statuses, Locations, At, Place
  <2>2. CASE Started(c) \/ Reconfigure(c)
    BY <1>0, <1>1, <2>2, ShellMoves DEF Started, Reconfigure, Statuses, At, Place
  <2> QED
    BY <1>5, <2>1, <2>2
<1>6. CASE Spawn(c)
  <2>1. CASE Wait(c, "startwait")
    BY <1>0, <1>1, <1>6, <2>1, ShellMoves DEF Spawn, Locations, At, Place
  <2>2. CASE sh' = [sh EXCEPT ![c].pc = "exit", ![c].status = 2]
    <3>0. 2 \in Statuses
      BY DEF Statuses
    <3>1. Moves(c, "exit", sh[c].idx, sh[c].counter, 2)
      BY <1>0, <2>2, <3>0, ShellEnds
    <3>2. Place(sh[c].pc) < Place("exit")
      BY <1>6 DEF Spawn, At, Place
    <3> QED
      BY <1>1, <3>1, <3>2
  <2> QED
    BY <1>6, <2>1, <2>2 DEF Spawn
<1>7. CASE StartWait(c) \/ StopWait(c)
  <2>1. CASE SleepOne(c) /\ sh[c].counter <= LIMIT
    BY <1>0, <2>1, ShellMoves DEF Advances, Moves
  <2>2. CASE ~(SleepOne(c) /\ sh[c].counter <= LIMIT)
    BY <1>0, <1>1, <1>7, <2>2, ShellMoves DEF StartWait, StopWait, Locations, At, Place
  <2> QED
    BY <2>1, <2>2
<1>8. CASE Check(c) \/ Stopped(c)
  BY <1>0, <1>1, <1>8, ShellMoves DEF Check, Stopped, Statuses, Locations, At, Place
<1>9. CASE Stop(c)
  BY <1>0, <1>1, <1>9, ShellMoves DEF Stop, Locations, At, Place
<1> QED
  BY <1>2, <1>3, <1>4, <1>5, <1>6, <1>7, <1>8, <1>9 DEF Shell

(* What ScriptsEnd rests on besides fairness, for any number of shells and *)
(* launches and shutdowns as slow as one likes: each step of a shell takes *)
(* its script further in a finite order, and no other shell, daemon or new *)
(* invocation sets it back.                                                *)
THEOREM ScriptsAdvance ==
    Spec => [][\A c \in Callers :
                  /\ Shell(c) => Advances(c)
                  /\ ~At(c, "idle") => Advances(c) \/ sh'[c] = sh[c]]_vars
<1>1. TypeOK /\ [Next]_vars =>
         [\A c \in Callers :
             /\ Shell(c) => Advances(c)
             /\ ~At(c, "idle") => Advances(c) \/ sh'[c] = sh[c]]_vars
  <2> SUFFICES ASSUME TypeOK, Next, NEW c \in Callers
               PROVE  /\ Shell(c) => Advances(c)
                      /\ ~At(c, "idle") => Advances(c) \/ sh'[c] = sh[c]
    OBVIOUS
  <2>1. ASSUME NEW d \in Callers, Shell(d)
        PROVE  Advances(c) \/ sh'[c] = sh[c]
    BY <2>1, ShellAdvances, ShellFrame
  <2>2. ASSUME NEW d \in Callers, NEW s \in Services, NEW r \in Requests, Invoke(d, s, r)
        PROVE  ~At(c, "idle") => sh'[c] = sh[c]
    BY <2>2 DEF Invoke, TypeOK, At
  <2>3. ASSUME NEW p \in Pids, Process(p)
        PROVE  sh'[c] = sh[c]
    BY <2>3, ProcessMoves
  <2> QED
    BY <2>1, <2>2, <2>3, ShellAdvances DEF Next
<1> QED
  BY <1>1, TypeCorrect, PTL DEF Spec
=============================================================================
