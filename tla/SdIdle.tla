------------------------------- MODULE SdIdle -------------------------------
(***************************************************************************)
(* sd-idle (sd-idle/src/sd-idle-2.6.c): a daemon that reads                *)
(* /proc/diskstats every checktime seconds, adds up how long the line of   *)
(* each managed disk has not changed, and sends the disk a SCSI STOP when  *)
(* that reaches idletime.                                                  *)
(*                                                                         *)
(* The daemon has one thread.  What makes it hard is its surroundings:     *)
(* a disk gets I/O between the moment its line is read and the moment the  *)
(* STOP is sent, the STOP fails, the disk is unplugged.  A line of         *)
(* /proc/diskstats is abstracted to a number that grows whenever the text  *)
(* of the line changes, and to whether an I/O is in progress (column 9).   *)
(* 32-bit words of flags are sets of bit numbers.                          *)
(***************************************************************************)
EXTENDS Integers, Sequences, FiniteSets

CONSTANTS
    NumDisks,          \* the letters a..z: 26 slots
    WordBits,          \* bits of a flag word: 32
    Argvs,             \* the argument vectors the daemon may be started with
    Unparsable,        \* disks whose line is too long or lacks column 9
    IDLETIME_MIN, IDLETIME_DEFAULT,
    CHECKTIME_MIN, CHECKTIME_DEFAULT,
    IntMax,            \* INT_MAX
    MaxLine            \* bound of the model: how often a line may change

Disks == 0 .. NumDisks - 1
Bits  == 0 .. WordBits - 1
Ints  == -IntMax - 1 .. IntMax

(* A parameter of -d ([a-z]+ or ![a-z]+ or ""), and a parameter of -i, -c. *)
DiskArg  == [opt : {"-d"}, kind : {"include", "exclude", "empty"},
             letters : SUBSET Disks]
TimeArg  == [opt : {"-i", "-c"}, valid : BOOLEAN, n : Ints]
OtherArg == [opt : {"-h", "-v", "unknown", "missing"}]

ASSUME SdIdleAssumption ==
    /\ NumDisks \in Nat \ {0} /\ WordBits \in Nat /\ NumDisks <= WordBits
    /\ IntMax \in Nat /\ MaxLine \in Nat \ {0}
    /\ IDLETIME_MIN \in 1 .. IntMax /\ IDLETIME_DEFAULT \in IDLETIME_MIN .. IntMax
    /\ CHECKTIME_MIN \in 1 .. IntMax /\ CHECKTIME_DEFAULT \in CHECKTIME_MIN .. IntMax
    /\ Argvs \subseteq Seq(DiskArg \union TimeArg \union OtherArg)
    /\ Unparsable \subseteq Disks

VARIABLES
    \* the daemon
    pc,          \* where main, _parse_options and _manage are
    args,        \* the arguments _parse_options has still to read
    managing,    \* _managing: bits of the disks to be managed
    spinning,    \* _spinning: bits of the disks believed to spin
    idletime,    \* _idletime
    checktime,   \* _checktime
    idletimes,   \* _idletimes
    diskstats,   \* _diskstats: the line last saved; 0 is the empty string
    toread,      \* disks from this one on are still in the kernel
    buffered,    \* disks whose lines are in the stdio buffer of fgets
    snap,        \* those lines
    \* the disks
    line,        \* the current line of a disk, never 0
    inflight,    \* an I/O is in progress
    present,     \* the disk is plugged in
    platter,     \* the disk really spins
    \* observed only: no step depends on these
    quiet,       \* seconds since the line of the disk last changed
    snapquiet,   \* quiet when the line in snap was read
    stopline,    \* the line that led to the last STOP, 0 before the first
    sent         \* the number of STOPs sent so far, modulo 2

daemon == <<pc, args, managing, spinning, idletime, checktime, idletimes,
            diskstats, toread, buffered, snap>>
disk   == <<line, inflight, present, platter>>
seen   == <<quiet, snapquiet, stopline, sent>>
config == <<args, managing, idletime, checktime>>
vars   == <<pc, args, managing, spinning, idletime, checktime, idletimes,
            diskstats, toread, buffered, snap, line, inflight, present,
            platter, quiet, snapquiet, stopline, sent>>

Lines == 1 .. MaxLine

(* C addition of two ints as the build does it: two's complement.          *)
IntAdd(x, y) == IF x + y > IntMax THEN x + y - 2 * (IntMax + 1) ELSE x + y

-----------------------------------------------------------------------------
Init ==
    /\ pc = "version"
    /\ args \in Argvs
    /\ managing = Bits /\ spinning = Bits
    /\ idletime = IDLETIME_DEFAULT /\ checktime = CHECKTIME_DEFAULT
    /\ idletimes = [d \in Disks |-> 0]
    /\ diskstats = [d \in Disks |-> 0]
    /\ toread = 0 /\ buffered = {}
    /\ snap = [d \in Disks |-> [line |-> 1, inflight |-> FALSE]]
    /\ line = [d \in Disks |-> 1]
    /\ inflight = [d \in Disks |-> FALSE]
    /\ present \in [Disks -> BOOLEAN]
    /\ platter = present
    /\ quiet = [d \in Disks |-> 0]
    /\ snapquiet = [d \in Disks |-> 0]
    /\ stopline = [d \in Disks |-> 0] /\ sent = [d \in Disks |-> 0]

-----------------------------------------------------------------------------
(* Start of the daemon                                                     *)

(* -h, -v anywhere end the program before any other option is looked at.   *)
HelpOrVersion == \E i \in DOMAIN args : args[i].opt \in {"-h", "-v"}

CheckVersion ==
    /\ pc = "version"
    /\ \E is26 \in BOOLEAN :
          pc' = IF is26 /\ ~HelpOrVersion THEN "options" ELSE "exit"
    /\ UNCHANGED <<config, spinning, idletimes, diskstats, toread, buffered,
                   snap, disk, seen>>

SetDisks(a) ==
    LET m == CASE a.kind = "include" -> a.letters
               [] a.kind = "exclude" -> managing \ a.letters
               [] a.kind = "empty"   -> managing
    IN  /\ managing' = m
        /\ pc' = IF m = {} /\ a.kind # "empty" THEN "exit" ELSE pc
        /\ UNCHANGED <<idletime, checktime>>

(* Fault: the minimum is forgotten.                                        *)
Clamp_NoMinimum(a, min, default) == IF ~a.valid THEN default ELSE a.n

Clamp(a, min, default) ==
    IF ~a.valid THEN default ELSE IF a.n < min THEN min ELSE a.n

SetIdletime(a) ==
    /\ idletime' = Clamp(a, IDLETIME_MIN, IDLETIME_DEFAULT)
    /\ UNCHANGED <<pc, managing, checktime>>

SetChecktime(a) ==
    /\ checktime' = Clamp(a, CHECKTIME_MIN, CHECKTIME_DEFAULT)
    /\ UNCHANGED <<pc, managing, idletime>>

(* An option nobody knows, or the parameter of the last one is missing.    *)
BadOption(a) ==
    /\ a.opt \in {"unknown", "missing"}
    /\ pc' = "exit"
    /\ UNCHANGED <<managing, idletime, checktime>>

ParseOption ==
    /\ pc = "options" /\ args # <<>>
    /\ args' = Tail(args)
    /\ \/ Head(args).opt = "-d" /\ SetDisks(Head(args))
       \/ Head(args).opt = "-i" /\ SetIdletime(Head(args))
       \/ Head(args).opt = "-c" /\ SetChecktime(Head(args))
       \/ BadOption(Head(args))
    /\ UNCHANGED <<spinning, idletimes, diskstats, toread, buffered, snap,
                   disk, seen>>

OptionsDone ==
    /\ pc = "options" /\ args = <<>>
    /\ pc' = "open"
    /\ UNCHANGED <<config, spinning, idletimes, diskstats, toread, buffered,
                   snap, disk, seen>>

-----------------------------------------------------------------------------
(* _manage: one pass over /proc/diskstats, then sleep                      *)

OpenDiskstats ==
    /\ pc = "open"
    /\ \/ pc' = "lines" /\ toread' = 0
       \/ pc' = "exit"  /\ UNCHANGED toread
    /\ UNCHANGED <<config, spinning, idletimes, diskstats, buffered, snap,
                   disk, seen>>

(* fgets with an empty buffer: one read(2) brings the lines of the next    *)
(* disks, as they are now; how many fit is up to the kernel and stdio.     *)
ReadLines(upto) ==
    LET got == {d \in toread .. upto - 1 : present[d]}
    IN  /\ toread' = upto
        /\ buffered' = got
        /\ snap' = [d \in Disks |->
                      IF d \in got
                      THEN [line |-> line[d], inflight |-> inflight[d]]
                      ELSE snap[d]]
        /\ snapquiet' = [d \in Disks |->
                           IF d \in got THEN quiet[d] ELSE snapquiet[d]]

FillBuffer ==
    /\ pc = "lines" /\ buffered = {}
    /\ \E upto \in toread + 1 .. NumDisks : ReadLines(upto)
    /\ UNCHANGED <<pc, config, spinning, idletimes, diskstats, disk, quiet,
                   stopline, sent>>

(* The STOP command: the open or the ioctl may fail.                       *)
DiskStop(d) ==
    /\ \E ok \in BOOLEAN :
          platter' = [platter EXCEPT ![d] = IF ok THEN FALSE ELSE @]
    /\ stopline' = [stopline EXCEPT ![d] = snap[d].line]
    /\ sent' = [sent EXCEPT ![d] = 1 - @]

(* Faults: the limit is exceeded before the STOP; the spinning bit is not  *)
(* looked at.                                                              *)
DiskIdle_Late(d) ==
    LET t == IntAdd(idletimes[d], checktime)
    IN  /\ idletimes' = [idletimes EXCEPT ![d] = t]
        /\ IF d \notin spinning \/ idletime >= t
           THEN UNCHANGED <<spinning, platter, stopline, sent>>
           ELSE DiskStop(d) /\ spinning' = spinning \ {d}
        /\ UNCHANGED diskstats

DiskIdle_Again(d) ==
    LET t == IntAdd(idletimes[d], checktime)
    IN  /\ idletimes' = [idletimes EXCEPT ![d] = t]
        /\ IF idletime > t
           THEN UNCHANGED <<spinning, platter, stopline, sent>>
           ELSE DiskStop(d) /\ spinning' = spinning \ {d}
        /\ UNCHANGED diskstats

DiskIdle(d) ==
    LET t == IntAdd(idletimes[d], checktime)
    IN  /\ idletimes' = [idletimes EXCEPT ![d] = t]
        /\ IF d \notin spinning \/ idletime > t
           THEN UNCHANGED <<spinning, platter, stopline, sent>>
           ELSE DiskStop(d) /\ spinning' = spinning \ {d}
        /\ UNCHANGED diskstats

(* Faults: one of the three assignments is missing.                        *)
DiskActive_KeepTime(d) ==
    /\ spinning'  = spinning \union {d}
    /\ diskstats' = [diskstats EXCEPT ![d] = snap[d].line]
    /\ UNCHANGED <<idletimes, platter, stopline, sent>>

DiskActive_KeepLine(d) ==
    /\ spinning'  = spinning \union {d}
    /\ idletimes' = [idletimes EXCEPT ![d] = 0]
    /\ UNCHANGED <<diskstats, platter, stopline, sent>>

DiskActive_KeepBit(d) ==
    /\ idletimes' = [idletimes EXCEPT ![d] = 0]
    /\ diskstats' = [diskstats EXCEPT ![d] = snap[d].line]
    /\ UNCHANGED <<spinning, platter, stopline, sent>>

DiskActive(d) ==
    /\ spinning'  = spinning \union {d}
    /\ idletimes' = [idletimes EXCEPT ![d] = 0]
    /\ diskstats' = [diskstats EXCEPT ![d] = snap[d].line]
    /\ UNCHANGED <<platter, stopline, sent>>

ManageLine(d) ==
    /\ pc = "lines"
    /\ d \in buffered /\ \A e \in buffered : d <= e
    /\ buffered' = buffered \ {d}
    /\ IF d \notin managing \/ d \in Unparsable
       THEN UNCHANGED <<spinning, idletimes, diskstats, platter, stopline,
                       sent>>
       ELSE IF ~snap[d].inflight /\ diskstats[d] = snap[d].line
            THEN DiskIdle(d)
            ELSE DiskActive(d)
    /\ UNCHANGED <<pc, config, toread, snap, line, inflight, present, quiet,
                   snapquiet>>

EndOfFile ==
    /\ pc = "lines" /\ buffered = {} /\ toread = NumDisks
    /\ pc' = "sleep"
    /\ UNCHANGED <<config, spinning, idletimes, diskstats, toread, buffered,
                   snap, disk, seen>>

(* Time passes only here: a pass itself takes none.  quiet needs no more   *)
(* precision than the longest idle time the daemon counts.                 *)
Sleep ==
    /\ pc = "sleep"
    /\ pc' = "open"
    /\ quiet' = [d \in Disks |-> IF quiet[d] + checktime > IntMax
                                 THEN IntMax ELSE quiet[d] + checktime]
    /\ UNCHANGED <<config, spinning, idletimes, diskstats, toread, buffered,
                   snap, disk, snapquiet, stopline, sent>>

Exited == pc = "exit" /\ UNCHANGED vars

Manage ==
    \/ OpenDiskstats \/ FillBuffer \/ EndOfFile \/ Sleep
    \/ \E d \in Disks : ManageLine(d)

-----------------------------------------------------------------------------
(* The disks and the programs that use them                                *)

StartIO(d) ==
    /\ present[d] /\ ~inflight[d] /\ line[d] < MaxLine
    /\ inflight' = [inflight EXCEPT ![d] = TRUE]
    /\ platter'  = [platter EXCEPT ![d] = TRUE]
    /\ quiet'    = [quiet EXCEPT ![d] = 0]
    /\ UNCHANGED <<daemon, line, present, snapquiet, stopline, sent>>

FinishIO(d) ==
    /\ inflight[d]
    /\ inflight' = [inflight EXCEPT ![d] = FALSE]
    /\ line'     = [line EXCEPT ![d] = @ + 1]
    /\ platter'  = [platter EXCEPT ![d] = TRUE]
    /\ quiet'    = [quiet EXCEPT ![d] = 0]
    /\ UNCHANGED <<daemon, present, snapquiet, stopline, sent>>

(* An I/O in progress ends with an error, which the counters include.      *)
Unplug(d) ==
    /\ present[d]
    /\ present'  = [present EXCEPT ![d] = FALSE]
    /\ platter'  = [platter EXCEPT ![d] = FALSE]
    /\ inflight' = [inflight EXCEPT ![d] = FALSE]
    /\ line'     = [line EXCEPT ![d] = IF inflight[d] THEN @ + 1 ELSE @]
    /\ quiet'    = [quiet EXCEPT ![d] = IF inflight[d] THEN 0 ELSE @]
    /\ UNCHANGED <<daemon, snapquiet, stopline, sent>>

(* The counters of the new disk start again: nearly always another line,   *)
(* but nothing prevents the same one.                                      *)
Plug(d) ==
    /\ ~present[d]
    /\ present' = [present EXCEPT ![d] = TRUE]
    /\ platter' = [platter EXCEPT ![d] = TRUE]
    /\ \E n \in {line[d], line[d] + 1} :
          /\ n \in Lines
          /\ line'  = [line EXCEPT ![d] = n]
          /\ quiet' = [quiet EXCEPT ![d] = IF n = line[d] THEN @ ELSE 0]
    /\ UNCHANGED <<daemon, inflight, snapquiet, stopline, sent>>

World == \E d \in Disks : StartIO(d) \/ FinishIO(d) \/ Unplug(d) \/ Plug(d)

-----------------------------------------------------------------------------
Daemon == CheckVersion \/ ParseOption \/ OptionsDone \/ Manage
Next   == Daemon \/ World \/ Exited
Spec   == Init /\ [][Next]_vars

(* The daemon is one process that the kernel schedules; no I/O is owed.    *)
FairSpec == Spec /\ WF_vars(Daemon)

-----------------------------------------------------------------------------
TypeOK ==
    /\ pc \in {"version", "options", "open", "lines", "sleep", "exit"}
    /\ args \in Seq(DiskArg \union TimeArg \union OtherArg)
    /\ managing \subseteq Bits /\ spinning \subseteq Bits
    /\ idletime \in IDLETIME_MIN .. IntMax
    /\ checktime \in CHECKTIME_MIN .. IntMax
    /\ idletimes \in [Disks -> Ints]
    /\ diskstats \in [Disks -> 0 .. MaxLine]
    /\ toread \in 0 .. NumDisks /\ buffered \subseteq Disks
    /\ snap \in [Disks -> [line : 0 .. MaxLine, inflight : BOOLEAN]]
    /\ line \in [Disks -> Lines]
    /\ inflight \in [Disks -> BOOLEAN]
    /\ present \in [Disks -> BOOLEAN] /\ platter \in [Disks -> BOOLEAN]
    /\ quiet \in [Disks -> 0 .. IntMax] /\ snapquiet \in [Disks -> 0 .. IntMax]
    /\ stopline \in [Disks -> 0 .. MaxLine] /\ sent \in [Disks -> 0 .. 1]

(* A disk believed to spin has been idle for less than idletime: the bit   *)
(* and the counter are never left in a state in which a STOP is overdue.   *)
SpinningBelowLimit ==
    \A d \in Disks : d \in spinning => idletimes[d] < idletime

(* A STOP goes only to a managed disk whose line, when it was read, had    *)
(* not changed for idletime seconds and showed no I/O in progress,         *)
(* whatever I/O, plugging and unplugging went on between the passes.       *)
StopOnlyWhenIdle ==
    [][\A d \in Disks : sent'[d] # sent[d] =>
          /\ d \in managing
          /\ snapquiet[d] >= idletime
          /\ ~snap[d].inflight]_vars

(* A disk that has been sent a STOP is not sent another one before some    *)
(* I/O has changed its line: no periodic STOPs of a sleeping disk.         *)
NoSecondStop ==
    [][\A d \in Disks : sent'[d] # sent[d] => snap[d].line > stopline[d]]_vars

(* "No disks specified to be managed; exiting" (sd-idle-2.6.c:247): the    *)
(* daemon that runs manages at least one disk.                             *)
ManagesSomeDisk ==
    pc \in {"open", "lines", "sleep"} => managing \intersect Disks # {}

(* Can the daemon count up to idletime without overflowing the int?        *)
CountsUp == idletime + checktime <= IntMax + 1

(* A managed disk that stays plugged in and gets no more I/O is in the end *)
(* sent a STOP, and believed to be at rest for good.                       *)
IdleDiskIsStopped ==
    \A d \in Disks \ Unparsable :
       <>[](/\ d \in managing /\ CountsUp /\ pc # "exit"
            /\ present[d] /\ ~inflight[d])
          => <>[](d \notin spinning)

(* The I/O of a managed disk that was believed to be at rest is noticed.   *)
WakeIsNoticed ==
    \A d \in Disks \ Unparsable :
       (d \in managing /\ present[d] /\ line[d] # diskstats[d])
          ~> (d \in spinning \/ pc = "exit" \/ ~present[d])

-----------------------------------------------------------------------------
(* The inductive invariant behind SpinningBelowLimit, StopOnlyWhenIdle and *)
(* NoSecondStop.                                                           *)

Cap(x) == IF x > IntMax THEN IntMax ELSE x

(* An I/O in progress is one of a plugged-in disk; the bound MaxLine       *)
(* leaves room for its end.                                                *)
InflightOK == \A d \in Disks : inflight[d] => present[d] /\ line[d] < MaxLine

(* Lines are in the buffer during a pass only, and nothing has been saved  *)
(* before the first one.                                                   *)
Passes ==
    /\ pc # "lines" => buffered = {}
    /\ pc \in {"version", "options"} =>
          \A d \in Disks : diskstats[d] = 0 /\ idletimes[d] = 0

(* The line only grows: saved, then in the buffer, then in the kernel.     *)
LineOrder(d) ==
    /\ diskstats[d] <= line[d]
    /\ stopline[d] <= diskstats[d]
    /\ d \in buffered => /\ d < toread
                         /\ diskstats[d] <= snap[d].line
                         /\ snap[d].line <= line[d]
                         /\ snap[d].inflight => inflight[d] \/ snap[d].line < line[d]

(* The pass still has to look at the disk.                                 *)
Due(d) == pc = "open" \/ (pc = "lines" /\ (d >= toread \/ d \in buffered))

(* While the line is the saved one the counter is no more than the real    *)
(* idle time, and a disk still due can be charged another checktime.       *)
CounterIsQuiet(d) ==
    diskstats[d] = line[d] /\ ~inflight[d] =>
       /\ quiet[d] >= idletimes[d]
       /\ Due(d) => quiet[d] >= Cap(idletimes[d] + checktime)

BufferedIsQuiet(d) ==
    d \in buffered /\ diskstats[d] = snap[d].line /\ ~snap[d].inflight =>
       snapquiet[d] >= Cap(idletimes[d] + checktime)

(* A disk whose saved line has led to a STOP spins again only for a reason *)
(* that will change the line.                                              *)
SpinsForAReason(d) ==
    d \in spinning /\ stopline[d] = diskstats[d] =>
       /\ inflight[d] \/ diskstats[d] < line[d]
       /\ d \in buffered => snap[d].inflight \/ diskstats[d] < snap[d].line

SdIdleInv ==
    /\ TypeOK
    /\ InflightOK
    /\ Passes
    /\ SpinningBelowLimit
    /\ \A d \in Disks : /\ LineOrder(d)
                        /\ CounterIsQuiet(d) /\ BufferedIsQuiet(d)
                        /\ SpinsForAReason(d)
=============================================================================
