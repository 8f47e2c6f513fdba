---------------------------- MODULE SdIdle_proofs ----------------------------
(* Proofs about SdIdle, for every number of disks, every argument vector   *)
(* and every width of int.                                                 *)
EXTENDS SdIdle, TLAPS

(* One addition of checktime neither leaves the ints nor overstates time.  *)
LEMMA IntAddBound ==
    ASSUME NEW x \in Ints, NEW y \in 1 .. IntMax
    PROVE  IntAdd(x, y) \in Ints /\ IntAdd(x, y) <= Cap(x + y)
  BY SdIdleAssumption DEF IntAdd, Ints, Cap

(* Whatever the parameter of -i or -c, the time is at least its minimum.   *)
LEMMA ClampBound ==
    ASSUME NEW a \in TimeArg, NEW min \in Ints, NEW default \in min .. IntMax
    PROVE  Clamp(a, min, default) \in min .. IntMax
  BY SdIdleAssumption DEF Clamp, TimeArg, Ints

LEMMA TypeInit == Init => TypeOK /\ InflightOK
  BY SdIdleAssumption DEF Init, TypeOK, InflightOK, Disks, Bits, Ints, Lines

-----------------------------------------------------------------------------
(* Every step keeps the types.                                             *)
LEMMA TypeStep == TypeOK /\ InflightOK /\ [Next]_vars => TypeOK'
<1> SUFFICES ASSUME TypeOK, InflightOK, [Next]_vars PROVE TypeOK'
  OBVIOUS
<1> USE SdIdleAssumption
<1>1. CASE CheckVersion
  BY <1>1 DEF CheckVersion, TypeOK, config, disk, seen
<1>2. CASE ParseOption
  <2> DEFINE a == Head(args)
  <2>1. a \in DiskArg \union TimeArg \union OtherArg /\ args' \in Seq(DiskArg \union TimeArg \union OtherArg)
    BY <1>2 DEF ParseOption, BadOption, TypeOK
  <2>2. CASE a.opt = "-d" /\ SetDisks(a)
    <3>1. a \in DiskArg
      BY <2>1, <2>2 DEF DiskArg, TimeArg, OtherArg
    <3>2. managing' \subseteq Bits /\ pc' \in {pc, "exit"}
      BY <3>1, <2>2 DEF SetDisks, TypeOK, DiskArg, Disks, Bits
    <3> QED
      BY <1>2, <2>1, <2>2, <3>2 DEF ParseOption, SetDisks, TypeOK, disk, seen
  <2>3. CASE a.opt = "-i" /\ SetIdletime(a)
    <3>1. a \in TimeArg
      BY <2>1, <2>3 DEF DiskArg, TimeArg, OtherArg
    <3>2. idletime' \in IDLETIME_MIN .. IntMax
      BY <3>1, <2>3, ClampBound DEF SetIdletime, Ints
    <3> QED
      BY <1>2, <2>1, <2>3, <3>2 DEF ParseOption, SetIdletime, TypeOK, disk, seen
  <2>4. CASE a.opt = "-c" /\ SetChecktime(a)
    <3>1. a \in TimeArg
      BY <2>1, <2>4 DEF DiskArg, TimeArg, OtherArg
    <3>2. checktime' \in CHECKTIME_MIN .. IntMax
      BY <3>1, <2>4, ClampBound DEF SetChecktime, Ints
    <3> QED
      BY <1>2, <2>1, <2>4, <3>2 DEF ParseOption, SetChecktime, TypeOK, disk, seen
  <2>5. CASE pc' = "exit" /\ UNCHANGED <<managing, idletime, checktime>>
    BY <1>2, <2>1, <2>5 DEF ParseOption, BadOption, TypeOK, disk, seen
  <2> QED
    BY <1>2, <2>2, <2>3, <2>4, <2>5 DEF ParseOption, BadOption
<1>3. CASE OptionsDone
  BY <1>3 DEF OptionsDone, TypeOK, config, disk, seen
<1>4. CASE OpenDiskstats
  BY <1>4 DEF OpenDiskstats, TypeOK, config, disk, seen
<1>5. CASE FillBuffer
  <2> PICK upto \in toread + 1 .. NumDisks : ReadLines(upto)
    BY <1>5 DEF FillBuffer
  <2>1. toread' \in 0 .. NumDisks /\ buffered' \subseteq Disks
    <3>1. toread \in 0 .. NumDisks
      BY DEF TypeOK
    <3>2. toread' = upto /\ buffered' = {d \in toread .. upto - 1 : present[d]}
      BY DEF ReadLines
    <3> QED
      BY <3>1, <3>2 DEF Disks
  <2>2. snap' \in [Disks -> [line : 0 .. MaxLine, inflight : BOOLEAN]]
    BY DEF ReadLines, TypeOK, Lines
  <2>3. snapquiet' \in [Disks -> 0 .. IntMax]
    BY DEF ReadLines, TypeOK
  <2> QED
    BY <1>5, <2>1, <2>2, <2>3 DEF FillBuffer, TypeOK, config, disk
<1>6. CASE EndOfFile
  BY <1>6 DEF EndOfFile, TypeOK, config, disk, seen
<1>7. CASE Sleep
  <2>1. quiet' \in [Disks -> 0 .. IntMax]
    BY <1>7 DEF Sleep, TypeOK
  <2> QED
    BY <1>7, <2>1 DEF Sleep, TypeOK, config, disk
<1>8. ASSUME NEW d \in Disks, ManageLine(d) PROVE TypeOK'
  <2>1. IntAdd(idletimes[d], checktime) \in Ints
    BY IntAddBound DEF TypeOK
  <2>2. CASE DiskIdle(d)
    <3>1. /\ idletimes' \in [Disks -> Ints] /\ spinning' \subseteq Bits
          /\ diskstats' = diskstats
      BY <2>1, <2>2 DEF DiskIdle, TypeOK
    <3>2. /\ platter' \in [Disks -> BOOLEAN] /\ sent' \in [Disks -> 0 .. 1]
          /\ stopline' \in [Disks -> 0 .. MaxLine]
      <4>1. CASE DiskStop(d)
        <5>1. PICK ok \in BOOLEAN : platter' = [platter EXCEPT ![d] = IF ok THEN FALSE ELSE @]
          BY <4>1 DEF DiskStop
        <5>2. platter' \in [Disks -> BOOLEAN]
          BY <5>1 DEF TypeOK
        <5>3. sent' \in [Disks -> 0 .. 1]
          <6>1. sent' = [sent EXCEPT ![d] = 1 - @] /\ sent[d] \in 0 .. 1
            BY <4>1 DEF DiskStop, TypeOK
          <6>2. 1 - sent[d] \in 0 .. 1
            BY <6>1
          <6> QED
            BY <6>1, <6>2 DEF TypeOK
        <5>4. stopline' \in [Disks -> 0 .. MaxLine]
          BY <4>1 DEF DiskStop, TypeOK
        <5> QED
          BY <5>2, <5>3, <5>4
      <4> QED
        BY <2>2, <4>1 DEF DiskIdle, TypeOK
    <3> QED
      BY <1>8, <3>1, <3>2 DEF ManageLine, TypeOK, config
  <2>3. CASE DiskActive(d)
    <3>1. spinning' \subseteq Bits
      <4>1. d \in Bits
        BY DEF Disks, Bits
      <4> QED
        BY <2>3, <4>1 DEF DiskActive, TypeOK
    <3>2. diskstats' \in [Disks -> 0 .. MaxLine]
      BY <2>3 DEF DiskActive, TypeOK
    <3>3. idletimes' \in [Disks -> Ints]
      BY <2>3 DEF DiskActive, TypeOK, Ints
    <3> QED
      BY <1>8, <2>3, <3>1, <3>2, <3>3 DEF ManageLine, DiskActive, TypeOK, config
  <2>4. CASE UNCHANGED <<spinning, idletimes, diskstats, platter, stopline, sent>>
    BY <1>8, <2>4 DEF ManageLine, TypeOK, config
  <2> QED
    BY <1>8, <2>2, <2>3, <2>4 DEF ManageLine
<1>9. ASSUME NEW d \in Disks, StartIO(d) PROVE TypeOK'
  BY <1>9 DEF StartIO, TypeOK, daemon
<1>10. ASSUME NEW d \in Disks, FinishIO(d) PROVE TypeOK'
  <2>1. line' \in [Disks -> Lines]
    BY <1>10 DEF FinishIO, TypeOK, InflightOK, Lines
  <2> QED
    BY <1>10, <2>1 DEF FinishIO, TypeOK, daemon
<1>11. ASSUME NEW d \in Disks, Unplug(d) PROVE TypeOK'
  <2>1. line' \in [Disks -> Lines]
    BY <1>11 DEF Unplug, TypeOK, InflightOK, Lines
  <2>2. /\ present' \in [Disks -> BOOLEAN] /\ platter' \in [Disks -> BOOLEAN]
        /\ inflight' \in [Disks -> BOOLEAN]
    BY <1>11 DEF Unplug, TypeOK
  <2>3. quiet' \in [Disks -> 0 .. IntMax]
    BY <1>11 DEF Unplug, TypeOK
  <2>4. UNCHANGED <<daemon, snapquiet, stopline, sent>>
    BY <1>11 DEF Unplug
  <2> QED
    BY <2>1, <2>2, <2>3, <2>4 DEF TypeOK, daemon
<1>12. ASSUME NEW d \in Disks, Plug(d) PROVE TypeOK'
  BY <1>12 DEF Plug, TypeOK, daemon
<1>13. CASE UNCHANGED vars
  BY <1>13 DEF vars, TypeOK
<1> QED
  BY <1>1, <1>2, <1>3, <1>4, <1>5, <1>6, <1>7, <1>8, <1>9, <1>10, <1>11, <1>12, <1>13
  DEF Next, Daemon, Manage, World, Exited

-----------------------------------------------------------------------------
(* The inductive invariant.                                                *)
LEMMA InvInit == Init => SdIdleInv
<1> SUFFICES ASSUME Init PROVE SdIdleInv
  OBVIOUS
<1>1. TypeOK /\ InflightOK
  BY TypeInit
<1>2. Passes
  BY DEF Init, Passes
<1>3. ASSUME NEW d \in Disks
      PROVE  /\ LineOrder(d) /\ CounterIsQuiet(d) /\ BufferedIsQuiet(d)
             /\ SpinsForAReason(d)
  BY DEF Init, LineOrder, CounterIsQuiet, BufferedIsQuiet, SpinsForAReason
<1>4. SpinningBelowLimit
  BY SdIdleAssumption DEF Init, SpinningBelowLimit
<1> QED
  BY <1>1, <1>2, <1>3, <1>4 DEF SdIdleInv

(* The types of what concerns one disk.                                    *)
LEMMA DiskTypes ==
    ASSUME TypeOK, NEW d \in Disks
    PROVE  /\ diskstats[d] \in Nat /\ stopline[d] \in Nat /\ line[d] \in Nat
           /\ snap[d].line \in Nat /\ snap[d].inflight \in BOOLEAN
           /\ inflight[d] \in BOOLEAN /\ line[d] > 0
           /\ idletimes[d] \in Ints /\ idletimes[d] \in Int
           /\ quiet[d] \in 0 .. IntMax /\ snapquiet[d] \in 0 .. IntMax
           /\ d \in Nat /\ toread \in Nat /\ checktime \in 1 .. IntMax
           /\ idletime \in 1 .. IntMax
<1> USE SdIdleAssumption
<1>1. diskstats[d] \in Nat /\ stopline[d] \in Nat /\ line[d] \in Nat /\ line[d] > 0
  BY DEF TypeOK, Lines
<1>2. snap[d] \in [line : 0 .. MaxLine, inflight : BOOLEAN]
  BY DEF TypeOK
<1>3. snap[d].line \in Nat /\ snap[d].inflight \in BOOLEAN
  BY <1>2
<1>4. inflight[d] \in BOOLEAN /\ idletimes[d] \in Ints /\ idletimes[d] \in Int
  BY DEF TypeOK, Ints
<1>5. quiet[d] \in 0 .. IntMax /\ snapquiet[d] \in 0 .. IntMax
  BY DEF TypeOK
<1>6. d \in Nat /\ toread \in Nat /\ checktime \in 1 .. IntMax /\ idletime \in 1 .. IntMax
  BY DEF TypeOK, Disks
<1> QED
  BY <1>1, <1>3, <1>4, <1>5, <1>6

(* The steps of the daemon that precede the first pass or only move it     *)
(* along: nothing that concerns one disk changes but, in Sleep, quiet.     *)
LEMMA QuietStep ==
    ASSUME SdIdleInv, TypeOK',
           \/ CheckVersion \/ ParseOption \/ OptionsDone
           \/ OpenDiskstats \/ EndOfFile \/ Sleep \/ UNCHANGED vars
    PROVE  SdIdleInv'
<1> USE SdIdleAssumption
<1>1. /\ UNCHANGED <<spinning, idletimes, diskstats, buffered, snap, line,
                     inflight, present, snapquiet, stopline>>
      /\ \/ UNCHANGED <<checktime, idletime>>
         \/ pc = "options" /\ pc' \in {"options", "exit"}
  BY DEF CheckVersion, ParseOption, BadOption, SetDisks, SetIdletime, SetChecktime,
         OptionsDone, OpenDiskstats, EndOfFile, Sleep, config, disk, seen, vars
<1>2. /\ TypeOK /\ InflightOK /\ Passes /\ SpinningBelowLimit
  BY DEF SdIdleInv
<1>3. InflightOK'
  BY <1>1, <1>2 DEF InflightOK
<1>4. Passes'
  BY <1>1, <1>2 DEF Passes, CheckVersion, ParseOption, BadOption, SetDisks, SetIdletime,
     SetChecktime, OptionsDone, OpenDiskstats, EndOfFile, Sleep, vars
<1>5. SpinningBelowLimit'
  <2>1. CASE UNCHANGED idletime
    BY <1>1, <1>2, <2>1 DEF SpinningBelowLimit
  <2>2. CASE pc = "options"
    BY SMTT(20), <1>1, <1>2, <2>2 DEF SpinningBelowLimit, Passes, TypeOK
  <2> QED
    BY <1>1, <2>1, <2>2
<1>6. ASSUME NEW d \in Disks
      PROVE  /\ LineOrder(d)' /\ CounterIsQuiet(d)' /\ BufferedIsQuiet(d)'
             /\ SpinsForAReason(d)'
  <2>1. LineOrder(d) /\ CounterIsQuiet(d) /\ BufferedIsQuiet(d) /\ SpinsForAReason(d)
    BY DEF SdIdleInv
  <2>2. SpinsForAReason(d)'
    BY <1>1, <2>1 DEF SpinsForAReason
  <2>3. LineOrder(d)'
    <3>1. buffered = {} \/ toread' = toread
      BY <1>2 DEF Passes, CheckVersion, ParseOption, BadOption, OptionsDone, OpenDiskstats,
         EndOfFile, Sleep, vars
    <3> QED
      BY <1>1, <2>1, <3>1 DEF LineOrder
  <2>4. BufferedIsQuiet(d)'
    BY <1>1, <1>2, <2>1 DEF BufferedIsQuiet, Passes
  <2>5. CounterIsQuiet(d)'
    <3> SUFFICES ASSUME diskstats[d] = line[d], ~inflight[d]
                 PROVE  /\ quiet'[d] >= idletimes[d]
                        /\ Due(d)' => quiet'[d] >= Cap(idletimes[d] + checktime')
      BY <1>1 DEF CounterIsQuiet
    <3>1. /\ quiet[d] >= idletimes[d]
          /\ Due(d) => quiet[d] >= Cap(idletimes[d] + checktime)
      BY <2>1 DEF CounterIsQuiet
    <3>2. pc \notin {"version", "options"}
      BY <1>2, DiskTypes DEF Passes
    <3>3. CASE Sleep
      <4>1. /\ quiet'[d] = IF quiet[d] + checktime > IntMax THEN IntMax ELSE quiet[d] + checktime
            /\ checktime' = checktime
        BY <3>3 DEF Sleep, config
      <4> QED
        BY SMTT(20), <1>2, <3>1, <4>1, DiskTypes DEF Cap
    <3>4. CASE ~Sleep
      <4>1. quiet' = quiet /\ checktime' = checktime
        BY <1>1, <3>2, <3>4 DEF CheckVersion, ParseOption, BadOption, OptionsDone,
           OpenDiskstats, EndOfFile, config, disk, seen, vars
      <4>2. Due(d)' => Due(d)
        BY <1>1, <1>2, <3>2, <3>4, DiskTypes DEF Due, CheckVersion, ParseOption, BadOption,
           OptionsDone, OpenDiskstats, EndOfFile, vars
      <4> QED
        BY <3>1, <4>1, <4>2
    <3> QED
      BY <3>3, <3>4
  <2> QED
    BY <2>2, <2>3, <2>4, <2>5
<1> QED
  BY <1>3, <1>4, <1>5, <1>6 DEF SdIdleInv

(* Reading the lines of the next disks.                                    *)
LEMMA FillStep ==
    ASSUME SdIdleInv, FillBuffer, NEW d \in Disks
    PROVE  /\ LineOrder(d)' /\ CounterIsQuiet(d)' /\ BufferedIsQuiet(d)'
           /\ SpinsForAReason(d)'
<1> USE SdIdleAssumption
<1>1. /\ TypeOK /\ LineOrder(d) /\ CounterIsQuiet(d)
      /\ BufferedIsQuiet(d) /\ SpinsForAReason(d)
  BY DEF SdIdleInv
<1>2. PICK upto \in toread + 1 .. NumDisks : ReadLines(upto)
  BY DEF FillBuffer
<1>3. /\ pc = "lines" /\ buffered = {}
      /\ UNCHANGED <<pc, checktime, spinning, idletimes, diskstats, line,
                     inflight, quiet, stopline>>
  BY DEF FillBuffer, config, disk
<1>4. CASE d \in buffered'
  <2>1. /\ snap'[d] = [line |-> line[d], inflight |-> inflight[d]]
        /\ snapquiet'[d] = quiet[d] /\ d >= toread
    BY <1>2, <1>4 DEF ReadLines
  <2>4. d < toread'
    BY SMTT(20), <1>1, <1>2, <1>4, SdIdleAssumption DEF ReadLines, TypeOK
  <2>2. LineOrder(d)' /\ SpinsForAReason(d)'
    BY <1>1, <1>3, <1>4, <2>1, <2>4, DiskTypes DEF LineOrder, SpinsForAReason
  <2>3. CounterIsQuiet(d)' /\ BufferedIsQuiet(d)'
    BY <1>1, <1>3, <1>4, <2>1 DEF CounterIsQuiet, BufferedIsQuiet, Due, Cap
  <2> QED
    BY <2>2, <2>3
<1>5. CASE d \notin buffered'
  <2>1. toread' \in Nat /\ toread' >= toread
    BY <1>1, <1>2, SdIdleAssumption DEF ReadLines, TypeOK
  <2>2. LineOrder(d)' /\ SpinsForAReason(d)' /\ BufferedIsQuiet(d)'
    BY <1>1, <1>3, <1>5 DEF LineOrder, SpinsForAReason, BufferedIsQuiet
  <2>3. CounterIsQuiet(d)'
    <3>1. Due(d)' => Due(d)
      BY <1>1, <1>3, <1>5, <2>1, DiskTypes DEF Due
    <3> QED
      BY <1>1, <1>3, <3>1 DEF CounterIsQuiet
  <2> QED
    BY <2>2, <2>3
<1> QED
  BY <1>4, <1>5

(* The daemon looks at the line of disk e; d is e or another disk.         *)
LEMMA LineStep ==
    ASSUME SdIdleInv, NEW e \in Disks, ManageLine(e), NEW d \in Disks
    PROVE  /\ LineOrder(d)' /\ CounterIsQuiet(d)' /\ BufferedIsQuiet(d)'
           /\ SpinsForAReason(d)'
           /\ (d \in spinning => idletimes[d] < idletime)'
<1> USE SdIdleAssumption
<1>1. /\ TypeOK /\ LineOrder(d) /\ CounterIsQuiet(d)
      /\ BufferedIsQuiet(d) /\ SpinsForAReason(d)
      /\ d \in spinning => idletimes[d] < idletime
  BY DEF SdIdleInv, SpinningBelowLimit
<1>2. /\ pc = "lines" /\ e \in buffered /\ buffered' = buffered \ {e}
      /\ UNCHANGED <<pc, checktime, idletime, toread, snap, line, inflight,
                     quiet, snapquiet>>
  BY DEF ManageLine, config
<1>3. CASE d # e
  <2>1. UNCHANGED <<idletimes[d], diskstats[d], stopline[d]>>
    BY <1>1, <1>3 DEF ManageLine, DiskIdle, DiskStop, DiskActive, TypeOK
  <2>2. d \in spinning' <=> d \in spinning
    BY <1>3 DEF ManageLine, DiskIdle, DiskActive
  <2>3. d \in buffered' <=> d \in buffered
    BY <1>2, <1>3
  <2> QED
    BY <1>1, <1>2, <2>1, <2>2, <2>3
    DEF LineOrder, CounterIsQuiet, BufferedIsQuiet, SpinsForAReason, Due
<1>4. CASE d = e /\ UNCHANGED <<spinning, idletimes, diskstats, stopline>>
  <2>1. Due(d)
    BY <1>2, <1>4 DEF Due
  <2> QED
    BY <1>1, <1>2, <1>4, <2>1
    DEF LineOrder, CounterIsQuiet, BufferedIsQuiet, SpinsForAReason
<1>5. CASE d = e /\ DiskIdle(d) /\ ~snap[d].inflight /\ diskstats[d] = snap[d].line
  <2> DEFINE t == IntAdd(idletimes[d], checktime)
  <2>1. t \in Ints /\ t \in Int /\ t <= Cap(idletimes[d] + checktime)
    BY SMTT(20), <1>1, DiskTypes, IntAddBound DEF Ints
  <2>2. idletimes'[d] = t /\ diskstats' = diskstats
    BY <1>1, <1>5 DEF DiskIdle, TypeOK
  <2>3. Due(d) /\ d \notin buffered'
    BY <1>2, <1>5 DEF Due
  <2>4. stopline'[d] \in {stopline[d], snap[d].line}
    BY <1>1, <1>5 DEF DiskIdle, DiskStop, TypeOK
  <2>5. \/ d \notin spinning'
        \/ d \in spinning /\ stopline' = stopline /\ t < idletime
    BY <1>1, <1>5, <2>1, DiskTypes DEF DiskIdle
  <2>6. ~Due(d)'
    BY <1>1, <1>2, <1>5, <2>3, DiskTypes DEF Due, LineOrder
  <2>7. CounterIsQuiet(d)'
    <3> SUFFICES ASSUME diskstats'[d] = line'[d], ~inflight'[d]
                 PROVE  quiet'[d] >= t
      BY <2>2, <2>6 DEF CounterIsQuiet
    <3>1. quiet[d] >= Cap(idletimes[d] + checktime)
      BY <1>1, <1>2, <2>2, <2>3 DEF CounterIsQuiet
    <3> QED
      BY <1>1, <1>2, <2>1, <3>1, DiskTypes DEF Cap
  <2>8. LineOrder(d)' /\ SpinsForAReason(d)'
    BY <1>1, <1>2, <1>5, <2>2, <2>3, <2>4, <2>5, DiskTypes DEF LineOrder, SpinsForAReason
  <2> QED
    BY <2>2, <2>3, <2>5, <2>7, <2>8, <1>2 DEF BufferedIsQuiet
<1>6. CASE d = e /\ DiskActive(d) /\ (snap[d].inflight \/ diskstats[d] # snap[d].line)
  <2>1. /\ idletimes'[d] = 0 /\ diskstats'[d] = snap[d].line
        /\ stopline' = stopline /\ d \notin buffered'
    BY <1>1, <1>2, <1>6 DEF DiskActive, TypeOK
  <2>2. ~Due(d)'
    BY <1>1, <1>2, <1>6, <2>1, DiskTypes DEF Due, LineOrder
  <2>3. CounterIsQuiet(d)' /\ BufferedIsQuiet(d)'
    BY <1>1, <1>2, <2>1, <2>2, DiskTypes DEF CounterIsQuiet, BufferedIsQuiet
  <2>4. LineOrder(d)' /\ SpinsForAReason(d)'
    BY <1>1, <1>2, <1>6, <2>1, DiskTypes DEF LineOrder, SpinsForAReason
  <2> QED
    BY <1>1, <1>2, <2>1, <2>3, <2>4, DiskTypes
<1> QED
  BY <1>3, <1>4, <1>5, <1>6 DEF ManageLine

(* The programs that use the disks, and those who plug them in and out.    *)
LEMMA WorldStep ==
    ASSUME SdIdleInv, World, NEW d \in Disks
    PROVE  /\ LineOrder(d)' /\ CounterIsQuiet(d)' /\ BufferedIsQuiet(d)'
           /\ SpinsForAReason(d)'
           /\ inflight'[d] => present'[d] /\ line'[d] < MaxLine
<1> USE SdIdleAssumption
<1>1. /\ TypeOK /\ LineOrder(d) /\ CounterIsQuiet(d)
      /\ BufferedIsQuiet(d) /\ SpinsForAReason(d)
      /\ inflight[d] => present[d] /\ line[d] < MaxLine
  BY DEF SdIdleInv, InflightOK
<1>2. UNCHANGED daemon /\ UNCHANGED <<snapquiet, stopline>>
  BY DEF World, StartIO, FinishIO, Unplug, Plug
<1> DEFINE Same      == /\ UNCHANGED <<line[d], inflight[d], quiet[d]>>
                        /\ present'[d] \/ ~inflight[d]
           Started   == /\ ~inflight[d] /\ line[d] < MaxLine /\ inflight'[d]
                        /\ line'[d] = line[d] /\ present'[d]
           Changed   == ~inflight'[d] /\ line'[d] = line[d] + 1
<1>3. Same \/ Started \/ Changed
  <2>1. PICK e \in Disks : StartIO(e) \/ FinishIO(e) \/ Unplug(e) \/ Plug(e)
    BY DEF World
  <2>2. CASE d # e
    BY <1>1, <2>1, <2>2 DEF StartIO, FinishIO, Unplug, Plug, TypeOK
  <2>3. CASE d = e /\ StartIO(d)
    BY <1>1, <2>3 DEF StartIO, TypeOK
  <2>4. CASE d = e /\ FinishIO(d)
    BY <1>1, <2>4 DEF FinishIO, TypeOK
  <2>5. CASE d = e /\ Unplug(d)
    BY <1>1, <2>5 DEF Unplug, TypeOK
  <2>6. CASE d = e /\ Plug(d)
    BY <1>1, <2>6 DEF Plug, TypeOK
  <2> QED
    BY <2>1, <2>2, <2>3, <2>4, <2>5, <2>6
<1>4. CASE Same
  BY <1>1, <1>2, <1>4
  DEF daemon, LineOrder, CounterIsQuiet, BufferedIsQuiet, SpinsForAReason, Due
<1>5. CASE Started
  BY <1>1, <1>2, <1>5, DiskTypes
  DEF daemon, LineOrder, CounterIsQuiet, BufferedIsQuiet, SpinsForAReason
<1>6. CASE Changed
  BY SMTT(20), <1>1, <1>2, <1>6, DiskTypes
  DEF daemon, LineOrder, CounterIsQuiet, BufferedIsQuiet, SpinsForAReason
<1> QED
  BY <1>3, <1>4, <1>5, <1>6

LEMMA InvStep == SdIdleInv /\ [Next]_vars => SdIdleInv'
<1> SUFFICES ASSUME SdIdleInv, [Next]_vars PROVE SdIdleInv'
  OBVIOUS
<1>1. TypeOK'
  BY TypeStep DEF SdIdleInv
<1>2. CASE \/ CheckVersion \/ ParseOption \/ OptionsDone
           \/ OpenDiskstats \/ EndOfFile \/ Sleep \/ UNCHANGED vars
  BY <1>1, <1>2, QuietStep
<1>3. CASE FillBuffer
  <2>1. InflightOK' /\ Passes' /\ SpinningBelowLimit'
    BY <1>3 DEF FillBuffer, SdIdleInv, InflightOK, Passes, SpinningBelowLimit, config, disk
  <2> QED
    BY <1>1, <1>3, <2>1, FillStep DEF SdIdleInv
<1>4. ASSUME NEW e \in Disks, ManageLine(e) PROVE SdIdleInv'
  <2>1. InflightOK' /\ Passes'
    BY <1>4 DEF ManageLine, SdIdleInv, InflightOK, Passes
  <2>2. SpinningBelowLimit'
    BY <1>4, LineStep DEF SpinningBelowLimit
  <2> QED
    BY <1>1, <1>4, <2>1, <2>2, LineStep DEF SdIdleInv
<1>5. CASE World
  <2>1. UNCHANGED daemon
    BY <1>5 DEF World, StartIO, FinishIO, Unplug, Plug
  <2>2. Passes' /\ SpinningBelowLimit'
    BY <2>1 DEF SdIdleInv, Passes, SpinningBelowLimit, daemon
  <2>3. InflightOK'
    BY <1>5, WorldStep DEF InflightOK
  <2> QED
    BY <1>1, <1>5, <2>2, <2>3, WorldStep DEF SdIdleInv
<1> QED
  BY <1>2, <1>3, <1>4, <1>5 DEF Next, Daemon, Manage, Exited

(* The inductive invariant holds in every reachable state.                 *)
THEOREM Invariant == Spec => []SdIdleInv
  BY InvInit, InvStep, PTL DEF Spec

(* Every variable keeps its type.                                          *)
THEOREM TypeCorrect == Spec => []TypeOK
  BY Invariant, PTL DEF SdIdleInv

(* No disk that _spinning says spins is overdue for its STOP.              *)
THEOREM NeverOverdue == Spec => []SpinningBelowLimit
  BY Invariant, PTL DEF SdIdleInv

-----------------------------------------------------------------------------
(* What holds in a step that sends a STOP.                                 *)
LEMMA StopStep ==
    ASSUME SdIdleInv, [Next]_vars, NEW d \in Disks, sent'[d] # sent[d]
    PROVE  /\ d \in managing /\ snapquiet[d] >= idletime /\ ~snap[d].inflight
           /\ snap[d].line > stopline[d]
<1> USE SdIdleAssumption
<1>1. PICK e \in Disks : ManageLine(e)
  BY DEF Next, Daemon, Manage, World, Exited, CheckVersion, ParseOption, BadOption, OptionsDone,
         OpenDiskstats, FillBuffer, EndOfFile, Sleep, StartIO, FinishIO, Unplug,
         Plug, seen, vars
<1>2. d = e
  BY <1>1 DEF ManageLine, DiskIdle, DiskStop, DiskActive, SdIdleInv, TypeOK
<1>3. DiskIdle(d) /\ d \in managing /\ ~snap[d].inflight /\ diskstats[d] = snap[d].line
  BY <1>1, <1>2 DEF ManageLine, DiskActive
<1>4. d \in spinning /\ ~(idletime > IntAdd(idletimes[d], checktime))
  BY <1>3 DEF DiskIdle
<1>5. /\ d \in buffered /\ TypeOK /\ LineOrder(d) /\ BufferedIsQuiet(d)
      /\ SpinsForAReason(d)
  BY <1>1, <1>2 DEF ManageLine, SdIdleInv
<1>6. snapquiet[d] >= idletime
  <2>a. idletimes[d] \in Ints /\ checktime \in 1 .. IntMax
    BY <1>5, DiskTypes
  <2>b. IntAdd(idletimes[d], checktime) \in Ints
    BY <2>a, IntAddBound
  <2>1. IntAdd(idletimes[d], checktime) \in Int
    BY <2>b DEF Ints
  <2>2. IntAdd(idletimes[d], checktime) <= Cap(idletimes[d] + checktime)
    BY <2>a, IntAddBound
  <2>3. snapquiet[d] >= Cap(idletimes[d] + checktime)
    BY <1>3, <1>5 DEF BufferedIsQuiet
  <2>4. Cap(idletimes[d] + checktime) \in Int
    BY <1>5, DiskTypes DEF Cap
  <2> QED
    BY <1>4, <1>5, <2>1, <2>2, <2>3, <2>4, DiskTypes
<1>7. snap[d].line > stopline[d]
  BY <1>3, <1>4, <1>5, DiskTypes DEF SpinsForAReason, LineOrder
<1> QED
  BY <1>3, <1>6, <1>7

(* A STOP goes only to a managed disk that had been idle for idletime when *)
(* its line was read: _disk_idle and _disk_active together never overstate *)
(* the idle time, for any interleaving of I/O with the pass.               *)
THEOREM StopsOnlyIdleDisks == Spec => StopOnlyWhenIdle
<1>1. SdIdleInv /\ [Next]_vars =>
        [\A d \in Disks : sent'[d] # sent[d] =>
          /\ d \in managing
          /\ snapquiet[d] >= idletime
          /\ ~snap[d].inflight]_vars
  BY StopStep
<1> QED
  BY <1>1, Invariant, PTL DEF Spec, StopOnlyWhenIdle

(* No disk is sent a second STOP while its line stays as it was.           *)
THEOREM StopsOncePerRest == Spec => NoSecondStop
<1>1. SdIdleInv /\ [Next]_vars =>
        [\A d \in Disks : sent'[d] # sent[d] => snap[d].line > stopline[d]]_vars
  BY StopStep
<1> QED
  BY <1>1, Invariant, PTL DEF Spec, NoSecondStop
-----------------------------------------------------------------------------
(* What IdleDiskIsStopped and WakeIsNoticed rest on besides the fairness   *)
(* of the daemon: the daemon believes a disk at rest only after a STOP for *)
(* the line it has now saved, and a pass that finds a spinning disk idle   *)
(* brings it nearer to the STOP.                                           *)
RestOf(d) ==
    d \notin spinning => /\ d \in managing
                         /\ diskstats[d] \in Lines /\ stopline[d] = diskstats[d]

AtRestWasStopped == \A d \in Disks : RestOf(d)

(* With what makes it inductive: options are parsed before the first STOP, *)
(* and no line in the buffer is the empty string.                          *)
RestInv ==
    /\ AtRestWasStopped
    /\ pc \in {"version", "options"} => spinning = Bits
    /\ \A d \in Disks : snap[d].line \in Lines

LEMMA RestInit == Init => RestInv
  BY SdIdleAssumption DEF Init, RestInv, AtRestWasStopped, RestOf, Disks, Bits, Lines

(* One line of the pass: disk e is looked at, d is e or another disk.      *)
LEMMA RestLine ==
    ASSUME TypeOK, RestInv, NEW e \in Disks, ManageLine(e), NEW d \in Disks
    PROVE  RestOf(d)'
<1>1. RestOf(d) /\ managing' = managing
  BY DEF RestInv, AtRestWasStopped, ManageLine, config
<1>2. CASE UNCHANGED <<spinning, idletimes, diskstats, platter, stopline, sent>>
  BY <1>1, <1>2 DEF RestOf
<1>3. CASE DiskActive(e)
  BY <1>1, <1>3 DEF RestOf, DiskActive, TypeOK
<1>4. ASSUME DiskIdle(e), e \in managing, diskstats[e] = snap[e].line
      PROVE  RestOf(d)'
  <2>1. CASE UNCHANGED <<spinning, platter, stopline, sent>>
    BY <1>1, <1>4, <2>1 DEF RestOf, DiskIdle
  <2>2. CASE DiskStop(e) /\ spinning' = spinning \ {e}
    <3>1. /\ diskstats' = diskstats /\ snap[e].line \in Lines
          /\ stopline' = [stopline EXCEPT ![e] = snap[e].line]
      BY <1>4, <2>2 DEF DiskIdle, DiskStop, RestInv
    <3> QED
      BY <1>1, <1>4, <2>2, <3>1 DEF RestOf, TypeOK
  <2> QED
    BY <1>4, <2>1, <2>2 DEF DiskIdle
<1> QED
  BY <1>2, <1>3, <1>4 DEF ManageLine

LEMMA RestStep == TypeOK /\ RestInv /\ [Next]_vars => RestInv'
<1> SUFFICES ASSUME TypeOK, RestInv, [Next]_vars PROVE RestInv'
  OBVIOUS
<1> DEFINE Keeps == UNCHANGED <<spinning, diskstats, stopline>>
<1>1. CASE Keeps /\ UNCHANGED <<pc, managing, snap>>
  BY <1>1 DEF RestInv, AtRestWasStopped, RestOf
<1>2. CASE Keeps /\ UNCHANGED snap /\ pc \in {"version", "options"}
  <2>1. spinning = Bits /\ \A d \in Disks : d \in Bits
    BY <1>2, SdIdleAssumption DEF RestInv, Disks, Bits
  <2> QED
    BY <1>2, <2>1 DEF RestInv, AtRestWasStopped, RestOf
<1>3. CASE /\ Keeps /\ UNCHANGED <<snap, managing>>
           /\ pc' \notin {"version", "options"}
  BY <1>3 DEF RestInv, AtRestWasStopped, RestOf
<1>4. CASE CheckVersion \/ ParseOption \/ OptionsDone
  <2>1. Keeps /\ UNCHANGED snap /\ pc \in {"version", "options"}
    BY <1>4 DEF CheckVersion, ParseOption, OptionsDone, seen
  <2> QED
    BY <1>2, <2>1
<1>5. CASE OpenDiskstats \/ EndOfFile \/ Sleep
  <2>1. /\ Keeps /\ UNCHANGED <<snap, managing>>
        /\ pc' \notin {"version", "options"}
    BY <1>5 DEF OpenDiskstats, EndOfFile, Sleep, config, seen
  <2> QED
    BY <1>3, <2>1
<1>6. CASE FillBuffer
  <2>1. PICK upto \in toread + 1 .. NumDisks : ReadLines(upto)
    BY <1>6 DEF FillBuffer
  <2>2. \A d \in Disks : snap'[d].line \in Lines
    BY <2>1 DEF ReadLines, RestInv, TypeOK
  <2>3. Keeps /\ UNCHANGED <<pc, managing>>
    BY <1>6 DEF FillBuffer, config
  <2> QED
    BY <2>2, <2>3 DEF RestInv, AtRestWasStopped, RestOf
<1>7. ASSUME NEW e \in Disks, ManageLine(e) PROVE RestInv'
  <2>1. \A d \in Disks : RestOf(d)'
    BY <1>7, RestLine
  <2>2. UNCHANGED <<pc, snap>> /\ pc = "lines"
    BY <1>7 DEF ManageLine
  <2> QED
    BY <2>1, <2>2 DEF RestInv, AtRestWasStopped
<1>8. CASE World
  <2>1. Keeps /\ UNCHANGED <<pc, managing, snap>>
    BY <1>8 DEF World, StartIO, FinishIO, Unplug, Plug, daemon
  <2> QED
    BY <1>1, <2>1
<1>9. CASE Exited \/ UNCHANGED vars
  BY <1>1, <1>9 DEF Exited, vars
<1> QED
  BY <1>4, <1>5, <1>6, <1>7, <1>8, <1>9 DEF Next, Daemon, Manage

(* A disk whose _spinning bit is clear is a managed disk, and the last     *)
(* STOP it was sent was for the very line that is saved: what a pass       *)
(* compares with, so that the first changed line sets the bit again.  No   *)
(* disk is ever taken to be at rest by any other way.                      *)
THEOREM BelievedRestWasStopped == Spec => []AtRestWasStopped
<1>1. RestInv => AtRestWasStopped
  BY DEF RestInv
<1> QED
  BY <1>1, RestInit, RestStep, TypeCorrect, PTL DEF Spec

(* A pass that finds the line of a managed disk unchanged has sent it a    *)
(* STOP or has counted: CountsUp is enough for the int not to overflow.    *)
PassCounts ==
    \A d \in Disks \ Unparsable :
       (/\ ManageLine(d) /\ d \in managing /\ CountsUp
        /\ diskstats[d] = snap[d].line /\ ~snap[d].inflight
        /\ d \in spinning /\ d \in spinning')
          => idletimes[d] < idletimes'[d]

THEOREM EveryPassCounts == Spec => [][PassCounts]_vars
<1>1. TypeOK /\ SpinningBelowLimit => PassCounts
  <2> SUFFICES ASSUME TypeOK, SpinningBelowLimit, NEW d \in Disks \ Unparsable,
                      ManageLine(d), d \in managing, CountsUp, d \in spinning,
                      diskstats[d] = snap[d].line, ~snap[d].inflight
               PROVE  idletimes[d] < idletimes'[d]
    BY DEF PassCounts
  <2>1. idletimes' = [idletimes EXCEPT ![d] = IntAdd(idletimes[d], checktime)]
    BY DEF ManageLine, DiskIdle
  <2>2. /\ idletimes[d] \in Int /\ checktime \in Nat \ {0} /\ idletime \in Int
        /\ idletimes[d] < idletime
    BY SdIdleAssumption DEF TypeOK, SpinningBelowLimit, Ints
  <2>3. idletimes[d] + checktime <= IntMax
    BY <2>2, SdIdleAssumption DEF CountsUp
  <2>4. IntAdd(idletimes[d], checktime) = idletimes[d] + checktime
    BY <2>2, <2>3, SdIdleAssumption DEF IntAdd
  <2>5. idletimes'[d] = idletimes[d] + checktime
    BY <2>1, <2>4 DEF TypeOK
  <2> QED
    BY <2>2, <2>5
<1> QED
  BY <1>1, TypeCorrect, NeverOverdue, PTL DEF Spec
=============================================================================
