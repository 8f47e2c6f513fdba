\* two disks whose lines are read together or one by one, all command lines,
\* with liveness
SPECIFICATION FairSpec
CONSTANTS
    NumDisks = 2
    WordBits = 3
    Argvs <- ArgvsAll
    Unparsable <- None
    IDLETIME_MIN = 2
    IDLETIME_DEFAULT = 3
    CHECKTIME_MIN = 1
    CHECKTIME_DEFAULT = 2
    IntMax = 4
    MaxLine = 2
INVARIANTS TypeOK SdIdleInv
PROPERTIES StopOnlyWhenIdle NoSecondStop IdleDiskIsStopped WakeIsNoticed
